---------------------------- MODULE ChatAppProofs ----------------------------
(***************************************************************************)
(* Proofs about ChatApp for every value of the constants.                  *)
(*                                                                         *)
(* The handlers work on a record, the mail: what they leave of it is       *)
(* stated of a mail c and an address book A, so that one lemma about a     *)
(* helper serves every handler that calls it.                              *)
(***************************************************************************)
EXTENDS ChatApp, TLAPS

-----------------------------------------------------------------------------
(***************************************************************************)
(* Types                                                                   *)
(***************************************************************************)
States        == {"unsent", "waiting", "queued", "sent", "sending"} \cup Final
ReceiptStates == {"queued", "sent", "delivered", "failed"}
Receipts      == [state : ReceiptStates, acked : Nat]

IsMessage(x) ==
  /\ x = [state |-> x.state, rcpt |-> x.rcpt]
  /\ x.state \in States
  /\ DOMAIN x.rcpt \subseteq Peers
  /\ x.rcpt \in [DOMAIN x.rcpt -> Receipts]

IsMail(c) ==
  /\ c = [msg |-> c.msg, waiting |-> c.waiting, jobs |-> c.jobs,
          active |-> c.active, engine |-> c.engine]
  /\ c.msg = [m \in Msgs |-> c.msg[m]]
  /\ \A m \in Msgs : IsMessage(c.msg[m])
  /\ c.waiting \subseteq Texts /\ c.jobs \subseteq Files
  /\ c.active \in [Addrs -> Files \cup {NoFile}]
  /\ c.engine \in [Addrs -> EngineType]

\* No address has two nodes.
IsBook(A) ==
  /\ A \in [Peers -> Addrs \cup {NoAddr}]
  /\ \A p, q \in Peers : A[p] = A[q] /\ p # q => A[p] = NoAddr

-----------------------------------------------------------------------------
(***************************************************************************)
(* The inductive invariant.  A receipt of a text counts its acknowledged   *)
(* frames, and with those the engine of its peer still has it makes up the *)
(* whole text.  A file is with at most one engine, and until that reports  *)
(* nothing has been said of it.                                            *)
(***************************************************************************)
Held(c, a, m) == c.engine[a].queued[m] + c.engine[a].sent[m]

Load(c, A, p, m) == IF A[p] = NoAddr THEN 0 ELSE Held(c, A[p], m)

\* Nothing has been done for m yet.
Untouched(c, G, m) ==
  /\ DOMAIN c.msg[m].rcpt = {}
  /\ \A a \in Addrs : Held(c, a, m) = 0
  /\ \A p \in Peers : G[m][p] = 0

TextReceipt(c, A, D, G, m, p) ==
  LET r == c.msg[m].rcpt[p]
  IN  /\ r.acked = G[m][p]
      /\ r.acked + Load(c, A, p, m) <= Frames[m]
      /\ r.state = "delivered" => r.acked = Frames[m]
      /\ r.state \notin Final /\ m \notin D
           => /\ Load(c, A, p, m) > 0
              /\ r.acked + Load(c, A, p, m) = Frames[m]

TextOK(c, A, D, G, m) ==
  /\ c.msg[m].state = "unsent" \/ m \in c.waiting => Untouched(c, G, m)
  /\ m \in c.waiting <=> c.msg[m].state = "waiting"
  /\ m \in c.waiting => To[m] # Group
  /\ IF DOMAIN c.msg[m].rcpt = {}
     THEN c.msg[m].state \in {"unsent", "waiting", "failed"}
     ELSE c.msg[m].state = Aggregate(c.msg[m].rcpt)
  /\ \A p \in DOMAIN c.msg[m].rcpt : TextReceipt(c, A, D, G, m, p)
  /\ \A a \in Addrs : Held(c, a, m) > 0 => \E p \in DOMAIN c.msg[m].rcpt : A[p] = a

TextInv(c, A, D, G) == \A m \in Texts : TextOK(c, A, D, G, m)

\* No receipt but that of the one recipient, and nothing said of it.
Silent(c, f) ==
  /\ DOMAIN c.msg[f].rcpt \subseteq {To[f]}
  /\ \A p \in DOMAIN c.msg[f].rcpt : c.msg[f].rcpt[p].state = "queued"

FileOK(c, A, D, W, G, f) ==
  /\ DOMAIN c.msg[f].rcpt \subseteq {To[f]}
  /\ c.msg[f].state = "unsent" => DOMAIN c.msg[f].rcpt = {}
  /\ f \in c.jobs =>
       /\ c.msg[f].state \in {"waiting", "queued"}
       /\ To[f] \in Peers /\ Silent(c, f)
  /\ \A a \in Addrs : c.engine[a].file = f =>
       /\ c.msg[f].state = "sending" /\ To[f] \in DOMAIN c.msg[f].rcpt
       /\ Silent(c, f)
       /\ f \notin W => A[To[f]] = a
       /\ \A b \in Addrs : c.engine[b].file = f => a = b
  /\ c.msg[f].state \notin Final \cup {"unsent"} /\ f \notin D =>
       f \in c.jobs \/ \E a \in Addrs : c.engine[a].file = f
  /\ \A p \in DOMAIN c.msg[f].rcpt :
       /\ c.msg[f].state = "delivered" => c.msg[f].rcpt[p].state = "delivered"
       /\ f \notin W /\ c.msg[f].rcpt[p].state = "delivered" => G[f][p] = 1

FileInv(c, A, D, W, G) == \A f \in Files : FileOK(c, A, D, W, G, f)

Busy(c) == \A a \in Addrs : c.active[a] = c.engine[a].file

MailInv(c, A, D, W, G) ==
  IsMail(c) /\ TextInv(c, A, D, G) /\ FileInv(c, A, D, W, G) /\ Busy(c)

Rest ==
  /\ known \subseteq Peers /\ present \subseteq known /\ approved \subseteq Peers
  /\ late \subseteq Msgs /\ misled \subseteq adrift /\ adrift \subseteq Msgs
  /\ offer \subseteq Msgs /\ \A m \in offer : msg[m].state = "unsent"
  /\ got \in [Msgs -> [Peers -> Nat]] /\ moves \in Nat

Inv == IsBook(at) /\ Rest /\ MailInv(Mail, at, adrift, misled, got)

-----------------------------------------------------------------------------
(***************************************************************************)
(* Messages and their receipts                                             *)
(***************************************************************************)
LEMMA ConstantFacts ==
  /\ Texts \subseteq Nat \ {0} /\ Files \subseteq Nat \ {0} /\ Texts \cap Files = {}
  /\ Msgs = Texts \cup Files /\ Addrs \subseteq Nat \ {0} /\ NoAddr \notin Addrs
  /\ NoFile \notin Files
  /\ \A m \in Msgs : To[m] \in Peers \cup {Group} /\ Frames[m] \in Nat \ {0}
  /\ \A f \in Files : Frames[f] = 1
  /\ Group \notin Peers
BY ChatAssumption DEF Msgs, NoAddr, NoFile

\* A message given by its state and receipts.
LEMMA MessageIs ==
  ASSUME NEW s \in States, NEW r, DOMAIN r \subseteq Peers,
         r \in [DOMAIN r -> Receipts]
  PROVE  /\ IsMessage(Message(s, r))
         /\ Message(s, r).state = s /\ Message(s, r).rcpt = r
BY DEF IsMessage, Message

LEMMA NoReceiptsIs ==
  /\ DOMAIN NoReceipts = {} /\ NoReceipts \in [{} -> Receipts]
  /\ \A x : IsMessage(x) => (DOMAIN x.rcpt = {} <=> x.rcpt = NoReceipts)
<1>1. DOMAIN NoReceipts = {} /\ NoReceipts \in [{} -> Receipts]
  BY DEF NoReceipts
<1>2. \A x : IsMessage(x) /\ DOMAIN x.rcpt = {} => x.rcpt = NoReceipts
  BY DEF IsMessage, NoReceipts
<1> QED BY <1>1, <1>2

\* The messages the handlers write without receipts.
LEMMA BareMessage ==
  ASSUME NEW s \in States
  PROVE  /\ IsMessage(Message(s, NoReceipts))
         /\ Message(s, NoReceipts).state = s
         /\ DOMAIN Message(s, NoReceipts).rcpt = {}
BY MessageIs, NoReceiptsIs

\* What the states of the receipts make the state of the message.
LEMMA AggregateIs ==
  ASSUME NEW r, r \in [DOMAIN r -> Receipts], DOMAIN r # {}
  PROVE  /\ Aggregate(r) \in States \ {"unsent", "waiting", "sending"}
         /\ Aggregate(r) \in Final <=> \A p \in DOMAIN r : r[p].state \in Final
         /\ Aggregate(r) = "delivered" <=> \A p \in DOMAIN r : r[p].state = "delivered"
<1> DEFINE S == {r[p].state : p \in DOMAIN r}
<1>1. S \subseteq ReceiptStates /\ S # {}
  BY DEF Receipts
<1>2. Aggregate(r) = CASE S = {"queued"}              -> "queued"
                       [] S = {"delivered"}           -> "delivered"
                       [] S = {"failed"}              -> "failed"
                       [] S = {"delivered", "failed"} -> "partial"
                       [] OTHER                       -> "sent"
  BY DEF Aggregate
<1>3. (\A p \in DOMAIN r : r[p].state \in Final) <=> S \subseteq Final
  OBVIOUS
<1>4. (\A p \in DOMAIN r : r[p].state = "delivered") <=> S \subseteq {"delivered"}
  OBVIOUS
<1> HIDE DEF S
<1>5. S \subseteq Final <=> S \in {{"delivered"}, {"failed"}, {"delivered", "failed"}}
  BY <1>1 DEF Final, ReceiptStates
<1>6. S \subseteq {"delivered"} <=> S = {"delivered"}
  BY <1>1
<1> QED BY <1>2, <1>3, <1>4, <1>5, <1>6 DEF Final, States

\* A message just sent.
LEMMA SentToIs ==
  ASSUME NEW targets \in SUBSET Peers
  PROVE  /\ IsMessage(SentTo(targets)) /\ SentTo(targets).state = "queued"
         /\ DOMAIN SentTo(targets).rcpt = targets
         /\ \A p \in targets : SentTo(targets).rcpt[p] = [state |-> "queued", acked |-> 0]
         /\ targets # {} => Aggregate(SentTo(targets).rcpt) = "queued"
<1> DEFINE r == [p \in targets |-> [state |-> "queued", acked |-> 0]]
<1>1. DOMAIN r = targets /\ r \in [DOMAIN r -> Receipts]
  BY DEF Receipts, ReceiptStates
<1>2. /\ IsMessage(Message("queued", r))
      /\ Message("queued", r).state = "queued" /\ Message("queued", r).rcpt = r
  BY <1>1, MessageIs DEF States
<1>3. SentTo(targets) = Message("queued", r)
  BY DEF SentTo
<1>4. targets # {} => {r[p].state : p \in DOMAIN r} = {"queued"}
  OBVIOUS
<1>5. targets # {} => Aggregate(r) = "queued"
  BY <1>4 DEF Aggregate
<1> QED BY <1>1, <1>2, <1>3, <1>5

\* A message with one receipt replaced.
LEMMA WithReceiptIs ==
  ASSUME NEW x, IsMessage(x), NEW p \in DOMAIN x.rcpt, NEW r \in Receipts
  PROVE  /\ IsMessage(WithReceipt(x, p, r))
         /\ DOMAIN WithReceipt(x, p, r).rcpt = DOMAIN x.rcpt
         /\ WithReceipt(x, p, r).state = Aggregate(WithReceipt(x, p, r).rcpt)
         /\ \A q \in DOMAIN x.rcpt :
              WithReceipt(x, p, r).rcpt[q] = IF q = p THEN r ELSE x.rcpt[q]
<1> DEFINE s == [x.rcpt EXCEPT ![p] = r]
<1>1. /\ DOMAIN s = DOMAIN x.rcpt /\ s \in [DOMAIN s -> Receipts]
      /\ \A q \in DOMAIN x.rcpt : s[q] = IF q = p THEN r ELSE x.rcpt[q]
      /\ DOMAIN s \subseteq Peers
  BY DEF IsMessage
<1>2. WithReceipt(x, p, r) = Message(Aggregate(s), s)
  BY DEF WithReceipt
<1> HIDE DEF s
<1>3. Aggregate(s) \in States
  BY <1>1, AggregateIs
<1> QED BY <1>1, <1>2, <1>3, MessageIs

-----------------------------------------------------------------------------
(***************************************************************************)
(* What a step may do to the messages: a verdict stays, for a message and  *)
(* for a recipient, and what was not submitted is left alone.              *)
(***************************************************************************)
KeepsOne(x, y) ==
  /\ x.state \in Final => y.state = x.state
  /\ \A p \in DOMAIN x.rcpt : x.rcpt[p].state \in Final =>
       p \in DOMAIN y.rcpt /\ y.rcpt[p].state = x.rcpt[p].state

Keeps(c, d) == \A m \in Msgs : KeepsOne(c.msg[m], d.msg[m])

Spares(c, d) == \A m \in Msgs : c.msg[m].state = "unsent" => d.msg[m] = c.msg[m]

Mild(c, d) == Keeps(c, d) /\ Spares(c, d)

LEMMA MildTransitive ==
  ASSUME NEW c, NEW d, NEW e, Mild(c, d), Mild(d, e)
  PROVE  Mild(c, e)
<1>1. Keeps(c, e)
  <2> SUFFICES ASSUME NEW m \in Msgs PROVE KeepsOne(c.msg[m], e.msg[m])
    BY DEF Keeps
  <2>1. KeepsOne(c.msg[m], d.msg[m]) /\ KeepsOne(d.msg[m], e.msg[m])
    BY DEF Mild, Keeps
  <2> QED BY <2>1 DEF KeepsOne
<1>2. Spares(c, e)
  BY DEF Mild, Spares
<1> QED BY <1>1, <1>2 DEF Mild

LEMMA MildReflexive == \A c : Mild(c, c)
BY DEF Mild, Keeps, KeepsOne, Spares

-----------------------------------------------------------------------------
(***************************************************************************)
(* What the invariant says of a text, or of a file, depends on little.     *)
(***************************************************************************)
SameText(c, d, m) ==
  /\ d.msg[m] = c.msg[m] /\ (m \in d.waiting <=> m \in c.waiting)
  /\ \A a \in Addrs : Held(d, a, m) = Held(c, a, m)

SameFile(c, d, f) ==
  /\ d.msg[f] = c.msg[f] /\ (f \in d.jobs <=> f \in c.jobs)
  /\ \A a \in Addrs : d.engine[a].file = f <=> c.engine[a].file = f

LEMMA TextFrame ==
  ASSUME NEW A, IsBook(A), NEW c, NEW d, NEW D, NEW E, D \subseteq E, NEW W, NEW G,
         NEW m \in Texts, IsMail(c), TextOK(c, A, D, G, m), SameText(c, d, m)
  PROVE  TextOK(d, A, E, G, m)
<1>1. \A p \in DOMAIN c.msg[m].rcpt : Load(d, A, p, m) = Load(c, A, p, m)
  <2>1. DOMAIN c.msg[m].rcpt \subseteq Peers
    BY DEF IsMail, IsMessage, Msgs
  <2>2. \A p \in Peers : A[p] # NoAddr => A[p] \in Addrs
    BY DEF IsBook
  <2> QED BY <2>1, <2>2 DEF Load, SameText
<1>2. Untouched(c, G, m) => Untouched(d, G, m)
  BY DEF Untouched, SameText
<1>3. \A p \in DOMAIN c.msg[m].rcpt :
        TextReceipt(c, A, D, G, m, p) => TextReceipt(d, A, E, G, m, p)
  <2> SUFFICES ASSUME NEW p \in DOMAIN c.msg[m].rcpt, TextReceipt(c, A, D, G, m, p)
               PROVE  TextReceipt(d, A, E, G, m, p)
    OBVIOUS
  <2>1. d.msg[m] = c.msg[m] /\ Load(d, A, p, m) = Load(c, A, p, m)
    BY <1>1 DEF SameText
  <2> QED BY <2>1 DEF TextReceipt
<1> QED BY <1>2, <1>3 DEF TextOK, SameText

LEMMA FileFrame ==
  ASSUME NEW A, NEW c, NEW d, NEW D, NEW E, D \subseteq E, NEW W, NEW G,
         NEW f \in Files, FileOK(c, A, D, W, G, f), SameFile(c, d, f)
  PROVE  FileOK(d, A, E, W, G, f)
BY DEF FileOK, SameFile, Silent

-----------------------------------------------------------------------------
(***************************************************************************)
(* StartNextFile: jobs that cannot be done fail, and at most one starts at *)
(* an address, where nothing was under way.                                *)
(***************************************************************************)
JobsTaken(c, d, A, failing, started) ==
  /\ failing \cap started = {}
  /\ d.jobs = c.jobs \ (failing \cup started)
  /\ \A m \in failing : /\ d.msg[m].state = "failed"
                        /\ d.msg[m].rcpt = c.msg[m].rcpt
  /\ \A m \in started :
       /\ d.msg[m].state = "sending" /\ Silent(d, m)
       /\ DOMAIN d.msg[m].rcpt = {To[m]}
       /\ A[To[m]] \in Addrs /\ d.engine[A[To[m]]].file = m
  /\ \A m \in Msgs \ (failing \cup started) : d.msg[m] = c.msg[m]
  /\ \A a \in Addrs :
       \/ /\ d.active[a] = c.active[a]
          /\ d.engine[a].file = c.engine[a].file
       \/ /\ c.engine[a].file = NoFile
          /\ d.engine[a].file \in started
          /\ A[To[d.engine[a].file]] = a
          /\ d.active[a] = d.engine[a].file

LEMMA StartNextFileIs ==
  ASSUME NEW c, IsMail(c), NEW A, IsBook(A), NEW T,
         \A f \in c.jobs : To[f] \in Peers /\ Silent(c, f)
  PROVE  LET d == StartNextFile(c, A, T)
         IN  /\ IsMail(d) /\ d.waiting = c.waiting
             /\ \A a \in Addrs : d.engine[a].queued = c.engine[a].queued
                                 /\ d.engine[a].sent = c.engine[a].sent
             /\ \E failing, started \in SUBSET c.jobs :
                  JobsTaken(c, d, A, failing, started)
<1> DEFINE gone    == {f \in c.jobs : A[To[f]] = NoAddr}
           denied  == {f \in c.jobs \ gone : To[f] \notin T}
           failing == (gone \cap late) \cup denied
           started == {f \in c.jobs \ (gone \cup denied) :
                         /\ c.active[A[To[f]]] = NoFile
                         /\ c.engine[A[To[f]]].file = NoFile
                         /\ \A g \in c.jobs : To[g] = To[f] => g >= f}
           file(a) == CHOOSE f \in started : A[To[f]] = a
           rcpt(f) == IF c.msg[f].rcpt = NoReceipts THEN SentTo({To[f]}).rcpt
                      ELSE c.msg[f].rcpt
           to      == {A[To[f]] : f \in started}
           M == [m \in Msgs |->
                    IF m \in failing THEN Message("failed", c.msg[m].rcpt)
                    ELSE IF m \in started THEN Message("sending", rcpt(m))
                    ELSE c.msg[m]]
           N == [a \in Addrs |->
                   IF a \in to THEN [c.engine[a] EXCEPT !.file = file(a)]
                   ELSE c.engine[a]]
           X == [a \in Addrs |-> IF a \in to THEN file(a) ELSE c.active[a]]
           d == [msg |-> M, waiting |-> c.waiting, jobs |-> c.jobs \ (failing \cup started),
                 active |-> X, engine |-> N]
<1>1. StartNextFile(c, A, T) = d
  <2>1. StartNextFile(c, A, T) =
          [c EXCEPT !.msg = M, !.jobs = c.jobs \ (failing \cup started),
                    !.active = X, !.engine = N]
    BY DEF StartNextFile
  <2> HIDE DEF M, X, N, failing, started
  <2> QED BY <2>1 DEF IsMail
<1>2. c.jobs \subseteq Files /\ c.jobs \subseteq Msgs /\ \A f \in c.jobs : To[f] \in Peers
  BY DEF IsMail, Msgs
<1>3. failing \in SUBSET c.jobs /\ started \in SUBSET c.jobs /\ failing \cap started = {}
  <2>1. started \cap gone = {} /\ started \cap denied = {}
    OBVIOUS
  <2>2. failing \subseteq gone \cup denied
    OBVIOUS
  <2>3. gone \subseteq c.jobs /\ denied \subseteq c.jobs /\ started \subseteq c.jobs
    OBVIOUS
  <2> HIDE DEF gone, denied, failing, started
  <2> QED BY <2>1, <2>2, <2>3
<1>4. \A f \in started : A[To[f]] \in Addrs /\ c.engine[A[To[f]]].file = NoFile
  BY <1>2 DEF IsBook
<1>5. \A f, g \in started : A[To[f]] = A[To[g]] => f = g
  <2> SUFFICES ASSUME NEW f \in started, NEW g \in started, A[To[f]] = A[To[g]]
               PROVE  f = g
    OBVIOUS
  <2>1. A[To[f]] # NoAddr /\ To[f] \in Peers /\ To[g] \in Peers
    BY <1>2, <1>4, ConstantFacts
  <2>2. To[f] = To[g]
    BY <2>1 DEF IsBook
  <2>3. f \in c.jobs /\ g \in c.jobs /\ g >= f /\ f >= g
    BY <2>2
  <2>4. f \in Nat /\ g \in Nat
    BY <1>2, <2>3, ConstantFacts
  <2> HIDE DEF started
  <2> QED BY <2>3, <2>4
<1> HIDE DEF gone, denied, failing, started
<1>6. \A a \in to : file(a) \in started /\ A[To[file(a)]] = a
  OBVIOUS
<1>7. \A f \in started : A[To[f]] \in to /\ file(A[To[f]]) = f
  BY <1>5, <1>6
<1>8. \A a \in to : c.engine[a].file = NoFile
  BY <1>4, <1>6
<1> HIDE DEF file, to
<1>9. \A a \in Addrs :
        /\ N[a] \in EngineType
        /\ N[a].queued = c.engine[a].queued /\ N[a].sent = c.engine[a].sent
        /\ IF a \in to THEN N[a].file = file(a) /\ X[a] = file(a)
           ELSE N[a].file = c.engine[a].file /\ X[a] = c.active[a]
  BY SMTT(30), <1>2, <1>3, <1>6 DEF IsMail, EngineType
<1>10. \A f \in started : /\ rcpt(f) \in [DOMAIN rcpt(f) -> Receipts]
                          /\ DOMAIN rcpt(f) = {To[f]}
                          /\ \A p \in DOMAIN rcpt(f) : rcpt(f)[p].state = "queued"
  <2> SUFFICES ASSUME NEW f \in started
               PROVE  /\ rcpt(f) \in [DOMAIN rcpt(f) -> Receipts]
                      /\ DOMAIN rcpt(f) = {To[f]}
                      /\ \A p \in DOMAIN rcpt(f) : rcpt(f)[p].state = "queued"
    OBVIOUS
  <2>1. IsMessage(c.msg[f]) /\ Silent(c, f) /\ To[f] \in Peers
    BY <1>2, <1>3 DEF IsMail
  <2>2. CASE c.msg[f].rcpt = NoReceipts
    <3>1. /\ IsMessage(SentTo({To[f]})) /\ DOMAIN SentTo({To[f]}).rcpt = {To[f]}
          /\ \A p \in {To[f]} : SentTo({To[f]}).rcpt[p] = [state |-> "queued", acked |-> 0]
      BY <2>1, SentToIs
    <3>2. rcpt(f) = SentTo({To[f]}).rcpt
      BY <2>2
    <3> HIDE DEF rcpt
    <3>3. \A p \in {To[f]} : rcpt(f)[p].state = "queued"
      BY <3>1, <3>2
    <3> QED BY <3>1, <3>2, <3>3 DEF IsMessage
  <2>3. CASE c.msg[f].rcpt # NoReceipts
    <3>1. DOMAIN c.msg[f].rcpt # {}
      BY <2>1, <2>3, NoReceiptsIs
    <3> QED BY <2>1, <2>3, <3>1 DEF Silent, IsMessage
  <2> QED BY <2>2, <2>3
<1> HIDE DEF rcpt
<1>11. \A m \in Msgs : /\ IsMessage(M[m])
                       /\ m \in failing => M[m].state = "failed" /\ M[m].rcpt = c.msg[m].rcpt
                       /\ m \in started => M[m].state = "sending" /\ M[m].rcpt = rcpt(m)
                       /\ m \notin failing \cup started => M[m] = c.msg[m]
  <2> SUFFICES ASSUME NEW m \in Msgs
               PROVE  /\ IsMessage(M[m])
                      /\ m \in failing => M[m].state = "failed" /\ M[m].rcpt = c.msg[m].rcpt
                      /\ m \in started => M[m].state = "sending" /\ M[m].rcpt = rcpt(m)
                      /\ m \notin failing \cup started => M[m] = c.msg[m]
    OBVIOUS
  <2>1. IsMessage(c.msg[m]) /\ "failed" \in States /\ "sending" \in States
    BY DEF IsMail, States, Final
  <2>2. CASE m \in failing
    <3>1. M[m] = Message("failed", c.msg[m].rcpt)
      BY <2>2
    <3>2. DOMAIN c.msg[m].rcpt \subseteq Peers /\ c.msg[m].rcpt \in [DOMAIN c.msg[m].rcpt -> Receipts]
      BY <2>1 DEF IsMessage
    <3> HIDE DEF M
    <3> QED BY <1>3, <2>1, <2>2, <3>1, <3>2, MessageIs
  <2>3. CASE m \in started
    <3>1. M[m] = Message("sending", rcpt(m)) /\ m \notin failing
      BY <1>3, <2>3
    <3>2. DOMAIN rcpt(m) \subseteq Peers /\ rcpt(m) \in [DOMAIN rcpt(m) -> Receipts]
      BY <1>2, <1>3, <1>10, <2>3
    <3> HIDE DEF M
    <3> QED BY <1>3, <2>1, <2>3, <3>1, <3>2, MessageIs
  <2>4. CASE m \notin failing \cup started
    BY <2>1, <2>4
  <2> QED BY <2>2, <2>3, <2>4
<1>12. IsMail(d)
  <2>1. /\ d.msg = [m \in Msgs |-> d.msg[m]] /\ \A m \in Msgs : IsMessage(d.msg[m])
    BY <1>11
  <2>2. d.waiting \subseteq Texts /\ d.jobs \subseteq Files
    BY <1>2 DEF IsMail
  <2>3. d.engine \in [Addrs -> EngineType]
    BY <1>9
  <2>4. d.active \in [Addrs -> Files \cup {NoFile}]
    <3>1. \A a \in Addrs : X[a] \in Files \cup {NoFile}
      BY <1>2, <1>3, <1>6, <1>9 DEF IsMail
    <3> QED BY <3>1
  <2> HIDE DEF M, N, X
  <2> QED BY <2>1, <2>2, <2>3, <2>4 DEF IsMail
<1>13. /\ d.waiting = c.waiting /\ d.jobs = c.jobs \ (failing \cup started)
       /\ d.msg = M /\ d.engine = N /\ d.active = X
  OBVIOUS
<1> HIDE DEF d, M, N, X
<1>14. \A m \in started :
         /\ d.msg[m].state = "sending" /\ Silent(d, m)
         /\ DOMAIN d.msg[m].rcpt = {To[m]}
         /\ A[To[m]] \in Addrs /\ d.engine[A[To[m]]].file = m
  <2> SUFFICES ASSUME NEW m \in started
               PROVE  /\ d.msg[m].state = "sending" /\ Silent(d, m)
                      /\ DOMAIN d.msg[m].rcpt = {To[m]}
                      /\ A[To[m]] \in Addrs /\ d.engine[A[To[m]]].file = m
    OBVIOUS
  <2>1. m \in Msgs /\ A[To[m]] \in Addrs /\ A[To[m]] \in to /\ file(A[To[m]]) = m
    BY <1>2, <1>3, <1>4, <1>7
  <2>2. N[A[To[m]]].file = m
    BY <1>9, <2>1
  <2>3. M[m].state = "sending" /\ M[m].rcpt = rcpt(m)
    BY <1>11, <2>1
  <2>4. /\ DOMAIN rcpt(m) = {To[m]}
        /\ \A p \in DOMAIN rcpt(m) : rcpt(m)[p].state = "queued"
    BY <1>10
  <2>5. d.msg[m].state = "sending" /\ d.msg[m].rcpt = rcpt(m)
    BY <1>13, <2>3
  <2>6. d.engine[A[To[m]]].file = m
    BY <1>13, <2>2
  <2>7. Silent(d, m)
    BY <2>4, <2>5 DEF Silent
  <2> QED BY <2>1, <2>4, <2>5, <2>6, <2>7
<1>15. \A a \in Addrs :
         \/ /\ d.active[a] = c.active[a]
            /\ d.engine[a].file = c.engine[a].file
         \/ /\ c.engine[a].file = NoFile
            /\ d.engine[a].file \in started
            /\ A[To[d.engine[a].file]] = a
            /\ d.active[a] = d.engine[a].file
  BY <1>6, <1>8, <1>9, <1>13
<1>16. /\ \A m \in failing : d.msg[m].state = "failed" /\ d.msg[m].rcpt = c.msg[m].rcpt
       /\ \A m \in Msgs \ (failing \cup started) : d.msg[m] = c.msg[m]
       /\ \A a \in Addrs : d.engine[a].queued = c.engine[a].queued
                           /\ d.engine[a].sent = c.engine[a].sent
  BY <1>2, <1>3, <1>9, <1>11, <1>13
<1>17. JobsTaken(c, d, A, failing, started)
  BY <1>3, <1>13, <1>14, <1>15, <1>16 DEF JobsTaken
<1> QED BY <1>1, <1>3, <1>12, <1>13, <1>16, <1>17

\* The invariant of the files that have a job makes them silent.
LEMMA JobsAreSilent ==
  ASSUME NEW c, IsMail(c), NEW A, NEW D, NEW W, NEW G, FileInv(c, A, D, W, G)
  PROVE  \A f \in c.jobs : f \in Files /\ To[f] \in Peers /\ Silent(c, f)
BY DEF FileInv, FileOK, IsMail

LEMMA StartNextFileInv ==
  ASSUME NEW c, NEW A, IsBook(A), NEW D, NEW W, NEW G, MailInv(c, A, D, W, G), NEW T
  PROVE  /\ MailInv(StartNextFile(c, A, T), A, D, W, G)
         /\ Mild(c, StartNextFile(c, A, T))
<1> DEFINE d == StartNextFile(c, A, T)
<1>1. /\ IsMail(c) /\ FileInv(c, A, D, W, G) /\ TextInv(c, A, D, G) /\ Busy(c)
      /\ \A f \in c.jobs : f \in Files /\ To[f] \in Peers /\ Silent(c, f)
  BY JobsAreSilent DEF MailInv
<1>2. /\ IsMail(d) /\ d.waiting = c.waiting
      /\ \A a \in Addrs : d.engine[a].queued = c.engine[a].queued
                          /\ d.engine[a].sent = c.engine[a].sent
  BY <1>1, StartNextFileIs
<1>3. PICK failing \in SUBSET c.jobs, started \in SUBSET c.jobs :
        JobsTaken(c, d, A, failing, started)
  BY <1>1, StartNextFileIs
<1> HIDE DEF d
<1> USE DEF JobsTaken
<1>4. failing \subseteq Files /\ started \subseteq Files
  BY <1>1, <1>3
<1>5. TextInv(d, A, D, G)
  <2> SUFFICES ASSUME NEW m \in Texts PROVE TextOK(d, A, D, G, m)
    BY DEF TextInv
  <2>1. m \in Msgs \ (failing \cup started)
    BY <1>4, ConstantFacts
  <2>2. SameText(c, d, m)
    BY <1>2, <1>3, <2>1 DEF SameText, Held
  <2>3. TextOK(c, A, D, G, m)
    BY <1>1 DEF TextInv
  <2> QED BY <1>1, <2>2, <2>3, TextFrame
<1>6. FileInv(d, A, D, W, G)
  <2> SUFFICES ASSUME NEW f \in Files PROVE FileOK(d, A, D, W, G, f)
    BY DEF FileInv
  <2>1. f \in Msgs /\ f # NoFile /\ FileOK(c, A, D, W, G, f)
    BY <1>1, ConstantFacts DEF FileInv
  <2>2. CASE f \in failing
    <3>1. f \notin d.jobs /\ d.msg[f].state = "failed" /\ d.msg[f].rcpt = c.msg[f].rcpt
      BY <1>3, <2>2
    <3>2. \A a \in Addrs : c.engine[a].file # f
      BY <1>3, <2>1, <2>2 DEF FileOK
    <3>3. \A a \in Addrs : d.engine[a].file # f
      BY <1>3, <2>2, <3>2
    <3>4. DOMAIN c.msg[f].rcpt \subseteq {To[f]} /\ Silent(c, f)
      BY <1>1, <2>1, <2>2 DEF FileOK
    <3> QED BY <3>1, <3>3, <3>4 DEF FileOK, Final, Silent
  <2>3. CASE f \in started
    <3>1. /\ f \notin d.jobs /\ d.msg[f].state = "sending" /\ Silent(d, f)
          /\ DOMAIN d.msg[f].rcpt = {To[f]}
          /\ A[To[f]] \in Addrs /\ d.engine[A[To[f]]].file = f
      BY <1>3, <2>3
    <3>2. \A a \in Addrs : c.engine[a].file # f
      BY <1>3, <2>1, <2>3 DEF FileOK
    <3>3. \A a \in Addrs : d.engine[a].file = f => A[To[f]] = a
      BY <1>3, <3>2
    <3> QED BY <3>1, <3>3 DEF FileOK, Final, Silent
  <2>4. CASE f \notin failing \cup started
    <3>1. SameFile(c, d, f)
      <4>1. \A a \in Addrs : d.engine[a].file = f <=> c.engine[a].file = f
        BY <1>3, <2>1, <2>4
      <4> QED BY <1>3, <2>1, <2>4, <4>1 DEF SameFile
    <3> QED BY <2>1, <3>1, FileFrame
  <2> QED BY <2>2, <2>3, <2>4
<1>7. Busy(d)
  BY <1>1, <1>3 DEF Busy
<1>8. Mild(c, d)
  <2>1. Spares(c, d)
    <3> SUFFICES ASSUME NEW m \in Msgs, c.msg[m].state = "unsent"
                 PROVE  d.msg[m] = c.msg[m]
      BY DEF Spares
    <3>1. m \notin c.jobs
      BY <1>1 DEF FileInv, FileOK
    <3> QED BY <1>3, <3>1
  <2>2. Keeps(c, d)
    <3> SUFFICES ASSUME NEW m \in Msgs PROVE KeepsOne(c.msg[m], d.msg[m])
      BY DEF Keeps
    <3>1. CASE m \in failing \cup started
      <4>1. /\ c.msg[m].state \notin Final
            /\ \A p \in DOMAIN c.msg[m].rcpt : c.msg[m].rcpt[p].state \notin Final
        BY <1>1, <1>3, <3>1 DEF FileInv, FileOK, Silent, Final
      <4> QED BY <4>1 DEF KeepsOne
    <3>2. CASE m \notin failing \cup started
      BY <1>3, <3>2 DEF KeepsOne
    <3> QED BY <3>1, <3>2
  <2> QED BY <2>1, <2>2 DEF Mild
<1> QED BY <1>2, <1>5, <1>6, <1>7, <1>8 DEF MailInv, d

-----------------------------------------------------------------------------
(***************************************************************************)
(* ReleaseAddr: the engine of an address goes, and so may its node.        *)
(***************************************************************************)
Dropped(c, a, pid) ==
  [RcptFailed(c, Aboard(c, a), pid) EXCEPT !.engine[a] = NoEngine,
                                           !.active[a] = NoFile]

\* A receipt fails that was open and is one of pid's; nothing else happens.
LEMMA DroppedIs ==
  ASSUME NEW c, IsMail(c), NEW a \in Addrs, NEW pid \in SUBSET Peers,
         \A p, q \in pid : p = q
  PROVE  LET d == Dropped(c, a, pid)
         IN  /\ IsMail(d) /\ d.waiting = c.waiting /\ d.jobs = c.jobs
             /\ d.engine[a] = NoEngine /\ d.active[a] = NoFile
             /\ \A b \in Addrs \ {a} : d.engine[b] = c.engine[b]
                                       /\ d.active[b] = c.active[b]
             /\ \A m \in Msgs :
                  \/ /\ d.msg[m] = c.msg[m]
                     /\ \/ m \notin Aboard(c, a)
                        \/ \A p \in pid \cap DOMAIN c.msg[m].rcpt :
                             c.msg[m].rcpt[p].state \in Final
                  \/ /\ m \in Aboard(c, a)
                     /\ \E p \in pid \cap DOMAIN c.msg[m].rcpt :
                          /\ c.msg[m].rcpt[p].state \notin Final
                          /\ d.msg[m] = WithReceipt(c.msg[m], p,
                               [c.msg[m].rcpt[p] EXCEPT !.state = "failed"])
<1> DEFINE M == Aboard(c, a)
           open(m) == {p \in pid \cap DOMAIN c.msg[m].rcpt :
                         c.msg[m].rcpt[p].state \notin Final}
           who(m) == CHOOSE p \in open(m) : TRUE
           new(m) == WithReceipt(c.msg[m], who(m),
                                 [c.msg[m].rcpt[who(m)] EXCEPT !.state = "failed"])
           N == [m \in Msgs |-> IF m \in M /\ open(m) # {} THEN new(m) ELSE c.msg[m]]
           d == [msg |-> N, waiting |-> c.waiting, jobs |-> c.jobs,
                 active |-> [c.active EXCEPT ![a] = NoFile],
                 engine |-> [c.engine EXCEPT ![a] = NoEngine]]
<1>1. Dropped(c, a, pid) = d
  <2>1. RcptFailed(c, M, pid) = [c EXCEPT !.msg = N]
    BY DEF RcptFailed
  <2>2. Dropped(c, a, pid) =
          [[c EXCEPT !.msg = N] EXCEPT !.engine[a] = NoEngine, !.active[a] = NoFile]
    BY <2>1 DEF Dropped
  <2> HIDE DEF N, M
  <2> QED BY <2>2 DEF IsMail
<1>2. \A m \in Msgs : open(m) # {} =>
        /\ who(m) \in open(m) /\ who(m) \in DOMAIN c.msg[m].rcpt
        /\ IsMessage(new(m))
  <2> SUFFICES ASSUME NEW m \in Msgs, open(m) # {}
               PROVE  /\ who(m) \in open(m) /\ who(m) \in DOMAIN c.msg[m].rcpt
                      /\ IsMessage(new(m))
    OBVIOUS
  <2>1. who(m) \in open(m)
    OBVIOUS
  <2>2. who(m) \in DOMAIN c.msg[m].rcpt
    BY <2>1
  <2>3. IsMessage(c.msg[m])
    BY DEF IsMail
  <2>4. [c.msg[m].rcpt[who(m)] EXCEPT !.state = "failed"] \in Receipts
    <3> HIDE DEF who
    <3> QED BY <2>2, <2>3 DEF IsMessage, Receipts, ReceiptStates
  <2> HIDE DEF who
  <2> QED BY <2>1, <2>2, <2>3, <2>4, WithReceiptIs
<1>3. \A m \in Msgs : N[m] = IF m \in M /\ open(m) # {} THEN new(m) ELSE c.msg[m]
  OBVIOUS
<1>4. \A m \in Msgs : IsMessage(N[m])
  <2> HIDE DEF N, M, open, new
  <2> QED BY <1>2, <1>3 DEF IsMail
<1>5. /\ d.waiting = c.waiting /\ d.jobs = c.jobs /\ d.msg = N
      /\ d.engine = [c.engine EXCEPT ![a] = NoEngine]
      /\ d.active = [c.active EXCEPT ![a] = NoFile]
      /\ d = [msg |-> d.msg, waiting |-> d.waiting, jobs |-> d.jobs,
              active |-> d.active, engine |-> d.engine]
      /\ d.msg = [m \in Msgs |-> d.msg[m]]
  OBVIOUS
<1> HIDE DEF d, N
<1>6. NoEngine \in EngineType
  BY DEF NoEngine, EngineType
<1>7. IsMail(d)
  BY <1>4, <1>5, <1>6 DEF IsMail
<1>8. /\ d.engine[a] = NoEngine /\ d.active[a] = NoFile
      /\ \A b \in Addrs \ {a} : d.engine[b] = c.engine[b] /\ d.active[b] = c.active[b]
  BY <1>5 DEF IsMail
<1>9. \A m \in Msgs :
        \/ /\ d.msg[m] = c.msg[m]
           /\ \/ m \notin M
              \/ \A p \in pid \cap DOMAIN c.msg[m].rcpt :
                   c.msg[m].rcpt[p].state \in Final
        \/ /\ m \in M
           /\ \E p \in pid \cap DOMAIN c.msg[m].rcpt :
                /\ c.msg[m].rcpt[p].state \notin Final
                /\ d.msg[m] = WithReceipt(c.msg[m], p,
                     [c.msg[m].rcpt[p] EXCEPT !.state = "failed"])
  <2> SUFFICES ASSUME NEW m \in Msgs
               PROVE  \/ /\ d.msg[m] = c.msg[m]
                         /\ \/ m \notin M
                            \/ \A p \in pid \cap DOMAIN c.msg[m].rcpt :
                                 c.msg[m].rcpt[p].state \in Final
                      \/ /\ m \in M
                         /\ \E p \in pid \cap DOMAIN c.msg[m].rcpt :
                              /\ c.msg[m].rcpt[p].state \notin Final
                              /\ d.msg[m] = WithReceipt(c.msg[m], p,
                                   [c.msg[m].rcpt[p] EXCEPT !.state = "failed"])
    OBVIOUS
  <2> HIDE DEF M
  <2>1. CASE m \in M /\ open(m) # {}
    <3>1. d.msg[m] = new(m)
      <4> HIDE DEF N, open, new
      <4> QED BY <1>3, <1>5, <2>1
    <3>2. /\ who(m) \in pid \cap DOMAIN c.msg[m].rcpt
          /\ c.msg[m].rcpt[who(m)].state \notin Final
      BY <1>2, <2>1
    <3> HIDE DEF who
    <3> QED BY <2>1, <3>1, <3>2
  <2>2. CASE ~(m \in M /\ open(m) # {})
    <3>1. d.msg[m] = c.msg[m]
      BY <1>3, <1>5, <2>2
    <3> QED BY SMTT(30), <2>2, <3>1
  <2> QED BY <2>1, <2>2
<1> QED BY <1>1, <1>5, <1>7, <1>8, <1>9

\* What is aboard is there, and has been sent.
LEMMA AboardIs ==
  ASSUME NEW c, NEW A, NEW D, NEW W, NEW G, MailInv(c, A, D, W, G), NEW a \in Addrs
  PROVE  /\ Aboard(c, a) \subseteq Msgs
         /\ \A m \in Texts : m \in Aboard(c, a) <=> Held(c, a, m) > 0
         /\ \A f \in Files : f \in Aboard(c, a) <=> c.engine[a].file = f
         /\ \A m \in Aboard(c, a) :
              /\ c.msg[m].state \notin {"unsent", "waiting"} /\ m \notin c.waiting
              /\ DOMAIN c.msg[m].rcpt # {}
              /\ \A p \in DOMAIN c.msg[m].rcpt :
                   c.msg[m].rcpt[p].state \notin Final => c.msg[m].state \notin Final
<1>1. /\ IsMail(c) /\ c.engine[a].file \in Files \cup {NoFile}
      /\ Texts \cap Files = {} /\ NoFile \notin Texts /\ NoFile \notin Files
      /\ Msgs = Texts \cup Files
  <2>1. c.engine[a] \in EngineType /\ IsMail(c)
    BY DEF MailInv, IsMail
  <2>2. NoFile \notin Texts
    BY ConstantFacts DEF NoFile
  <2> QED BY <2>1, <2>2, ConstantFacts DEF EngineType
<1>2. Aboard(c, a) = {m \in Texts : Held(c, a, m) > 0} \cup ({c.engine[a].file} \ {NoFile})
  BY DEF Aboard, Held
<1>3. /\ Aboard(c, a) \subseteq Msgs
      /\ \A m \in Texts : m \in Aboard(c, a) <=> Held(c, a, m) > 0
      /\ \A f \in Files : f \in Aboard(c, a) <=> c.engine[a].file = f
  BY <1>1, <1>2
<1>4. ASSUME NEW m \in Texts, Held(c, a, m) > 0
      PROVE  /\ c.msg[m].state \notin {"unsent", "waiting"} /\ m \notin c.waiting
             /\ DOMAIN c.msg[m].rcpt # {}
             /\ \A p \in DOMAIN c.msg[m].rcpt :
                  c.msg[m].rcpt[p].state \notin Final => c.msg[m].state \notin Final
  <2>1. TextOK(c, A, D, G, m)
    BY DEF MailInv, TextInv
  <2>2. DOMAIN c.msg[m].rcpt # {}
    BY <1>4, <2>1 DEF TextOK
  <2>3. c.msg[m].state = Aggregate(c.msg[m].rcpt) /\ IsMessage(c.msg[m])
    BY <1>1, <2>1, <2>2 DEF TextOK, IsMail
  <2>4. /\ c.msg[m].state \notin {"unsent", "waiting"}
        /\ c.msg[m].state \in Final =>
             \A p \in DOMAIN c.msg[m].rcpt : c.msg[m].rcpt[p].state \in Final
    BY <2>2, <2>3, AggregateIs DEF IsMessage
  <2>5. m \notin c.waiting
    BY <2>1, <2>2 DEF TextOK, Untouched
  <2> QED BY <2>2, <2>4, <2>5
<1>5. ASSUME NEW f \in Files, c.engine[a].file = f
      PROVE  /\ c.msg[f].state \notin {"unsent", "waiting"} /\ f \notin c.waiting
             /\ DOMAIN c.msg[f].rcpt # {}
             /\ c.msg[f].state \notin Final
  <2>1. FileOK(c, A, D, W, G, f)
    BY DEF MailInv, FileInv
  <2>2. c.msg[f].state = "sending" /\ To[f] \in DOMAIN c.msg[f].rcpt
    BY <1>5, <2>1 DEF FileOK
  <2>3. f \notin c.waiting
    BY <1>1 DEF IsMail
  <2> QED BY <2>2, <2>3 DEF Final
<1> QED BY <1>1, <1>3, <1>4, <1>5

\* The engine of a is dropped, and the nodes in pid fail its messages: they are
\* those at a, unless what was aboard is written off: E holds what no engine and
\* no report settles any more, W the files that are with an engine of a stranger.
LEMMA DroppedInv ==
  ASSUME NEW c, NEW A, IsBook(A), NEW D, NEW W, NEW G, MailInv(c, A, D, W, G),
         NEW a \in Addrs, NEW pid \in SUBSET {q \in Peers : A[q] = a},
         NEW B, IsBook(B), \A q \in Peers : B[q] = A[q] \/ (q \in pid /\ B[q] = NoAddr),
         NEW E, D \subseteq E, W \subseteq E,
         \A m \in Aboard(c, a) \ E : {q \in Peers : A[q] = a} \subseteq pid
  PROVE  /\ MailInv(Dropped(c, a, pid), B, E, W, G)
         /\ Mild(c, Dropped(c, a, pid))
<1> DEFINE d == Dropped(c, a, pid)
           fail(m, p) == [c.msg[m].rcpt[p] EXCEPT !.state = "failed"]
<1>1. /\ IsMail(c) /\ TextInv(c, A, D, G) /\ FileInv(c, A, D, W, G) /\ Busy(c)
      /\ NoAddr \notin Addrs /\ NoFile \notin Files
      /\ \A p, q \in pid : p = q
  <2>1. \A p, q \in pid : p \in Peers /\ q \in Peers /\ A[p] = A[q] /\ A[p] # NoAddr
    BY ConstantFacts
  <2> QED BY <2>1, ConstantFacts DEF MailInv, IsBook
<1>2. /\ IsMail(d) /\ d.waiting = c.waiting /\ d.jobs = c.jobs
      /\ d.engine[a] = NoEngine /\ d.active[a] = NoFile
      /\ \A b \in Addrs \ {a} : d.engine[b] = c.engine[b] /\ d.active[b] = c.active[b]
      /\ \A m \in Msgs :
           \/ /\ d.msg[m] = c.msg[m]
              /\ \/ m \notin Aboard(c, a)
                 \/ \A p \in pid \cap DOMAIN c.msg[m].rcpt :
                      c.msg[m].rcpt[p].state \in Final
           \/ /\ m \in Aboard(c, a)
              /\ \E p \in pid \cap DOMAIN c.msg[m].rcpt :
                   /\ c.msg[m].rcpt[p].state \notin Final
                   /\ d.msg[m] = WithReceipt(c.msg[m], p, fail(m, p))
  BY <1>1, DroppedIs
<1> HIDE DEF d
<1>3. ASSUME NEW m \in Msgs, NEW p \in pid \cap DOMAIN c.msg[m].rcpt,
             d.msg[m] = WithReceipt(c.msg[m], p, fail(m, p))
      PROVE  /\ DOMAIN d.msg[m].rcpt = DOMAIN c.msg[m].rcpt
             /\ d.msg[m].state = Aggregate(d.msg[m].rcpt)
             /\ d.msg[m].rcpt[p].state = "failed"
             /\ d.msg[m].rcpt[p].acked = c.msg[m].rcpt[p].acked
             /\ \A q \in DOMAIN c.msg[m].rcpt : q # p => d.msg[m].rcpt[q] = c.msg[m].rcpt[q]
             /\ d.msg[m].state \notin {"unsent", "waiting"}
             /\ (\A q \in DOMAIN c.msg[m].rcpt : q = p) => d.msg[m].state \in Final \ {"delivered"}
  <2>1. IsMessage(c.msg[m])
    BY <1>1 DEF IsMail
  <2>2. /\ fail(m, p) \in Receipts /\ fail(m, p).state = "failed"
        /\ fail(m, p).acked = c.msg[m].rcpt[p].acked
    BY <2>1 DEF IsMessage, Receipts, ReceiptStates
  <2> HIDE DEF fail
  <2>3. /\ IsMessage(d.msg[m])
        /\ DOMAIN d.msg[m].rcpt = DOMAIN c.msg[m].rcpt
        /\ d.msg[m].state = Aggregate(d.msg[m].rcpt)
        /\ \A q \in DOMAIN c.msg[m].rcpt :
             d.msg[m].rcpt[q] = IF q = p THEN fail(m, p) ELSE c.msg[m].rcpt[q]
    BY <1>3, <2>1, <2>2, WithReceiptIs
  <2>4. d.msg[m].rcpt \in [DOMAIN d.msg[m].rcpt -> Receipts] /\ DOMAIN d.msg[m].rcpt # {}
    BY <2>3 DEF IsMessage
  <2>5. /\ Aggregate(d.msg[m].rcpt) \notin {"unsent", "waiting"}
        /\ (\A q \in DOMAIN d.msg[m].rcpt : d.msg[m].rcpt[q].state \in Final)
             => Aggregate(d.msg[m].rcpt) \in Final
        /\ Aggregate(d.msg[m].rcpt) = "delivered"
             => \A q \in DOMAIN d.msg[m].rcpt : d.msg[m].rcpt[q].state = "delivered"
    BY <2>4, AggregateIs
  <2>6. d.msg[m].rcpt[p].state = "failed"
    BY <2>2, <2>3
  <2>7. ASSUME \A q \in DOMAIN c.msg[m].rcpt : q = p
        PROVE  d.msg[m].state \in Final \ {"delivered"}
    <3>1. \A q \in DOMAIN d.msg[m].rcpt : d.msg[m].rcpt[q].state = "failed"
      BY <2>3, <2>6, <2>7
    <3> QED BY <2>3, <2>4, <2>5, <3>1 DEF Final
  <2> QED BY <2>2, <2>3, <2>5, <2>6, <2>7
<1> HIDE DEF fail
<1>4. /\ Aboard(c, a) \subseteq Msgs
      /\ \A m \in Texts : m \in Aboard(c, a) <=> Held(c, a, m) > 0
      /\ \A f \in Files : f \in Aboard(c, a) <=> c.engine[a].file = f
      /\ \A m \in Aboard(c, a) :
           /\ c.msg[m].state \notin {"unsent", "waiting"} /\ m \notin c.waiting
           /\ DOMAIN c.msg[m].rcpt # {}
           /\ \A p \in DOMAIN c.msg[m].rcpt :
                c.msg[m].rcpt[p].state \notin Final => c.msg[m].state \notin Final
  BY AboardIs
<1>5. \A m \in Texts : /\ Held(d, a, m) = 0
                       /\ \A b \in Addrs : Held(c, b, m) \in Nat
                       /\ \A b \in Addrs \ {a} : Held(d, b, m) = Held(c, b, m)
  <2>1. \A m \in Texts : NoEngine.queued[m] = 0 /\ NoEngine.sent[m] = 0
    BY DEF NoEngine
  <2>2. \A b \in Addrs : c.engine[b] \in EngineType
    BY <1>1 DEF IsMail
  <2> QED BY <1>2, <2>1, <2>2 DEF Held, EngineType
<1>6. \A m \in Texts, p \in Peers :
        /\ A[p] = a => Load(d, B, p, m) = 0 /\ Load(c, A, p, m) = Held(c, a, m)
        /\ A[p] # a => Load(d, B, p, m) = Load(c, A, p, m) /\ B[p] = A[p]
        /\ Load(c, A, p, m) \in Nat
  BY <1>1, <1>5 DEF Load, IsBook
<1>7. TextInv(d, B, E, G)
  <2> SUFFICES ASSUME NEW m \in Texts PROVE TextOK(d, B, E, G, m)
    BY DEF TextInv
  <2>1. m \in Msgs /\ TextOK(c, A, D, G, m) /\ IsMessage(c.msg[m])
    BY <1>1, ConstantFacts DEF TextInv, IsMail
  <2>2. DOMAIN c.msg[m].rcpt \subseteq Peers
    BY <2>1 DEF IsMessage
  <2>3. DOMAIN d.msg[m].rcpt = DOMAIN c.msg[m].rcpt
    BY <1>2, <1>3, <2>1
  <2>4. ASSUME NEW b \in Addrs, Held(d, b, m) > 0
        PROVE  \E p \in DOMAIN d.msg[m].rcpt : B[p] = b
    <3>1. b # a /\ Held(c, b, m) > 0
      BY <1>5, <2>4
    <3>2. PICK p \in DOMAIN c.msg[m].rcpt : A[p] = b
      BY <2>1, <3>1 DEF TextOK
    <3> QED BY <1>6, <2>2, <2>3, <3>1, <3>2
  <2>5. ASSUME NEW p \in DOMAIN d.msg[m].rcpt
        PROVE  TextReceipt(d, B, E, G, m, p)
    <3> DEFINE r == c.msg[m].rcpt[p]
               s == d.msg[m].rcpt[p]
    <3>1. /\ TextReceipt(c, A, D, G, m, p) /\ p \in Peers
          /\ r \in Receipts /\ Frames[m] \in Nat /\ r.acked \in Nat
      BY <2>1, <2>2, <2>3, ConstantFacts DEF TextOK, IsMessage, Receipts
    <3>2. s.acked = r.acked /\ (s.state = r.state \/ s.state = "failed")
      BY <1>2, <1>3, <2>1, <2>3
    <3>3. ASSUME s.state \notin Final, m \notin E
          PROVE  A[p] # a
      <4> SUFFICES ASSUME A[p] = a PROVE FALSE
        OBVIOUS
      <4>1. r.state \notin Final /\ m \notin D
        BY <3>2, <3>3 DEF Final
      <4>2. Held(c, a, m) > 0
        BY <1>6, <3>1, <4>1 DEF TextReceipt
      <4>3. m \in Aboard(c, a) /\ p \in pid
        BY <1>4, <3>1, <3>3, <4>2
      <4>4. PICK q \in pid \cap DOMAIN c.msg[m].rcpt :
              d.msg[m] = WithReceipt(c.msg[m], q, fail(m, q))
        BY <1>2, <2>1, <2>3, <4>1, <4>3
      <4>5. q = p /\ s.state = "failed"
        BY <1>1, <1>3, <2>1, <4>3, <4>4
      <4> QED BY <3>3, <4>5 DEF Final
    <3>4. /\ s.acked + Load(d, B, p, m) <= Frames[m]
          /\ s.state = "delivered" => s.acked = Frames[m]
          /\ s.state \notin Final => r.state \notin Final
      BY <1>6, <3>1, <3>2 DEF TextReceipt, Final
    <3>5. s.state \notin Final /\ m \notin E =>
            Load(d, B, p, m) > 0 /\ s.acked + Load(d, B, p, m) = Frames[m]
      BY <1>6, <3>1, <3>2, <3>3, <3>4 DEF TextReceipt
    <3>6. s.acked = G[m][p]
      BY <3>1, <3>2 DEF TextReceipt
    <3> HIDE DEF r
    <3> QED BY <3>4, <3>5, <3>6 DEF TextReceipt
  <2>6. CASE d.msg[m] = c.msg[m]
    <3>1. Untouched(c, G, m) => Untouched(d, G, m)
      BY <1>5, <2>6 DEF Untouched
    <3> QED BY <1>2, <2>1, <2>4, <2>5, <2>6, <3>1 DEF TextOK
  <2>7. CASE d.msg[m] # c.msg[m]
    <3>1. PICK p \in pid \cap DOMAIN c.msg[m].rcpt :
            d.msg[m] = WithReceipt(c.msg[m], p, fail(m, p))
      BY <1>2, <2>1, <2>7
    <3>2. m \in Aboard(c, a)
      BY <1>2, <2>1, <2>7
    <3>3. /\ d.msg[m].state = Aggregate(d.msg[m].rcpt) /\ DOMAIN d.msg[m].rcpt # {}
          /\ d.msg[m].state \notin {"unsent", "waiting"} /\ m \notin d.waiting
      BY <1>2, <1>3, <1>4, <2>1, <3>1, <3>2
    <3> QED BY <2>1, <2>4, <2>5, <3>3 DEF TextOK
  <2> QED BY <2>6, <2>7
<1>8. FileInv(d, B, E, W, G)
  <2> SUFFICES ASSUME NEW f \in Files PROVE FileOK(d, B, E, W, G, f)
    BY DEF FileInv
  <2>1. /\ f \in Msgs /\ f # NoFile /\ FileOK(c, A, D, W, G, f) /\ IsMessage(c.msg[f])
        /\ NoEngine.file = NoFile
    BY <1>1, ConstantFacts DEF FileInv, IsMail, NoEngine
  <2>2. CASE c.engine[a].file = f
    <3>1. /\ c.msg[f].state = "sending" /\ To[f] \in DOMAIN c.msg[f].rcpt
          /\ DOMAIN c.msg[f].rcpt = {To[f]} /\ To[f] \in Peers
          /\ c.msg[f].rcpt[To[f]].state = "queued" /\ f \notin c.jobs
          /\ f \notin W => A[To[f]] = a
          /\ \A b \in Addrs : c.engine[b].file = f => a = b
      BY <2>1, <2>2 DEF FileOK, Silent, IsMessage
    <3>2. f \notin d.jobs /\ \A b \in Addrs : d.engine[b].file # f
      BY <1>2, <2>1, <3>1
    <3>3. CASE d.msg[f] = c.msg[f]
      <4>1. f \in Aboard(c, a)
        BY <1>4, <2>2
      <4>2. f \in E
        <5> SUFFICES ASSUME f \notin E PROVE FALSE
          OBVIOUS
        <5>1. To[f] \in pid
          BY <3>1, <4>1
        <5>2. ASSUME NEW p \in pid \cap DOMAIN c.msg[f].rcpt,
                     d.msg[f] = WithReceipt(c.msg[f], p, fail(f, p))
              PROVE  FALSE
          BY <1>3, <2>1, <3>1, <3>3, <5>2
        <5>3. \A p \in pid \cap DOMAIN c.msg[f].rcpt : c.msg[f].rcpt[p].state \in Final
          BY <1>2, <2>1, <4>1, <5>2
        <5> QED BY <3>1, <5>1, <5>3 DEF Final
      <4> QED BY <3>1, <3>2, <3>3, <4>2 DEF FileOK, Final
    <3>4. CASE d.msg[f] # c.msg[f]
      <4>1. PICK p \in pid \cap DOMAIN c.msg[f].rcpt :
              d.msg[f] = WithReceipt(c.msg[f], p, fail(f, p))
        BY <1>2, <2>1, <3>4
      <4>2. /\ DOMAIN d.msg[f].rcpt = {To[f]} /\ d.msg[f].rcpt[To[f]].state = "failed"
            /\ d.msg[f].state \in Final \ {"delivered"}
        BY <1>3, <2>1, <3>1, <4>1
      <4> QED BY <3>2, <4>2 DEF FileOK, Final
    <3> QED BY <3>3, <3>4
  <2>3. CASE c.engine[a].file # f
    <3>1. d.msg[f] = c.msg[f] /\ f \notin Aboard(c, a)
      BY <1>2, <1>4, <2>1, <2>3
    <3>2. \A b \in Addrs : d.engine[b].file = f <=> c.engine[b].file = f
      BY <1>2, <2>1, <2>3
    <3>3. \A b \in Addrs : c.engine[b].file = f /\ f \notin W => B[To[f]] = b
      <4> SUFFICES ASSUME NEW b \in Addrs, c.engine[b].file = f, f \notin W
                   PROVE  B[To[f]] = b
        OBVIOUS
      <4>1. A[To[f]] = b /\ To[f] \in Peers /\ b # a
        BY <2>1, <2>3 DEF FileOK, IsMessage
      <4> QED BY <1>6, <4>1
    <3>4. d.jobs = c.jobs /\ FileOK(c, A, D, W, G, f)
      BY <1>2, <2>1
    <3>5. \A b \in Addrs : d.engine[b].file = f =>
            /\ d.msg[f].state = "sending" /\ To[f] \in DOMAIN d.msg[f].rcpt
            /\ Silent(d, f)
            /\ f \notin W => B[To[f]] = b
            /\ \A b2 \in Addrs : d.engine[b2].file = f => b = b2
      BY <3>1, <3>2, <3>3, <3>4 DEF FileOK, Silent
    <3>6. f \notin E => f \notin D
      BY <1>2, <2>1
    <3>7. d.msg[f].state \notin Final \cup {"unsent"} /\ f \notin E =>
            f \in d.jobs \/ \E b \in Addrs : d.engine[b].file = f
      BY <3>1, <3>2, <3>4, <3>6 DEF FileOK
    <3> QED BY <3>1, <3>4, <3>5, <3>6, <3>7 DEF FileOK, Silent
  <2> QED BY <2>2, <2>3
<1>9. Busy(d)
  BY <1>1, <1>2 DEF Busy, NoEngine
<1>10. Mild(c, d)
  <2>1. Spares(c, d)
    BY <1>2, <1>4 DEF Spares
  <2>2. Keeps(c, d)
    <3> SUFFICES ASSUME NEW m \in Msgs PROVE KeepsOne(c.msg[m], d.msg[m])
      BY DEF Keeps
    <3>1. CASE d.msg[m] = c.msg[m]
      BY <3>1 DEF KeepsOne
    <3>2. CASE d.msg[m] # c.msg[m]
      <4>1. PICK p \in pid \cap DOMAIN c.msg[m].rcpt :
              /\ c.msg[m].rcpt[p].state \notin Final
              /\ d.msg[m] = WithReceipt(c.msg[m], p, fail(m, p))
        BY <1>2, <3>2
      <4>2. m \in Aboard(c, a)
        BY <1>2, <3>2
      <4> QED BY <1>3, <1>4, <4>1, <4>2 DEF KeepsOne
    <3> QED BY <3>1, <3>2
  <2> QED BY <2>1, <2>2 DEF Mild
<1> QED BY <1>2, <1>7, <1>8, <1>9, <1>10 DEF MailInv, d

\* With the next file: what a handler that releases an address leaves.
LEMMA ReleaseAddrInv ==
  ASSUME NEW c, NEW A, IsBook(A), NEW D, NEW W, NEW G, MailInv(c, A, D, W, G),
         NEW a \in Addrs, NEW pid \in SUBSET {q \in Peers : A[q] = a},
         NEW B, IsBook(B), \A q \in Peers : B[q] = A[q] \/ (q \in pid /\ B[q] = NoAddr),
         NEW E, D \subseteq E, W \subseteq E,
         \A m \in Aboard(c, a) \ E : {q \in Peers : A[q] = a} \subseteq pid,
         NEW T
  PROVE  /\ MailInv(ReleaseAddr(c, a, pid, B, T), B, E, W, G)
         /\ Mild(c, ReleaseAddr(c, a, pid, B, T))
<1> DEFINE d == Dropped(c, a, pid)
<1>1. MailInv(d, B, E, W, G) /\ Mild(c, d)
  BY DroppedInv
<1>2. \/ ReleaseAddr(c, a, pid, B, T) = d
      \/ ReleaseAddr(c, a, pid, B, T) = StartNextFile(d, B, T)
  BY DEF ReleaseAddr, Dropped
<1> HIDE DEF d
<1>3. MailInv(StartNextFile(d, B, T), B, E, W, G) /\ Mild(d, StartNextFile(d, B, T))
  BY <1>1, StartNextFileInv
<1> QED BY <1>1, <1>2, <1>3, MildTransitive

-----------------------------------------------------------------------------
(***************************************************************************)
(* Sending                                                                 *)
(***************************************************************************)
LEMMA TargetsArePeers ==
  ASSUME present \subseteq Peers, NEW m \in Msgs, NEW T
  PROVE  /\ Targets(m, T) \in SUBSET Peers
         /\ ~Absent(m) => \A p \in Targets(m, T) : at[p] # NoAddr
BY ConstantFacts DEF Targets, Absent

\* What Dispatch makes of c.
Sends(c, d, M, T) ==
  /\ d.waiting = c.waiting /\ d.jobs = c.jobs /\ d.active = c.active
  /\ \A m \in Msgs \ M : d.msg[m] = c.msg[m]
  /\ \A m \in M :
       IF Targets(m, T) = {}
       THEN d.msg[m].state = "failed" /\ DOMAIN d.msg[m].rcpt = {}
       ELSE d.msg[m] = SentTo(Targets(m, T))
  /\ \A a \in Addrs :
       /\ d.engine[a].file = c.engine[a].file
       /\ \A m \in Texts : Held(d, a, m) = Held(c, a, m) +
            IF m \in M /\ At(a) \cap Targets(m, T) # {} THEN Frames[m] ELSE 0

LEMMA DispatchIs ==
  ASSUME present \subseteq Peers, NEW c, IsMail(c), NEW M \in SUBSET Texts, NEW T
  PROVE  IsMail(Dispatch(c, M, T)) /\ Sends(c, Dispatch(c, M, T), M, T)
<1> DEFINE to(m) == Targets(m, T)
           extra(a, m) == IF m \in M /\ At(a) \cap to(m) # {} THEN Frames[m] ELSE 0
           N == [m \in Msgs |-> IF m \notin M THEN c.msg[m]
                                ELSE IF to(m) = {} THEN Message("failed", NoReceipts)
                                ELSE SentTo(to(m))]
           X == [a \in Addrs |->
                   [c.engine[a] EXCEPT !.queued =
                      [m \in Texts |-> c.engine[a].queued[m] + extra(a, m)]]]
           d == [msg |-> N, waiting |-> c.waiting, jobs |-> c.jobs,
                 active |-> c.active, engine |-> X]
<1>1. Dispatch(c, M, T) = d
  <2>1. Dispatch(c, M, T) = [c EXCEPT !.msg = N, !.engine = X]
    BY DEF Dispatch
  <2> HIDE DEF N, X
  <2> QED BY <2>1 DEF IsMail
<1>2. \A m \in Msgs : to(m) \in SUBSET Peers
  BY TargetsArePeers
<1>3. M \subseteq Msgs /\ \A m \in Texts : m \in Msgs /\ Frames[m] \in Nat
  BY ConstantFacts
<1> HIDE DEF to
<1>4. \A m \in Msgs : IsMessage(N[m])
  <2> SUFFICES ASSUME NEW m \in Msgs PROVE IsMessage(N[m])
    OBVIOUS
  <2>1. IsMessage(c.msg[m])
    BY DEF IsMail
  <2>2. IsMessage(Message("failed", NoReceipts))
    BY BareMessage DEF States, Final
  <2>3. IsMessage(SentTo(to(m)))
    BY <1>2, SentToIs
  <2> QED BY <2>1, <2>2, <2>3
<1>5. \A a \in Addrs : \A m \in Texts : extra(a, m) \in Nat
  BY <1>3
<1>6. \A a \in Addrs : /\ X[a] \in EngineType
                       /\ X[a].file = c.engine[a].file /\ X[a].sent = c.engine[a].sent
                       /\ \A m \in Texts : X[a].queued[m] = c.engine[a].queued[m] + extra(a, m)
  <2> SUFFICES ASSUME NEW a \in Addrs
               PROVE  /\ X[a] \in EngineType
                      /\ X[a].file = c.engine[a].file /\ X[a].sent = c.engine[a].sent
                      /\ \A m \in Texts : X[a].queued[m] = c.engine[a].queued[m] + extra(a, m)
    OBVIOUS
  <2> DEFINE Q == [m \in Texts |-> c.engine[a].queued[m] + extra(a, m)]
  <2>1. X[a] = [c.engine[a] EXCEPT !.queued = Q]
    OBVIOUS
  <2>2. c.engine[a] \in EngineType
    BY DEF IsMail
  <2>3. \A m \in Texts : Q[m] = c.engine[a].queued[m] + extra(a, m)
    OBVIOUS
  <2>4. Q \in [Texts -> Nat]
    <3> HIDE DEF extra
    <3>1. \A m \in Texts : c.engine[a].queued[m] + extra(a, m) \in Nat
      BY <1>5, <2>2 DEF EngineType
    <3> QED BY <3>1
  <2> HIDE DEF Q, X, extra
  <2> QED BY <2>1, <2>2, <2>3, <2>4 DEF EngineType
<1>7. /\ d.waiting = c.waiting /\ d.jobs = c.jobs /\ d.active = c.active
      /\ d.msg = N /\ d.engine = X
      /\ N = [m \in Msgs |-> N[m]] /\ X = [a \in Addrs |-> X[a]]
      /\ d = [msg |-> d.msg, waiting |-> d.waiting, jobs |-> d.jobs,
              active |-> d.active, engine |-> d.engine]
  OBVIOUS
<1>8. /\ \A m \in Msgs \ M : N[m] = c.msg[m]
      /\ \A m \in M : IF to(m) = {}
                      THEN N[m].state = "failed" /\ DOMAIN N[m].rcpt = {}
                      ELSE N[m] = SentTo(to(m))
  <2>1. "failed" \in States
    BY DEF States, Final
  <2> QED BY <1>3, <2>1, BareMessage
<1> HIDE DEF d, N, X
<1>9. IsMail(d)
  <2>1. d.engine \in [Addrs -> EngineType]
    BY <1>6, <1>7
  <2>2. \A m \in Msgs : IsMessage(d.msg[m])
    BY <1>4, <1>7
  <2>3. d.msg = [m \in Msgs |-> d.msg[m]]
    BY <1>7
  <2> QED BY <1>7, <2>1, <2>2, <2>3 DEF IsMail
<1>10. \A a \in Addrs : \A m \in Texts : Held(d, a, m) = Held(c, a, m) + extra(a, m)
  <2> SUFFICES ASSUME NEW a \in Addrs, NEW m \in Texts
               PROVE  Held(d, a, m) = Held(c, a, m) + extra(a, m)
    OBVIOUS
  <2>1. c.engine[a].queued[m] \in Nat /\ c.engine[a].sent[m] \in Nat
    BY DEF IsMail, EngineType
  <2>2. extra(a, m) \in Nat
    BY <1>5
  <2> HIDE DEF extra
  <2> QED BY <1>6, <1>7, <2>1, <2>2 DEF Held
<1>11. Sends(c, d, M, T)
  BY <1>3, <1>6, <1>7, <1>8, <1>10 DEF Sends, to
<1> QED BY <1>1, <1>9, <1>11

\* A text nothing was done for is sent to nodes that have an address.
LEMMA DispatchText ==
  ASSUME present \subseteq Peers, IsBook(at), NEW c, IsMail(c),
         NEW M \in SUBSET Texts, NEW T, NEW m \in M, NEW D, NEW W, NEW G,
         Untouched(c, G, m), m \notin c.waiting, ~Absent(m)
  PROVE  TextOK(Dispatch(c, M, T), at, D, G, m)
<1> DEFINE d == Dispatch(c, M, T)
           to == Targets(m, T)
<1>1. /\ d.waiting = c.waiting
      /\ IF to = {} THEN d.msg[m].state = "failed" /\ DOMAIN d.msg[m].rcpt = {}
         ELSE d.msg[m] = SentTo(to)
      /\ \A a \in Addrs : Held(d, a, m) = Held(c, a, m) +
           IF m \in M /\ At(a) \cap to # {} THEN Frames[m] ELSE 0
  <2>1. Sends(c, Dispatch(c, M, T), M, T)
    BY DispatchIs
  <2>2. m \in Texts
    OBVIOUS
  <2> QED BY <2>1, <2>2 DEF Sends
<1>2. /\ m \in Texts /\ m \in Msgs /\ Frames[m] \in Nat \ {0}
      /\ to \in SUBSET Peers /\ \A p \in to : at[p] \in Addrs /\ at[p] # NoAddr
  BY TargetsArePeers, ConstantFacts DEF IsBook
<1>3. \A a \in Addrs : Held(d, a, m) = IF At(a) \cap to # {} THEN Frames[m] ELSE 0
  BY <1>1, <1>2 DEF Untouched
<1>4. \A p \in to : Load(d, at, p, m) = Frames[m]
  BY <1>2, <1>3 DEF Load, At
<1> SUFFICES TextOK(d, at, D, G, m)
  OBVIOUS
<1> HIDE DEF d, to
<1>5. CASE to = {}
  BY <1>1, <1>3, <1>5 DEF TextOK
<1>6. CASE to # {}
  <2>1. /\ d.msg[m].state = "queued" /\ DOMAIN d.msg[m].rcpt = to
        /\ d.msg[m].state = Aggregate(d.msg[m].rcpt)
        /\ \A p \in to : /\ d.msg[m].rcpt[p].state = "queued"
                         /\ d.msg[m].rcpt[p].acked = 0
    <3>1. d.msg[m] = SentTo(to)
      BY <1>1, <1>6
    <3>2. /\ SentTo(to).state = "queued" /\ DOMAIN SentTo(to).rcpt = to
          /\ \A p \in to : SentTo(to).rcpt[p] = [state |-> "queued", acked |-> 0]
          /\ Aggregate(SentTo(to).rcpt) = "queued"
      BY <1>2, <1>6, SentToIs
    <3> QED BY <3>1, <3>2
  <2>2. \A p \in to : TextReceipt(d, at, D, G, m, p)
    <3> SUFFICES ASSUME NEW p \in to PROVE TextReceipt(d, at, D, G, m, p)
      OBVIOUS
    <3>1. G[m][p] = 0
      BY <1>2 DEF Untouched
    <3> QED BY <1>2, <1>4, <2>1, <3>1 DEF TextReceipt, Final
  <2>3. \A a \in Addrs : Held(d, a, m) > 0 => \E p \in to : at[p] = a
    BY <1>3 DEF At
  <2> QED BY <1>1, <1>6, <2>1, <2>2, <2>3 DEF TextOK
<1> QED BY <1>5, <1>6

\* A mail with other messages and other waiting texts.
LEMMA MailWith ==
  ASSUME NEW c, IsMail(c), NEW N, NEW w
  PROVE  [c EXCEPT !.waiting = w, !.msg = N] =
           [msg |-> N, waiting |-> w, jobs |-> c.jobs, active |-> c.active,
            engine |-> c.engine]
<1>1. PICK x : x = [c EXCEPT !.waiting = w]
  OBVIOUS
<1>2. x = [msg |-> c.msg, waiting |-> w, jobs |-> c.jobs, active |-> c.active,
           engine |-> c.engine]
  BY <1>1 DEF IsMail
<1>3. [x EXCEPT !.msg = N] = [c EXCEPT !.waiting = w, !.msg = N]
  BY <1>1
<1> QED BY <1>2, <1>3

\* The tick sends the texts whose node has come and gives up the late ones.
LEMMA FlushWaitingInv ==
  ASSUME present \subseteq Peers, IsBook(at), NEW c, NEW D, NEW W, NEW G,
         MailInv(c, at, D, W, G), NEW T
  PROVE  /\ MailInv(FlushWaiting(c, T), at, D, W, G)
         /\ Mild(c, FlushWaiting(c, T))
<1> DEFINE expired == {m \in c.waiting : Absent(m) /\ m \in late}
           ready   == {m \in c.waiting : ~Absent(m)}
           N == [m \in Msgs |-> IF m \in expired THEN Message("failed", NoReceipts)
                                ELSE c.msg[m]]
           e == [msg |-> N, waiting |-> c.waiting \ (expired \cup ready),
                 jobs |-> c.jobs, active |-> c.active, engine |-> c.engine]
           d == Dispatch(e, ready, T)
<1>1. IsMail(c) /\ TextInv(c, at, D, G) /\ FileInv(c, at, D, W, G) /\ Busy(c)
  BY DEF MailInv
<1>2. FlushWaiting(c, T) = d
  <2>1. FlushWaiting(c, T) =
          Dispatch([c EXCEPT !.waiting = c.waiting \ (expired \cup ready), !.msg = N],
                   ready, T)
    BY DEF FlushWaiting
  <2>2. [c EXCEPT !.waiting = c.waiting \ (expired \cup ready), !.msg = N] = e
    <3> HIDE DEF N, expired, ready
    <3> QED BY <1>1, MailWith
  <2> QED BY <2>1, <2>2
<1>3. /\ expired \subseteq c.waiting /\ ready \subseteq c.waiting
      /\ expired \cap ready = {} /\ c.waiting \subseteq Texts
      /\ \A m \in ready : ~Absent(m)
  BY <1>1 DEF IsMail
<1>4. \A m \in c.waiting : Untouched(c, G, m) /\ c.msg[m].state = "waiting"
  BY <1>1, <1>3 DEF TextInv, TextOK
<1>5. Texts \subseteq Msgs /\ Files \subseteq Msgs /\ Texts \cap Files = {}
  BY ConstantFacts
<1> HIDE DEF expired, ready
<1>6. \A m \in Msgs : IF m \in expired THEN /\ IsMessage(N[m]) /\ N[m].state = "failed"
                                            /\ DOMAIN N[m].rcpt = {}
                      ELSE N[m] = c.msg[m]
  <2>1. "failed" \in States
    BY DEF States, Final
  <2> QED BY <2>1, BareMessage
<1>7. /\ e.msg = N /\ e.waiting = c.waiting \ (expired \cup ready) /\ e.jobs = c.jobs
      /\ e.active = c.active /\ e.engine = c.engine /\ N = [m \in Msgs |-> N[m]]
      /\ e = [msg |-> e.msg, waiting |-> e.waiting, jobs |-> e.jobs,
              active |-> e.active, engine |-> e.engine]
  OBVIOUS
<1> HIDE DEF e, N
<1>8. IsMail(e)
  <2>1. \A m \in Msgs : IsMessage(e.msg[m])
    BY <1>1, <1>6, <1>7 DEF IsMail
  <2> QED BY <1>1, <1>7, <2>1 DEF IsMail
<1>9. IsMail(d) /\ Sends(e, d, ready, T)
  <2>1. ready \in SUBSET Texts
    BY <1>3
  <2> QED BY <1>8, <2>1, DispatchIs
<1>10. \A a \in Addrs : \A m \in Texts : /\ Held(e, a, m) = Held(c, a, m)
                                         /\ Held(e, a, m) \in Nat
  BY <1>1, <1>7 DEF Held, IsMail, EngineType
<1>11. \A m \in ready : TextOK(d, at, D, G, m)
  <2> SUFFICES ASSUME NEW m \in ready PROVE TextOK(d, at, D, G, m)
    OBVIOUS
  <2>1. /\ m \notin e.waiting /\ ~Absent(m) /\ ready \in SUBSET Texts /\ m \in Texts
        /\ m \in Msgs /\ m \notin expired
    BY <1>3, <1>5, <1>7
  <2>2. Untouched(e, G, m)
    <3>1. Untouched(c, G, m) /\ e.msg[m] = c.msg[m]
      BY <1>3, <1>4, <1>6, <1>7, <2>1
    <3> QED BY <1>10, <2>1, <3>1 DEF Untouched
  <2> HIDE DEF d
  <2> QED BY <1>8, <2>1, <2>2, DispatchText DEF d
<1> HIDE DEF d
<1> USE DEF Sends
<1>12. TextInv(d, at, D, G)
  <2> SUFFICES ASSUME NEW m \in Texts PROVE TextOK(d, at, D, G, m)
    BY DEF TextInv
  <2>1. CASE m \in ready
    BY <1>11, <2>1
  <2>2. CASE m \in expired
    <3>1. /\ d.msg[m].state = "failed" /\ DOMAIN d.msg[m].rcpt = {} /\ m \notin d.waiting
      BY <1>3, <1>5, <1>6, <1>7, <1>9, <2>2
    <3>2. \A a \in Addrs : Held(d, a, m) = 0
      BY <1>3, <1>4, <1>9, <1>10, <2>2 DEF Untouched
    <3> QED BY <3>1, <3>2 DEF TextOK
  <2>3. CASE m \notin ready \cup expired
    <3>1. SameText(c, d, m)
      BY <1>5, <1>6, <1>7, <1>9, <1>10, <2>3 DEF SameText
    <3>2. TextOK(c, at, D, G, m)
      BY <1>1 DEF TextInv
    <3> QED BY <1>1, <3>1, <3>2, TextFrame
  <2> QED BY <2>1, <2>2, <2>3
<1>13. FileInv(d, at, D, W, G)
  <2> SUFFICES ASSUME NEW f \in Files PROVE FileOK(d, at, D, W, G, f)
    BY DEF FileInv
  <2>1. SameFile(c, d, f)
    BY <1>3, <1>5, <1>6, <1>7, <1>9 DEF SameFile
  <2>2. FileOK(c, at, D, W, G, f)
    BY <1>1 DEF FileInv
  <2> QED BY <2>1, <2>2, FileFrame
<1>14. Busy(d)
  BY <1>1, <1>7, <1>9 DEF Busy
<1>15. Mild(c, d)
  <2>1. \A m \in Msgs \ c.waiting : d.msg[m] = c.msg[m]
    BY <1>3, <1>6, <1>7, <1>9
  <2>2. \A m \in c.waiting : c.msg[m].state = "waiting" /\ DOMAIN c.msg[m].rcpt = {}
    BY <1>4 DEF Untouched
  <2> QED BY <2>1, <2>2 DEF Mild, Keeps, KeepsOne, Spares, Final
<1> QED BY <1>2, <1>9, <1>12, <1>13, <1>14, <1>15 DEF MailInv

-----------------------------------------------------------------------------
(***************************************************************************)
(* The user submits a message.                                             *)
(***************************************************************************)
\* The mail with another message, and other waiting texts and jobs.
With(c, m, x, w, j) ==
  [msg |-> [c.msg EXCEPT ![m] = x], waiting |-> w, jobs |-> j,
   active |-> c.active, engine |-> c.engine]

\* d is c but for the message m, the waiting texts and the jobs.
Replaces(c, d, m, x, w, j) ==
  /\ d.waiting = w /\ d.jobs = j /\ d.active = c.active /\ d.engine = c.engine
  /\ d.msg[m] = x /\ \A n \in Msgs \ {m} : d.msg[n] = c.msg[n]

LEMMA WithIs ==
  ASSUME NEW c, IsMail(c), NEW m \in Msgs, NEW x, IsMessage(x),
         NEW w \in SUBSET Texts, NEW j \in SUBSET Files
  PROVE  IsMail(With(c, m, x, w, j)) /\ Replaces(c, With(c, m, x, w, j), m, x, w, j)
<1> DEFINE N == [c.msg EXCEPT ![m] = x]
           d == [msg |-> N, waiting |-> w, jobs |-> j, active |-> c.active,
                 engine |-> c.engine]
<1>1. With(c, m, x, w, j) = d
  BY DEF With
<1>2. /\ N = [n \in Msgs |-> N[n]] /\ N[m] = x
      /\ \A n \in Msgs \ {m} : N[n] = c.msg[n]
  BY DEF IsMail
<1> HIDE DEF N
<1>3. \A n \in Msgs : IsMessage(N[n])
  BY <1>2 DEF IsMail
<1>4. IsMail(d) /\ Replaces(c, d, m, x, w, j)
  BY <1>2, <1>3 DEF IsMail, Replaces
<1> QED BY <1>1, <1>4

LEMMA SendTextInv ==
  ASSUME present \subseteq Peers, IsBook(at), NEW c, NEW D, NEW W, NEW G,
         MailInv(c, at, D, W, G), NEW m \in Texts, c.msg[m].state = "unsent"
  PROVE  /\ MailInv(SendText(c, m), at, D, W, G)
         /\ \A n \in Msgs \ {m} : SendText(c, m).msg[n] = c.msg[n]
<1>1. /\ IsMail(c) /\ TextInv(c, at, D, G) /\ FileInv(c, at, D, W, G) /\ Busy(c)
      /\ m \in Msgs /\ Texts \subseteq Msgs /\ Files \subseteq Msgs /\ Texts \cap Files = {}
  BY ConstantFacts DEF MailInv
<1>2. Untouched(c, G, m) /\ m \notin c.waiting
  BY <1>1 DEF TextInv, TextOK
<1>3. CASE Absent(m)
  <2> DEFINE x == Message("waiting", NoReceipts)
             w == c.waiting \cup {m}
             d == With(c, m, x, w, c.jobs)
  <2>1. SendText(c, m) = d
    <3>1. PICK y : y = Wait(c, m)
      OBVIOUS
    <3>2. y = [msg |-> [c.msg EXCEPT ![m] = x], waiting |-> c.waiting, jobs |-> c.jobs,
               active |-> c.active, engine |-> c.engine]
      <4>1. y = [c EXCEPT !.msg[m] = x]
        BY <3>1 DEF Wait
      <4> HIDE DEF x
      <4> QED BY <1>1, <4>1 DEF IsMail
    <3>3. SendText(c, m) = [y EXCEPT !.waiting = w]
      BY <1>3, <3>1 DEF SendText
    <3> HIDE DEF x, w
    <3> QED BY <3>2, <3>3 DEF With
  <2>2. IsMessage(x) /\ x.state = "waiting" /\ DOMAIN x.rcpt = {}
    BY BareMessage DEF States
  <2> HIDE DEF x
  <2>3. w \in SUBSET Texts /\ c.jobs \in SUBSET Files
    BY <1>1 DEF IsMail
  <2>4. IsMail(d) /\ Replaces(c, d, m, x, w, c.jobs)
    BY <1>1, <2>2, <2>3, WithIs
  <2> USE DEF Replaces
  <2> HIDE DEF d
  <2>5. TextInv(d, at, D, G)
    <3> SUFFICES ASSUME NEW n \in Texts PROVE TextOK(d, at, D, G, n)
      BY DEF TextInv
    <3>1. CASE n = m
      <4>1. Untouched(d, G, m)
        BY <1>2, <2>2, <2>4 DEF Untouched, Held
      <4>2. To[m] # Group
        BY <1>3 DEF Absent
      <4>3. \A a \in Addrs : ~(Held(d, a, m) > 0)
        BY <4>1 DEF Untouched
      <4> QED BY <2>2, <2>4, <3>1, <4>1, <4>2, <4>3 DEF TextOK
    <3>2. CASE n # m
      <4>1. SameText(c, d, n)
        BY <1>1, <2>4, <3>2 DEF SameText, Held
      <4> QED BY <1>1, <4>1, TextFrame DEF TextInv
    <3> QED BY <3>1, <3>2
  <2>6. FileInv(d, at, D, W, G)
    <3> SUFFICES ASSUME NEW f \in Files PROVE FileOK(d, at, D, W, G, f)
      BY DEF FileInv
    <3>1. SameFile(c, d, f)
      BY <1>1, <2>4 DEF SameFile
    <3> QED BY <1>1, <3>1, FileFrame DEF FileInv
  <2>7. Busy(d)
    BY <1>1, <2>4 DEF Busy
  <2> QED BY <2>1, <2>4, <2>5, <2>6, <2>7 DEF MailInv
<1>4. CASE ~Absent(m)
  <2> DEFINE d == Dispatch(c, {m}, approved)
  <2>1. SendText(c, m) = d
    BY <1>4 DEF SendText
  <2>2. IsMail(d) /\ Sends(c, d, {m}, approved)
    BY <1>1, DispatchIs
  <2>3. TextOK(d, at, D, G, m)
    BY <1>1, <1>2, <1>4, DispatchText
  <2> HIDE DEF d
  <2>4. TextInv(d, at, D, G)
    <3> SUFFICES ASSUME NEW n \in Texts, n # m PROVE TextOK(d, at, D, G, n)
      BY <2>3 DEF TextInv
    <3>1. \A a \in Addrs : Held(c, a, n) \in Nat
      BY <1>1 DEF Held, IsMail, EngineType
    <3>2. SameText(c, d, n)
      BY <1>1, <2>2, <3>1 DEF SameText, Sends
    <3> QED BY <1>1, <3>2, TextFrame DEF TextInv
  <2>5. FileInv(d, at, D, W, G)
    <3> SUFFICES ASSUME NEW f \in Files PROVE FileOK(d, at, D, W, G, f)
      BY DEF FileInv
    <3>1. SameFile(c, d, f)
      BY <1>1, <2>2 DEF SameFile, Sends
    <3> QED BY <1>1, <3>1, FileFrame DEF FileInv
  <2>6. Busy(d)
    BY <1>1, <2>2 DEF Busy, Sends
  <2> QED BY <2>1, <2>2, <2>4, <2>5, <2>6 DEF MailInv, Sends
<1> QED BY <1>3, <1>4

LEMMA QueueAttachmentInv ==
  ASSUME NEW c, NEW A, IsBook(A), NEW D, NEW W, NEW G,
         MailInv(c, A, D, W, G), NEW f \in Files, c.msg[f].state = "unsent"
  PROVE  /\ MailInv(QueueAttachment(c, f), A, D, W, G)
         /\ \A n \in Msgs \ {f} : QueueAttachment(c, f).msg[n] = c.msg[n]
<1>1. /\ IsMail(c) /\ TextInv(c, A, D, G) /\ FileInv(c, A, D, W, G) /\ Busy(c)
      /\ f \in Msgs /\ Texts \subseteq Msgs /\ Files \subseteq Msgs /\ Texts \cap Files = {}
      /\ To[f] \in Peers \cup {Group}
  BY ConstantFacts DEF MailInv
<1>2. /\ f \notin c.jobs /\ \A a \in Addrs : c.engine[a].file # f
      /\ c.waiting \in SUBSET Texts /\ c.jobs \in SUBSET Files
  <2>1. FileOK(c, A, D, W, G, f) /\ c.msg[f].state # "sending"
    BY <1>1 DEF FileInv
  <2>2. f \notin c.jobs /\ \A a \in Addrs : c.engine[a].file # f
    BY <2>1 DEF FileOK
  <2>3. c.waiting \in SUBSET Texts /\ c.jobs \in SUBSET Files
    BY <1>1 DEF IsMail
  <2> QED BY <2>2, <2>3
<1>3. \E x, j : /\ QueueAttachment(c, f) = With(c, f, x, c.waiting, j)
                /\ IsMessage(x) /\ j \in {c.jobs, c.jobs \cup {f}}
                /\ \/ x.state = "failed" /\ DOMAIN x.rcpt = {} /\ j = c.jobs
                   \/ /\ x.state \in {"waiting", "queued"} /\ To[f] \in Peers
                      /\ DOMAIN x.rcpt \subseteq {To[f]}
                      /\ \A p \in DOMAIN x.rcpt : x.rcpt[p].state = "queued"
                      /\ j = c.jobs \cup {f}
  <2> DEFINE targets == Targets(f, approved)
  <2>1. CASE To[f] = Group \/ (~Absent(f) /\ targets = {})
    <3> DEFINE x == Message("failed", NoReceipts)
    <3>1. QueueAttachment(c, f) = [c EXCEPT !.msg[f] = x]
      BY <2>1 DEF QueueAttachment
    <3>2. IsMessage(x) /\ x.state = "failed" /\ DOMAIN x.rcpt = {}
      BY BareMessage DEF States, Final
    <3> HIDE DEF x
    <3>3. QueueAttachment(c, f) = With(c, f, x, c.waiting, c.jobs)
      BY <1>1, <3>1 DEF IsMail, With
    <3> QED BY <3>2, <3>3
  <2>2. CASE ~(To[f] = Group \/ (~Absent(f) /\ targets = {}))
    <3> DEFINE x == IF Absent(f) THEN Message("waiting", NoReceipts) ELSE SentTo(targets)
               j == c.jobs \cup {f}
    <3>1. QueueAttachment(c, f) = [c EXCEPT !.msg[f] = x, !.jobs = j]
      BY <2>2 DEF QueueAttachment
    <3>2. /\ IsMessage(x) /\ x.state \in {"waiting", "queued"} /\ To[f] \in Peers
          /\ DOMAIN x.rcpt \subseteq {To[f]}
          /\ \A p \in DOMAIN x.rcpt : x.rcpt[p].state = "queued"
      <4>1. To[f] \in Peers /\ targets \in SUBSET Peers /\ targets \subseteq {To[f]}
        BY <1>1, <2>2 DEF Targets
      <4> HIDE DEF targets
      <4>2. CASE Absent(f)
        <5>1. /\ IsMessage(Message("waiting", NoReceipts))
              /\ Message("waiting", NoReceipts).state = "waiting"
              /\ DOMAIN Message("waiting", NoReceipts).rcpt = {}
          BY BareMessage DEF States
        <5>2. x = Message("waiting", NoReceipts)
          BY <4>2
        <5> HIDE DEF x
        <5> QED BY <4>1, <5>1, <5>2
      <4>3. CASE ~Absent(f)
        <5>1. /\ IsMessage(SentTo(targets)) /\ SentTo(targets).state = "queued"
              /\ DOMAIN SentTo(targets).rcpt = targets
              /\ \A p \in targets : SentTo(targets).rcpt[p] = [state |-> "queued", acked |-> 0]
          BY <4>1, SentToIs
        <5>2. x = SentTo(targets)
          BY <4>3
        <5> HIDE DEF x
        <5> QED BY <4>1, <5>1, <5>2
      <4> QED BY <4>2, <4>3
    <3> HIDE DEF x
    <3>3. QueueAttachment(c, f) = With(c, f, x, c.waiting, j)
      <4>1. PICK y : y = [c EXCEPT !.msg[f] = x]
        OBVIOUS
      <4>2. y = [msg |-> [c.msg EXCEPT ![f] = x], waiting |-> c.waiting,
                 jobs |-> c.jobs, active |-> c.active, engine |-> c.engine]
        BY <1>1, <4>1 DEF IsMail
      <4>3. QueueAttachment(c, f) = [y EXCEPT !.jobs = j]
        BY <3>1, <4>1
      <4> HIDE DEF j
      <4> QED BY <4>2, <4>3 DEF With
    <3> QED BY <3>2, <3>3
  <2> QED BY <2>1, <2>2
<1>4. PICK x, j : /\ QueueAttachment(c, f) = With(c, f, x, c.waiting, j)
                  /\ IsMessage(x) /\ j \in {c.jobs, c.jobs \cup {f}}
                  /\ \/ x.state = "failed" /\ DOMAIN x.rcpt = {} /\ j = c.jobs
                     \/ /\ x.state \in {"waiting", "queued"} /\ To[f] \in Peers
                        /\ DOMAIN x.rcpt \subseteq {To[f]}
                        /\ \A p \in DOMAIN x.rcpt : x.rcpt[p].state = "queued"
                        /\ j = c.jobs \cup {f}
  BY <1>3
<1> DEFINE d == With(c, f, x, c.waiting, j)
<1>5. IsMail(d) /\ Replaces(c, d, f, x, c.waiting, j)
  <2>1. j \in SUBSET Files
    BY <1>2, <1>4
  <2> QED BY <1>1, <1>2, <1>4, <2>1, WithIs
<1> HIDE DEF d
<1> USE DEF Replaces
<1>6. TextInv(d, A, D, G)
  <2> SUFFICES ASSUME NEW n \in Texts PROVE TextOK(d, A, D, G, n)
    BY DEF TextInv
  <2>1. SameText(c, d, n)
    BY <1>1, <1>5 DEF SameText, Held
  <2> QED BY <1>1, <2>1, TextFrame DEF TextInv
<1>7. FileInv(d, A, D, W, G)
  <2> SUFFICES ASSUME NEW g \in Files PROVE FileOK(d, A, D, W, G, g)
    BY DEF FileInv
  <2>1. CASE g = f
    <3>1. \A a \in Addrs : d.engine[a].file # f
      BY <1>2, <1>5
    <3> QED BY <1>2, <1>4, <1>5, <2>1, <3>1 DEF FileOK, Silent, Final
  <2>2. CASE g # f
    <3>1. SameFile(c, d, g)
      BY <1>1, <1>4, <1>5, <2>2 DEF SameFile
    <3> QED BY <1>1, <3>1, FileFrame DEF FileInv
  <2> QED BY <2>1, <2>2
<1>8. Busy(d)
  BY <1>1, <1>5 DEF Busy
<1> QED BY <1>4, <1>5, <1>6, <1>7, <1>8 DEF MailInv, d

-----------------------------------------------------------------------------
(***************************************************************************)
(* The steps                                                               *)
(***************************************************************************)
LEMMA BecomesIs ==
  ASSUME NEW d, IsMail(d), Becomes(d)
  PROVE  Mail' = d
BY DEF IsMail, Becomes, Mail

LEMMA TickEndsInv ==
  ASSUME present \subseteq Peers, IsBook(at), NEW c, NEW D, NEW W, NEW G,
         MailInv(c, at, D, W, G), NEW T, TickEnds(c, T)
  PROVE  MailInv(Mail', at, D, W, G) /\ Mild(c, Mail')
<1> DEFINE e == FlushWaiting(c, T)
           d == StartNextFile(e, at, T)
<1>1. MailInv(e, at, D, W, G) /\ Mild(c, e)
  BY FlushWaitingInv
<1>2. Becomes(d)
  BY DEF TickEnds
<1> HIDE DEF e
<1>3. MailInv(d, at, D, W, G) /\ Mild(e, d)
  BY <1>1, StartNextFileInv
<1> HIDE DEF d
<1>4. Mail' = d
  BY <1>2, <1>3, BecomesIs DEF MailInv
<1> QED BY <1>1, <1>3, <1>4, MildTransitive

\* What a step keeps of the verdicts.
Settles == \A m \in Msgs : KeepsOne(msg[m], msg'[m])

LEMMA MailIs == Mail.msg = msg /\ Mail.waiting = waiting /\ Mail.jobs = jobs
                /\ Mail.active = active /\ Mail.engine = engine
BY DEF Mail

LEMMA MailIsNext == Mail'.msg = msg' /\ Mail'.waiting = waiting' /\ Mail'.jobs = jobs'
                    /\ Mail'.active = active' /\ Mail'.engine = engine'
BY DEF Mail

\* The steps that leave the book and the link alone.
LEMMA QuietStep ==
  ASSUME Inv, NEW c, MailInv(c, at, adrift, misled, got), Mild(Mail, c), NEW T, TickEnds(c, T),
         UNCHANGED <<at, late, offer, got, adrift, misled, moves>>,
         known' \subseteq Peers, present' \subseteq known', approved' \subseteq Peers
  PROVE  Inv' /\ Settles
<1>1. MailInv(Mail', at, adrift, misled, got) /\ Mild(c, Mail')
  BY TickEndsInv DEF Inv, Rest
<1>2. Mild(Mail, Mail')
  BY <1>1, MildTransitive
<1>3. Settles
  BY <1>2, MailIs, MailIsNext DEF Mild, Keeps, Settles
<1>4. Rest'
  <2>1. \A m \in offer : m \in Msgs /\ msg'[m].state = "unsent"
    BY <1>2, MailIs, MailIsNext DEF Inv, Rest, Mild, Spares
  <2> QED BY <2>1 DEF Inv, Rest
<1>5. IsBook(at') /\ MailInv(Mail', at', adrift', misled', got')
  BY <1>1 DEF Inv
<1> QED BY <1>3, <1>4, <1>5 DEF Inv

LEMMA TickStep == Inv /\ Tick => Inv' /\ Settles
<1> SUFFICES ASSUME Inv, Tick PROVE Inv' /\ Settles
  OBVIOUS
<1>1. MailInv(Mail, at, adrift, misled, got) /\ Mild(Mail, Mail)
  BY MildReflexive DEF Inv
<1> QED BY <1>1, QuietStep DEF Inv, Rest, Tick, book

LEMMA ApproveStep == ASSUME Inv, NEW p \in Peers, Approve(p) PROVE Inv' /\ Settles
<1>1. MailInv(Mail, at, adrift, misled, got) /\ Mild(Mail, Mail)
  BY MildReflexive DEF Inv
<1>2. approved' \subseteq Peers
  BY DEF Inv, Rest, Approve
<1> QED BY <1>1, <1>2, QuietStep DEF Inv, Rest, Approve

LEMMA SweepPeersStep == ASSUME Inv, NEW p \in Peers, SweepPeers(p) PROVE Inv' /\ Settles
<1>1. MailInv(Mail, at, adrift, misled, got) /\ Mild(Mail, Mail)
  BY MildReflexive DEF Inv
<1>2. present' \subseteq known'
  BY DEF Inv, Rest, SweepPeers
<1> QED BY <1>1, <1>2, QuietStep DEF Inv, Rest, SweepPeers

LEMMA WithdrawStep == ASSUME Inv, NEW p \in Peers, Withdraw(p) PROVE Inv' /\ Settles
<1> DEFINE c == IF at[p] = NoAddr THEN Mail
                ELSE ReleaseAddr(Mail, at[p], {p}, at, approved')
<1>1. MailInv(c, at, adrift, misled, got) /\ Mild(Mail, c)
  <2>1. IsBook(at) /\ MailInv(Mail, at, adrift, misled, got) /\ misled \subseteq adrift
    BY DEF Inv, Rest
  <2>2. CASE at[p] = NoAddr
    BY <2>1, <2>2, MildReflexive
  <2>3. CASE at[p] # NoAddr
    <3>1. at[p] \in Addrs /\ {q \in Peers : at[q] = at[p]} = {p}
      BY <2>1, <2>3 DEF IsBook
    <3>2. /\ {p} \in SUBSET {q \in Peers : at[q] = at[p]}
          /\ \A m \in Aboard(Mail, at[p]) \ adrift : {q \in Peers : at[q] = at[p]} \subseteq {p}
      BY <3>1
    <3> DEFINE e == ReleaseAddr(Mail, at[p], {p}, at, approved')
    <3>3. MailInv(e, at, adrift, misled, got) /\ Mild(Mail, e)
      BY <2>1, <3>1, <3>2, ReleaseAddrInv
    <3> QED BY <2>3, <3>3
  <2> QED BY <2>2, <2>3
<1>2. TickEnds(c, approved')
  BY DEF Withdraw
<1> HIDE DEF c
<1>3. approved' \subseteq Peers
  BY DEF Inv, Rest, Withdraw
<1> QED BY <1>1, <1>2, <1>3, QuietStep DEF Inv, Rest, Withdraw

LEMMA TimePassesStep == ASSUME Inv, NEW m \in Msgs, TimePasses(m) PROVE Inv' /\ Settles
<1>1. Mail' = Mail /\ UNCHANGED <<book, offer, got, adrift, misled, moves, msg>>
  BY DEF TimePasses, mail, Mail
<1>2. Settles
  BY <1>1 DEF Settles, KeepsOne
<1>3. late' \subseteq Msgs
  BY DEF TimePasses, Inv, Rest
<1>4. Rest' /\ IsBook(at') /\ MailInv(Mail', at', adrift', misled', got')
  BY <1>1, <1>3 DEF Inv, Rest, book
<1> QED BY <1>2, <1>4 DEF Inv

LEMMA SubmitStep == ASSUME Inv, NEW m \in Msgs, Submit(m) PROVE Inv' /\ Settles
<1> DEFINE c == IF m \in Texts THEN SendText(Mail, m) ELSE QueueAttachment(Mail, m)
<1>1. /\ IsBook(at) /\ MailInv(Mail, at, adrift, misled, got) /\ present \subseteq Peers
      /\ m \in offer /\ Mail.msg[m].state = "unsent"
  BY MailIs DEF Inv, Rest, Submit
<1>2. MailInv(c, at, adrift, misled, got) /\ \A n \in Msgs \ {m} : c.msg[n] = Mail.msg[n]
  <2>1. CASE m \in Texts
    <3> DEFINE e == SendText(Mail, m)
    <3>1. MailInv(e, at, adrift, misled, got) /\ \A n \in Msgs \ {m} : e.msg[n] = Mail.msg[n]
      BY <1>1, <2>1, SendTextInv
    <3> HIDE DEF e
    <3> QED BY <2>1, <3>1 DEF e
  <2>2. CASE m \notin Texts
    <3> DEFINE e == QueueAttachment(Mail, m)
    <3>0. m \in Files
      BY <2>2, ConstantFacts
    <3>1. MailInv(e, at, adrift, misled, got) /\ \A n \in Msgs \ {m} : e.msg[n] = Mail.msg[n]
      BY <1>1, <3>0, QueueAttachmentInv
    <3> HIDE DEF e
    <3> QED BY <2>2, <3>1 DEF e
  <2> QED BY <2>1, <2>2
<1>3. TickEnds(c, approved)
  BY DEF Submit
<1> HIDE DEF c
<1>4. MailInv(Mail', at, adrift, misled, got) /\ Mild(c, Mail')
  BY <1>1, <1>2, <1>3, TickEndsInv
<1>5. DOMAIN msg[m].rcpt = {} /\ msg[m].state \notin Final
  BY <1>1, MailIs, ConstantFacts
     DEF MailInv, TextInv, TextOK, Untouched, FileInv, FileOK, Final
<1>6. Settles
  <2> SUFFICES ASSUME NEW n \in Msgs PROVE KeepsOne(msg[n], msg'[n])
    BY DEF Settles
  <2>1. CASE n = m
    BY <1>5, <2>1 DEF KeepsOne
  <2>2. CASE n # m
    BY <1>2, <1>4, <2>2, MailIs, MailIsNext DEF Mild, Keeps
  <2> QED BY <2>1, <2>2
<1>7. UNCHANGED <<book, late, got, adrift, misled, moves>> /\ offer' = offer \ {m}
  BY DEF Submit
<1>8. Rest'
  <2>1. \A n \in offer' : n \in Msgs /\ msg'[n].state = "unsent"
    BY <1>2, <1>4, <1>7, MailIs, MailIsNext DEF Inv, Rest, Mild, Spares
  <2> QED BY <1>7, <2>1 DEF Inv, Rest, book
<1>9. IsBook(at') /\ MailInv(Mail', at', adrift', misled', got')
  BY <1>1, <1>4, <1>7 DEF book
<1> QED BY <1>6, <1>8, <1>9 DEF Inv

-----------------------------------------------------------------------------
(***************************************************************************)
(* Reports of the link.  A text aboard the engine of an address is for the *)
(* one node there, and has not been delivered to it.                       *)
(***************************************************************************)
LEMMA RecipientIs ==
  ASSUME Inv, NEW a \in Addrs, NEW m \in Texts, Held(Mail, a, m) > 0
  PROVE  \E p \in DOMAIN msg[m].rcpt :
           /\ p \in Peers /\ at[p] = a /\ At(a) = {p} /\ Recipient(msg[m], a) = {p}
           /\ \A q \in Peers : at[q] = a => q = p
           /\ msg[m].rcpt[p].acked + Held(Mail, a, m) <= Frames[m]
           /\ msg[m].rcpt[p].state \in {"queued", "sent", "failed"}
<1>1. /\ TextOK(Mail, at, adrift, got, m) /\ IsMessage(msg[m]) /\ IsBook(at)
      /\ Held(Mail, a, m) \in Nat /\ NoAddr \notin Addrs /\ Frames[m] \in Nat
  <2>1. IsMail(Mail) /\ TextInv(Mail, at, adrift, got) /\ IsBook(at) /\ m \in Msgs
    BY ConstantFacts DEF Inv, MailInv
  <2>2. IsMessage(msg[m]) /\ TextOK(Mail, at, adrift, got, m)
    BY <2>1, MailIs DEF IsMail, TextInv
  <2>3. Held(Mail, a, m) \in Nat
    BY <2>1 DEF IsMail, Held, EngineType
  <2> QED BY <2>1, <2>2, <2>3, ConstantFacts
<1>2. PICK p \in DOMAIN msg[m].rcpt : at[p] = a
  BY <1>1, MailIs DEF TextOK
<1>3. p \in Peers /\ \A q \in Peers : at[q] = a => q = p
  BY <1>1, <1>2 DEF IsMessage, IsBook
<1>4. At(a) = {p}
  BY <1>2, <1>3 DEF At
<1>5. Recipient(msg[m], a) = {p}
  BY <1>2, <1>4 DEF Recipient
<1>6. TextReceipt(Mail, at, adrift, got, m, p)
  BY <1>1, <1>2, MailIs DEF TextOK
<1>7. Load(Mail, at, p, m) = Held(Mail, a, m)
  BY <1>1, <1>2 DEF Load
<1>8. msg[m].rcpt[p] \in Receipts
  BY <1>1, <1>2 DEF IsMessage
<1>9. /\ msg[m].rcpt[p].acked + Held(Mail, a, m) <= Frames[m]
      /\ msg[m].rcpt[p].state # "delivered"
  BY <1>1, <1>6, <1>7, <1>8, MailIs DEF TextReceipt, Receipts
<1>10. msg[m].rcpt[p].state \in {"queued", "sent", "failed"}
  BY <1>8, <1>9 DEF Receipts, ReceiptStates
<1> QED BY <1>2, <1>3, <1>4, <1>5, <1>9, <1>10

\* What a report makes of a receipt that is not delivered.
LEMMA ReceiptIs ==
  ASSUME NEW r \in Receipts, r.state \in {"queued", "sent", "failed"},
         NEW what \in {"sent", "acked", "failed"}, NEW n \in Nat
  PROVE  /\ Receipt(r, what, n) \in Receipts
         /\ Receipt(r, what, n).acked = IF what = "acked" THEN r.acked + 1 ELSE r.acked
         /\ r.state = "failed" \/ what = "failed" => Receipt(r, what, n).state = "failed"
         /\ r.state # "failed" /\ what = "sent" => Receipt(r, what, n).state = "sent"
         /\ r.state # "failed" /\ what = "acked" =>
              Receipt(r, what, n).state = IF r.acked + 1 >= n THEN "delivered" ELSE "sent"
<1>1. r = [state |-> r.state, acked |-> r.acked] /\ r.acked \in Nat
  BY DEF Receipts
<1>2. [r EXCEPT !.acked = r.acked + 1] = [state |-> r.state, acked |-> r.acked + 1]
  BY <1>1
<1>3. \A s : [r EXCEPT !.state = s] = [state |-> s, acked |-> r.acked]
  BY <1>1
<1>4. CASE r.state = "failed"
  BY <1>1, <1>2, <1>4 DEF Receipt, Receipts, ReceiptStates
<1>5. CASE r.state # "failed"
  <2>1. CASE what = "sent"
    <3>1. Receipt(r, what, n) = [state |-> "sent", acked |-> r.acked]
      BY <1>3, <1>5, <2>1 DEF Receipt
    <3> QED BY <1>1, <1>5, <2>1, <3>1 DEF Receipts, ReceiptStates
  <2>2. CASE what = "failed"
    <3>1. Receipt(r, what, n) = [state |-> "failed", acked |-> r.acked]
      BY <1>3, <1>5, <2>2 DEF Receipt
    <3> QED BY <1>1, <1>5, <2>2, <3>1 DEF Receipts, ReceiptStates
  <2>3. CASE what = "acked"
    <3>1. Receipt(r, what, n) =
            [state |-> IF r.acked + 1 >= n THEN "delivered" ELSE "sent",
             acked |-> r.acked + 1]
      BY <1>5, <2>3 DEF Receipt
    <3> QED BY <1>1, <1>5, <2>3, <3>1 DEF Receipts, ReceiptStates
  <2> QED BY <2>1, <2>2, <2>3
<1> QED BY <1>4, <1>5

\* The last of the frames expected.
LEMMA LastOne ==
  \A k, h, n \in Nat : k + 1 >= n /\ k + h <= n /\ h > 0 => k + 1 = n
OBVIOUS

LEMMA TextReport ==
  ASSUME Inv, NEW a \in Addrs, NEW m \in Texts, Held(Mail, a, m) > 0,
         NEW what \in {"sent", "acked", "failed"}, TxState(a, m, what),
         engine' \in [Addrs -> EngineType],
         \A b \in Addrs : engine'[b].file = engine[b].file,
         \A b \in Addrs : \A n \in Texts : Held(Mail', b, n) =
           IF b = a /\ n = m /\ what # "sent" THEN Held(Mail, b, n) - 1
           ELSE Held(Mail, b, n),
         got' \in [Msgs -> [Peers -> Nat]],
         \A n \in Msgs : \A q \in Peers : got'[n][q] =
           IF n = m /\ at[q] = a /\ what = "acked" THEN got[n][q] + 1 ELSE got[n][q],
         UNCHANGED <<book, waiting, jobs, active, late, offer, adrift, misled, moves>>
  PROVE  Inv' /\ Settles
<1> DEFINE c == Mail
           d == Mail'
<1>1. /\ IsBook(at) /\ IsMail(c) /\ TextInv(c, at, adrift, got)
      /\ FileInv(c, at, adrift, misled, got) /\ Busy(c) /\ m \in Msgs
      /\ Texts \subseteq Msgs /\ Files \subseteq Msgs /\ Texts \cap Files = {}
      /\ Frames[m] \in Nat /\ NoAddr \notin Addrs
  BY ConstantFacts DEF Inv, MailInv
<1>2. PICK p \in DOMAIN msg[m].rcpt :
           /\ p \in Peers /\ at[p] = a /\ At(a) = {p} /\ Recipient(msg[m], a) = {p}
           /\ \A q \in Peers : at[q] = a => q = p
           /\ msg[m].rcpt[p].acked + Held(Mail, a, m) <= Frames[m]
           /\ msg[m].rcpt[p].state \in {"queued", "sent", "failed"}
  BY RecipientIs
<1> DEFINE r == msg[m].rcpt[p]
           s == Receipt(r, what, Frames[m])
<1>3. /\ c.msg = msg /\ c.waiting = waiting /\ c.jobs = jobs
      /\ c.active = active /\ c.engine = engine
      /\ d.msg = msg' /\ d.waiting = waiting /\ d.jobs = jobs
      /\ d.active = active /\ d.engine = engine'
      /\ d = [msg |-> d.msg, waiting |-> d.waiting, jobs |-> d.jobs,
              active |-> d.active, engine |-> d.engine]
  BY DEF Mail
<1>4. IsMessage(msg[m]) /\ r \in Receipts
  <2>1. IsMessage(msg[m])
    BY <1>1, <1>3 DEF IsMail
  <2> QED BY <1>2, <2>1 DEF IsMessage
<1>5. /\ s \in Receipts
      /\ s.acked = IF what = "acked" THEN r.acked + 1 ELSE r.acked
      /\ r.state = "failed" \/ what = "failed" => s.state = "failed"
      /\ r.state # "failed" /\ what = "sent" => s.state = "sent"
      /\ r.state # "failed" /\ what = "acked" =>
           s.state = IF r.acked + 1 >= Frames[m] THEN "delivered" ELSE "sent"
  <2> HIDE DEF r
  <2> QED BY <1>1, <1>2, <1>4, ReceiptIs DEF r
<1>6. msg' = [msg EXCEPT ![m] = WithReceipt(msg[m], p, s)]
  <2>1. (CHOOSE q \in Recipient(msg[m], a) : TRUE) = p /\ Recipient(msg[m], a) # {}
    BY <1>2
  <2> QED BY <2>1 DEF TxState
<1> HIDE DEF s, c, d
<1>7. /\ msg' = [n \in Msgs |-> msg'[n]]
      /\ msg'[m] = WithReceipt(msg[m], p, s)
      /\ \A n \in Msgs \ {m} : msg'[n] = msg[n]
  BY <1>1, <1>3, <1>6 DEF IsMail
<1>8. /\ IsMessage(msg'[m]) /\ DOMAIN msg'[m].rcpt = DOMAIN msg[m].rcpt
      /\ msg'[m].state = Aggregate(msg'[m].rcpt)
      /\ \A q \in DOMAIN msg[m].rcpt :
           msg'[m].rcpt[q] = IF q = p THEN s ELSE msg[m].rcpt[q]
  BY <1>2, <1>4, <1>5, <1>7, WithReceiptIs
<1>9. IsMail(d)
  <2>1. \A n \in Msgs : IsMessage(d.msg[n])
    BY <1>1, <1>3, <1>7, <1>8 DEF IsMail
  <2>2. d.msg = [n \in Msgs |-> d.msg[n]]
    BY <1>3, <1>7
  <2> QED BY <1>1, <1>3, <2>1, <2>2 DEF IsMail
<1>10. \A b \in Addrs : \A n \in Texts : Held(c, b, n) \in Nat
  BY <1>1 DEF IsMail, Held, EngineType
<1>11. \A b \in Addrs : \A n \in Texts : Held(d, b, n) =
         IF b = a /\ n = m /\ what # "sent" THEN Held(c, b, n) - 1 ELSE Held(c, b, n)
  BY DEF c, d
<1>12. TextOK(d, at, adrift, got', m)
  <2>1. TextOK(c, at, adrift, got, m) /\ DOMAIN msg[m].rcpt \subseteq Peers
    BY <1>1, <1>4 DEF TextInv, IsMessage
  <2>2. /\ d.msg[m].state = Aggregate(d.msg[m].rcpt) /\ DOMAIN d.msg[m].rcpt # {}
        /\ d.msg[m].state \notin {"unsent", "waiting"}
        /\ m \notin d.waiting
    <3>1. m \notin c.waiting
      BY <1>2, <1>3, <2>1 DEF TextOK, Untouched
    <3>2. Aggregate(msg'[m].rcpt) \notin {"unsent", "waiting"}
      BY <1>2, <1>8, AggregateIs DEF IsMessage
    <3> QED BY <1>2, <1>3, <1>8, <3>1, <3>2
  <2>3. \A b \in Addrs : Held(d, b, m) > 0 => \E q \in DOMAIN d.msg[m].rcpt : at[q] = b
    BY <1>3, <1>8, <1>10, <1>11, <2>1 DEF TextOK
  <2>4. ASSUME NEW q \in DOMAIN d.msg[m].rcpt
        PROVE  TextReceipt(d, at, adrift, got', m, q)
    <3>1. TextReceipt(c, at, adrift, got, m, q) /\ q \in Peers
      BY <1>3, <1>8, <2>1 DEF TextOK
    <3>2. CASE q # p
      <4>1. d.msg[m].rcpt[q] = c.msg[m].rcpt[q] /\ at[q] # a
        BY <1>2, <1>3, <1>8, <3>1, <3>2
      <4>2. got'[m][q] = got[m][q]
        BY <1>1, <3>1, <4>1
      <4>3. Load(d, at, q, m) = Load(c, at, q, m)
        BY <1>1, <1>11, <3>1, <4>1 DEF Load, IsBook
      <4> QED BY <3>1, <4>1, <4>2, <4>3 DEF TextReceipt
    <3>3. CASE q = p
      <4>1. d.msg[m].rcpt[p] = s /\ c.msg[m].rcpt[p] = r
        BY <1>2, <1>3, <1>8
      <4>2. got'[m][p] = IF what = "acked" THEN got[m][p] + 1 ELSE got[m][p]
        BY <1>1, <1>2
      <4>3. /\ Load(c, at, p, m) = Held(c, a, m)
            /\ Load(d, at, p, m) = IF what = "sent" THEN Held(c, a, m) ELSE Held(c, a, m) - 1
        BY <1>1, <1>2, <1>11 DEF Load
      <4>4. Held(c, a, m) \in Nat /\ Held(c, a, m) > 0 /\ r.acked \in Nat
        BY <1>4, <1>10 DEF c, Receipts
      <4>5. /\ r.acked = got[m][p] /\ r.acked + Held(c, a, m) <= Frames[m]
            /\ r.state \notin Final /\ m \notin adrift =>
                 r.acked + Held(c, a, m) = Frames[m]
        BY <3>1, <3>3, <4>1, <4>3 DEF TextReceipt
      <4>6. r.state \in {"queued", "sent", "failed"}
        BY <1>2
      <4> HIDE DEF r
      <4>7. /\ s.acked = got'[m][p] /\ s.acked + Load(d, at, p, m) <= Frames[m]
            /\ s.state = "delivered" => s.acked = Frames[m]
        <5>1. s.acked = got'[m][p]
          BY <1>5, <4>2, <4>5
        <5>2. s.acked + Load(d, at, p, m) <= Frames[m]
          BY <1>1, <1>5, <4>3, <4>4, <4>5
        <5>3. s.state = "delivered" => s.acked = Frames[m]
          <6>1. ASSUME s.state = "delivered"
                PROVE  what = "acked" /\ r.acked + 1 >= Frames[m] /\ s.acked = r.acked + 1
            <7>1. what # "failed" /\ r.state # "failed"
              BY <1>5, <6>1
            <7>2. what = "acked"
              BY <1>5, <6>1, <7>1
            <7> QED BY <1>5, <6>1, <7>1, <7>2
          <6>2. Frames[m] \in Nat /\ r.acked + Held(c, a, m) <= Frames[m]
            BY <1>1, <4>5
          <6> QED BY <4>4, <6>1, <6>2, LastOne
        <5> QED BY <5>1, <5>2, <5>3
      <4>8. s.state \notin Final /\ m \notin adrift =>
              Load(d, at, p, m) > 0 /\ s.acked + Load(d, at, p, m) = Frames[m]
        BY <1>1, <1>5, <4>3, <4>4, <4>5, <4>6 DEF Final
      <4> QED BY <3>3, <4>1, <4>7, <4>8 DEF TextReceipt
    <3> QED BY <3>2, <3>3
  <2> QED BY <2>1, <2>2, <2>3, <2>4 DEF TextOK
<1>13. TextInv(d, at, adrift, got')
  <2> SUFFICES ASSUME NEW n \in Texts, n # m PROVE TextOK(d, at, adrift, got', n)
    BY <1>12 DEF TextInv
  <2>1. n \in Msgs /\ TextOK(c, at, adrift, got, n)
    BY <1>1 DEF TextInv
  <2>2. SameText(c, d, n)
    BY <1>3, <1>7, <1>11, <2>1 DEF SameText
  <2>3. TextOK(d, at, adrift, got, n)
    BY <1>1, <2>1, <2>2, TextFrame
  <2>4. \A q \in Peers : got'[n][q] = got[n][q]
    BY <2>1
  <2>5. DOMAIN d.msg[n].rcpt \subseteq Peers
    BY <1>9, <2>1 DEF IsMail, IsMessage
  <2> QED BY <2>3, <2>4, <2>5 DEF TextOK, TextReceipt, Untouched
<1>14. FileInv(d, at, adrift, misled, got')
  <2> SUFFICES ASSUME NEW f \in Files PROVE FileOK(d, at, adrift, misled, got', f)
    BY DEF FileInv
  <2>1. f \in Msgs /\ f # m /\ FileOK(c, at, adrift, misled, got, f)
    BY <1>1 DEF FileInv
  <2>2. SameFile(c, d, f)
    BY <1>3, <1>7, <2>1 DEF SameFile
  <2>3. FileOK(d, at, adrift, misled, got, f)
    BY <2>1, <2>2, FileFrame
  <2>4. \A q \in Peers : got'[f][q] = got[f][q]
    BY <2>1
  <2>5. DOMAIN d.msg[f].rcpt \subseteq Peers
    BY <1>9, <2>1 DEF IsMail, IsMessage
  <2> QED BY <2>3, <2>4, <2>5 DEF FileOK
<1>15. Busy(d)
  BY <1>1, <1>3 DEF Busy
<1>16. Settles
  <2> SUFFICES ASSUME NEW n \in Msgs PROVE KeepsOne(msg[n], msg'[n])
    BY DEF Settles
  <2>1. CASE n # m
    BY <1>7, <2>1 DEF KeepsOne
  <2>2. CASE n = m
    <3>1. \A q \in DOMAIN msg[m].rcpt : msg[m].rcpt[q].state \in Final =>
            msg'[m].rcpt[q].state = msg[m].rcpt[q].state
      BY <1>2, <1>5, <1>8 DEF Final
    <3>2. ASSUME msg[m].state \in Final PROVE msg'[m].state = msg[m].state
      <4>1. msg[m].state = Aggregate(msg[m].rcpt)
        BY <1>1, <1>2, <1>3 DEF TextInv, TextOK
      <4>2. \A q \in DOMAIN msg[m].rcpt : msg[m].rcpt[q].state \in Final
        BY <1>2, <1>4, <3>2, <4>1, AggregateIs DEF IsMessage
      <4>3. \A q \in DOMAIN msg[m].rcpt : msg'[m].rcpt[q].state = msg[m].rcpt[q].state
        BY <3>1, <4>2
      <4>4. {msg'[m].rcpt[q].state : q \in DOMAIN msg'[m].rcpt} =
            {msg[m].rcpt[q].state : q \in DOMAIN msg[m].rcpt}
        <5>1. DOMAIN msg'[m].rcpt = DOMAIN msg[m].rcpt
          BY <1>8
        <5> QED BY ONLY <4>3, <5>1
      <4>5. Aggregate(msg'[m].rcpt) = Aggregate(msg[m].rcpt)
        BY <4>4 DEF Aggregate
      <4> QED BY <1>8, <4>1, <4>5
    <3> QED BY <1>8, <2>2, <3>1, <3>2 DEF KeepsOne
  <2> QED BY <2>1, <2>2
<1>17. Rest'
  <2>1. \A n \in offer : n # m
    BY <1>1, <1>2, <1>3 DEF Inv, Rest, TextInv, TextOK, Untouched
  <2>2. \A n \in offer' : msg'[n].state = "unsent"
    BY <1>7, <2>1 DEF Inv, Rest
  <2> QED BY <2>2 DEF Inv, Rest, book
<1>18. MailInv(Mail', at', adrift', misled', got') /\ IsBook(at')
  BY <1>1, <1>9, <1>13, <1>14, <1>15 DEF MailInv, book, d
<1> QED BY <1>16, <1>17, <1>18 DEF Inv

LEMMA TransmitStep ==
  ASSUME Inv, NEW a \in Addrs, NEW m \in Texts, Transmit(a, m)
  PROVE  Inv' /\ Settles
<1>1. /\ engine \in [Addrs -> EngineType] /\ engine[a].queued[m] > 0
      /\ engine' = [engine EXCEPT ![a].queued[m] = @ - 1, ![a].sent[m] = @ + 1]
  BY MailIs DEF Inv, MailInv, IsMail, Transmit
<1>2. /\ engine' \in [Addrs -> EngineType]
      /\ \A b \in Addrs : engine'[b].file = engine[b].file
      /\ \A b \in Addrs : \A n \in Texts : Held(Mail', b, n) = Held(Mail, b, n)
  <2> DEFINE e == [engine[a] EXCEPT !.queued[m] = @ - 1]
             g == [e EXCEPT !.sent[m] = @ + 1]
  <2>1. engine' = [engine EXCEPT ![a] = g]
    BY <1>1
  <2>2. /\ e \in EngineType /\ e.file = engine[a].file /\ e.sent = engine[a].sent
        /\ e.queued[m] = engine[a].queued[m] - 1
        /\ \A n \in Texts \ {m} : e.queued[n] = engine[a].queued[n]
    BY <1>1 DEF EngineType
  <2> HIDE DEF e
  <2>3. /\ g \in EngineType /\ g.file = engine[a].file
        /\ g.queued = e.queued /\ g.sent[m] = e.sent[m] + 1
        /\ \A n \in Texts \ {m} : g.sent[n] = e.sent[n]
    BY <2>2 DEF EngineType
  <2> HIDE DEF g
  <2>4. engine' \in [Addrs -> EngineType] /\ \A b \in Addrs : engine'[b].file = engine[b].file
    BY <1>1, <2>1, <2>3
  <2>5. ASSUME NEW n \in Texts
        PROVE  g.queued[n] + g.sent[n] = engine[a].queued[n] + engine[a].sent[n]
    <3>1. engine[a].queued[n] \in Nat /\ engine[a].sent[n] \in Nat
      BY <1>1 DEF EngineType
    <3>2. CASE n = m
      BY <2>2, <2>3, <3>1, <3>2
    <3>3. CASE n # m
      BY <2>2, <2>3, <3>3
    <3> QED BY <3>2, <3>3
  <2>6. \A b \in Addrs : \A n \in Texts : Held(Mail', b, n) = Held(Mail, b, n)
    BY <1>1, <2>1, <2>5, MailIs, MailIsNext DEF Held
  <2> QED BY <2>4, <2>6
<1>3. Held(Mail, a, m) > 0
  BY <1>1, MailIs DEF Held, EngineType
<1>4. got' \in [Msgs -> [Peers -> Nat]] /\ got' = got
  BY DEF Transmit, Inv, Rest
<1>5. TxState(a, m, "sent") /\ UNCHANGED <<book, waiting, jobs, active, late, offer, adrift, misled, moves>>
  BY DEF Transmit
<1> QED BY <1>2, <1>3, <1>4, <1>5, TextReport

LEMMA RetransmitStep ==
  ASSUME Inv, NEW a \in Addrs, NEW m \in Texts, Retransmit(a, m)
  PROVE  Inv' /\ Settles
<1>1. engine \in [Addrs -> EngineType] /\ engine[a].sent[m] > 0 /\ engine' = engine
  BY MailIs DEF Inv, MailInv, IsMail, Retransmit
<1>2. Held(Mail, a, m) > 0 /\ \A b \in Addrs : \A n \in Texts : Held(Mail', b, n) = Held(Mail, b, n)
  BY <1>1, MailIs, MailIsNext DEF Held, EngineType
<1>3. got' \in [Msgs -> [Peers -> Nat]] /\ got' = got
  BY DEF Retransmit, Inv, Rest
<1>4. TxState(a, m, "sent") /\ UNCHANGED <<book, waiting, jobs, active, late, offer, adrift, misled, moves>>
  BY DEF Retransmit
<1> QED BY <1>1, <1>2, <1>3, <1>4, TextReport

\* A frame leaves the engine.
LEMMA FrameSettled ==
  ASSUME Inv, NEW a \in Addrs, NEW m \in Texts, engine[a].sent[m] > 0,
         engine' = [engine EXCEPT ![a].sent[m] = @ - 1]
  PROVE  /\ engine' \in [Addrs -> EngineType] /\ Held(Mail, a, m) > 0
         /\ \A b \in Addrs : engine'[b].file = engine[b].file
         /\ \A b \in Addrs : \A n \in Texts : Held(Mail', b, n) =
              IF b = a /\ n = m THEN Held(Mail, b, n) - 1 ELSE Held(Mail, b, n)
<1>1. engine \in [Addrs -> EngineType]
  BY MailIs DEF Inv, MailInv, IsMail
<1> DEFINE g == [engine[a] EXCEPT !.sent[m] = @ - 1]
<1>2. engine' = [engine EXCEPT ![a] = g]
  OBVIOUS
<1>3. /\ g \in EngineType /\ g.file = engine[a].file /\ g.queued = engine[a].queued
      /\ g.sent[m] = engine[a].sent[m] - 1
      /\ \A n \in Texts \ {m} : g.sent[n] = engine[a].sent[n]
  <2> DEFINE s == [engine[a].sent EXCEPT ![m] = @ - 1]
  <2>1. engine[a] \in EngineType /\ engine[a].sent \in [Texts -> Nat]
    BY <1>1 DEF EngineType
  <2>2. /\ s \in [Texts -> Nat] /\ s[m] = engine[a].sent[m] - 1
        /\ \A n \in Texts \ {m} : s[n] = engine[a].sent[n]
    <3>1. engine[a].sent[m] - 1 \in Nat
      BY <2>1
    <3> QED BY <2>1, <3>1
  <2>3. g = [engine[a] EXCEPT !.sent = s]
    OBVIOUS
  <2> HIDE DEF g, s
  <2> QED BY <2>1, <2>2, <2>3 DEF EngineType
<1> HIDE DEF g
<1>4. engine' \in [Addrs -> EngineType] /\ \A b \in Addrs : engine'[b].file = engine[b].file
  BY <1>1, <1>2, <1>3
<1>5. /\ Held(Mail, a, m) > 0
      /\ \A n \in Texts : g.queued[n] + g.sent[n] =
           IF n = m THEN Held(Mail, a, n) - 1 ELSE Held(Mail, a, n)
  BY <1>1, <1>3, MailIs DEF EngineType, Held
<1>6. \A b \in Addrs : \A n \in Texts : Held(Mail', b, n) =
        IF b = a /\ n = m THEN Held(Mail, b, n) - 1 ELSE Held(Mail, b, n)
  BY <1>1, <1>2, <1>5, MailIs, MailIsNext DEF Held
<1> QED BY <1>4, <1>5, <1>6

LEMMA AcknowledgedStep ==
  ASSUME Inv, NEW a \in Addrs, NEW m \in Texts, Acknowledged(a, m)
  PROVE  Inv' /\ Settles
<1>1. /\ engine' \in [Addrs -> EngineType] /\ Held(Mail, a, m) > 0
      /\ \A b \in Addrs : engine'[b].file = engine[b].file
      /\ \A b \in Addrs : \A n \in Texts : Held(Mail', b, n) =
           IF b = a /\ n = m THEN Held(Mail, b, n) - 1 ELSE Held(Mail, b, n)
  BY FrameSettled DEF Acknowledged
<1>2. /\ got' \in [Msgs -> [Peers -> Nat]]
      /\ \A n \in Msgs : \A q \in Peers : got'[n][q] =
           IF n = m /\ at[q] = a THEN got[n][q] + 1 ELSE got[n][q]
  <2> DEFINE h == [p \in Peers |-> IF p \in At(a) THEN got[m][p] + 1 ELSE got[m][p]]
  <2>1. /\ got \in [Msgs -> [Peers -> Nat]] /\ m \in Msgs
        /\ got' = [got EXCEPT ![m] = h]
    BY ConstantFacts DEF Inv, Rest, Acknowledged
  <2>2. h \in [Peers -> Nat]
    BY <2>1
  <2>3. \A q \in Peers : h[q] = IF at[q] = a THEN got[m][q] + 1 ELSE got[m][q]
    BY DEF At
  <2> HIDE DEF h
  <2> QED BY <2>1, <2>2, <2>3
<1>3. /\ TxState(a, m, "acked")
      /\ UNCHANGED <<book, waiting, jobs, active, late, offer, adrift, misled, moves>>
  BY DEF Acknowledged
<1> QED BY <1>1, <1>2, <1>3, TextReport

LEMMA GivenUpStep ==
  ASSUME Inv, NEW a \in Addrs, NEW m \in Texts, GivenUp(a, m)
  PROVE  Inv' /\ Settles
<1>1. /\ engine' \in [Addrs -> EngineType] /\ Held(Mail, a, m) > 0
      /\ \A b \in Addrs : engine'[b].file = engine[b].file
      /\ \A b \in Addrs : \A n \in Texts : Held(Mail', b, n) =
           IF b = a /\ n = m THEN Held(Mail, b, n) - 1 ELSE Held(Mail, b, n)
  BY FrameSettled DEF GivenUp
<1>2. got' \in [Msgs -> [Peers -> Nat]] /\ got' = got
  BY DEF GivenUp, Inv, Rest
<1>3. /\ TxState(a, m, "failed")
      /\ UNCHANGED <<book, waiting, jobs, active, late, offer, adrift, misled, moves>>
  BY DEF GivenUp
<1> QED BY <1>1, <1>2, <1>3, TextReport

LEMMA TxFileDoneStep ==
  ASSUME Inv, NEW a \in Addrs, NEW ok \in BOOLEAN, TxFileDone(a, ok)
  PROVE  Inv' /\ Settles
<1> DEFINE c  == Mail
           f  == engine[a].file
           p  == CHOOSE p \in DOMAIN msg[f].rcpt : TRUE
           to == To[f]
           r  == [msg[f].rcpt[p] EXCEPT !.state = IF ok THEN "delivered" ELSE "failed"]
           x  == WithReceipt(msg[f], p, r)
           y  == IF active[a] = f THEN NoFile ELSE active[a]
           e  == [Mail EXCEPT !.msg[f] = x, !.engine[a].file = NoFile, !.active[a] = y]
           d  == StartNextFile(e, at, approved)
           h  == [q \in Peers |-> IF ok /\ q \in At(a) THEN 1 ELSE got[f][q]]
<1>1. /\ f # NoFile /\ Becomes(d) /\ got' = [got EXCEPT ![f] = h]
      /\ UNCHANGED <<book, late, offer, adrift, misled, moves>>
  BY DEF TxFileDone
<1>2. /\ IsBook(at) /\ IsMail(c) /\ TextInv(c, at, adrift, got)
      /\ FileInv(c, at, adrift, misled, got) /\ Busy(c) /\ Rest
      /\ Texts \subseteq Msgs /\ Files \subseteq Msgs /\ Texts \cap Files = {}
      /\ NoFile \notin Files
      /\ c.msg = msg /\ c.waiting = waiting /\ c.jobs = jobs
      /\ c.active = active /\ c.engine = engine
  BY ConstantFacts, MailIs DEF Inv, MailInv
<1>3. /\ f \in Files /\ f \in Msgs /\ engine[a] \in EngineType /\ y = NoFile
      /\ active[a] = f
  BY <1>1, <1>2 DEF IsMail, EngineType, Busy
<1> HIDE DEF y
<1>4. /\ FileOK(c, at, adrift, misled, got, f) /\ IsMessage(msg[f])
      /\ msg[f].state = "sending" /\ DOMAIN msg[f].rcpt = {to} /\ f \notin jobs
      /\ msg[f].rcpt[to].state = "queued"
      /\ f \notin misled => at[to] = a
      /\ \A b \in Addrs : engine[b].file = f => b = a
  <2>1. FileOK(c, at, adrift, misled, got, f) /\ IsMessage(msg[f])
    BY <1>2, <1>3 DEF FileInv, IsMail
  <2>2. c.engine[a].file = f /\ c.msg = msg /\ c.engine = engine /\ c.jobs = jobs
    BY <1>2
  <2>3. /\ c.msg[f].state = "sending" /\ to \in DOMAIN c.msg[f].rcpt
        /\ Silent(c, f)
        /\ f \notin misled => at[to] = a
    BY <2>1, <2>2 DEF FileOK
  <2>4. \A b \in Addrs : c.engine[b].file = f => b = a
    BY SMTT(30), <2>1, <2>2 DEF FileOK
  <2>5. DOMAIN c.msg[f].rcpt = {to} /\ f \notin c.jobs
    BY <2>1, <2>3 DEF FileOK, Silent
  <2>6. c.msg[f].rcpt[to].state = "queued"
    BY <2>3, <2>5 DEF Silent
  <2> QED BY <2>1, <2>2, <2>3, <2>4, <2>5, <2>6
<1>5. p = to /\ to \in DOMAIN msg[f].rcpt /\ to \in Peers
  BY <1>4 DEF IsMessage
<1> HIDE DEF p
<1>6. r \in Receipts /\ r.state = IF ok THEN "delivered" ELSE "failed"
  BY <1>4, <1>5 DEF IsMessage, Receipts, ReceiptStates
<1> HIDE DEF r
<1>7. /\ IsMessage(x) /\ DOMAIN x.rcpt = {to} /\ x.rcpt[to] = r
      /\ x.state \in Final /\ (x.state = "delivered" => ok)
  <2>1. /\ IsMessage(x) /\ DOMAIN x.rcpt = {to} /\ x.rcpt[to] = r
        /\ x.state = Aggregate(x.rcpt)
    BY <1>4, <1>5, <1>6, WithReceiptIs
  <2>2. x.rcpt \in [DOMAIN x.rcpt -> Receipts] /\ DOMAIN x.rcpt # {}
    BY <2>1 DEF IsMessage
  <2>3. /\ Aggregate(x.rcpt) \in Final
        /\ Aggregate(x.rcpt) = "delivered" => x.rcpt[to].state = "delivered"
    <3>1. \A q \in DOMAIN x.rcpt : x.rcpt[q].state \in Final
      BY <1>6, <2>1 DEF Final
    <3> HIDE DEF x
    <3> QED BY <2>1, <2>2, <3>1, AggregateIs
  <2> QED BY <1>6, <2>1, <2>3
<1> HIDE DEF x
<1>8. /\ IsMail(e) /\ e.waiting = waiting /\ e.jobs = jobs /\ e.msg[f] = x
      /\ \A n \in Msgs \ {f} : e.msg[n] = msg[n]
      /\ e.engine[a].file = NoFile /\ e.active[a] = NoFile
      /\ \A b \in Addrs : /\ e.engine[b].queued = engine[b].queued
                          /\ e.engine[b].sent = engine[b].sent
      /\ \A b \in Addrs \ {a} : e.engine[b] = engine[b] /\ e.active[b] = active[b]
  <2> DEFINE N == [msg EXCEPT ![f] = x]
             g == [engine[a] EXCEPT !.file = NoFile]
             X == [engine EXCEPT ![a] = g]
             Y == [active EXCEPT ![a] = NoFile]
             k == [msg |-> N, waiting |-> waiting, jobs |-> jobs, active |-> Y, engine |-> X]
  <2>1. e = k
    <3>1. PICK u : u = [Mail EXCEPT !.msg[f] = x]
      OBVIOUS
    <3>2. u = [msg |-> N, waiting |-> waiting, jobs |-> jobs, active |-> active,
               engine |-> engine]
      BY <3>1 DEF Mail
    <3>3. PICK v : v = [u EXCEPT !.engine[a].file = NoFile]
      OBVIOUS
    <3>4. v = [msg |-> N, waiting |-> waiting, jobs |-> jobs, active |-> active,
               engine |-> X]
      BY <3>2, <3>3
    <3>5. e = [v EXCEPT !.active[a] = y]
      BY <3>1, <3>3
    <3> HIDE DEF e, N, X
    <3> QED BY <1>3, <3>4, <3>5
  <2>2. g \in EngineType /\ g.file = NoFile /\ g.queued = engine[a].queued /\ g.sent = engine[a].sent
    BY <1>3 DEF EngineType
  <2> HIDE DEF g, e
  <2>3. /\ X \in [Addrs -> EngineType] /\ X[a] = g /\ \A b \in Addrs \ {a} : X[b] = engine[b]
        /\ Y \in [Addrs -> Files \cup {NoFile}] /\ Y[a] = NoFile
        /\ \A b \in Addrs \ {a} : Y[b] = active[b]
    BY <1>2, <2>2 DEF IsMail
  <2>4. /\ N = [n \in Msgs |-> N[n]] /\ N[f] = x
        /\ \A n \in Msgs \ {f} : N[n] = msg[n]
    BY <1>2, <1>3 DEF IsMail
  <2>5. k.msg = N /\ k.waiting = waiting /\ k.jobs = jobs /\ k.active = Y /\ k.engine = X
        /\ k = [msg |-> k.msg, waiting |-> k.waiting, jobs |-> k.jobs,
                active |-> k.active, engine |-> k.engine]
    OBVIOUS
  <2> HIDE DEF k, N, X, Y
  <2>6. \A n \in Msgs : IsMessage(N[n])
    BY <1>2, <1>7, <2>4 DEF IsMail
  <2>7. IsMail(k)
    BY <1>2, <2>3, <2>4, <2>5, <2>6 DEF IsMail
  <2> QED BY <2>1, <2>2, <2>3, <2>4, <2>5, <2>7
<1> HIDE DEF e
<1>9. /\ got' \in [Msgs -> [Peers -> Nat]] /\ \A n \in Msgs \ {f} : got'[n] = got[n]
      /\ ok /\ at[to] = a => got'[f][to] = 1
  <2>1. h \in [Peers -> Nat] /\ (ok /\ at[to] = a => h[to] = 1)
    BY <1>2, <1>3, <1>5 DEF Rest, At
  <2> HIDE DEF h
  <2> QED BY <1>1, <1>2, <1>3, <2>1 DEF Rest
<1>10. TextInv(e, at, adrift, got')
  <2> SUFFICES ASSUME NEW n \in Texts PROVE TextOK(e, at, adrift, got', n)
    BY DEF TextInv
  <2>1. n \in Msgs /\ n # f /\ TextOK(c, at, adrift, got, n)
    BY <1>2, <1>3 DEF TextInv
  <2>2. SameText(c, e, n)
    BY <1>2, <1>8, <2>1 DEF SameText, Held
  <2>3. TextOK(e, at, adrift, got, n)
    BY <1>2, <2>1, <2>2, TextFrame
  <2>4. got'[n] = got[n]
    BY <1>9, <2>1
  <2> QED BY <2>3, <2>4 DEF TextOK, TextReceipt, Untouched
<1>11. FileInv(e, at, adrift, misled, got')
  <2> SUFFICES ASSUME NEW g \in Files PROVE FileOK(e, at, adrift, misled, got', g)
    BY DEF FileInv
  <2>1. CASE g = f
    <3>1. \A b \in Addrs : e.engine[b].file # f
      BY <1>2, <1>3, <1>4, <1>8
    <3>2. f \notin e.jobs /\ e.msg[f] = x
      BY <1>4, <1>8
    <3>3. x.state = "delivered" => x.rcpt[to].state = "delivered"
      BY <1>6, <1>7
    <3>4. f \notin misled /\ x.rcpt[to].state = "delivered" => got'[f][to] = 1
      BY <1>4, <1>6, <1>7, <1>9
    <3> QED BY <1>7, <2>1, <3>1, <3>2, <3>3, <3>4 DEF FileOK, Final
  <2>2. CASE g # f
    <3>1. g \in Msgs /\ g # NoFile /\ FileOK(c, at, adrift, misled, got, g)
      BY <1>2 DEF FileInv
    <3>2. SameFile(c, e, g)
      <4>1. \A b \in Addrs : e.engine[b].file = g <=> engine[b].file = g
        BY <1>8, <2>2, <3>1
      <4> QED BY <1>2, <1>8, <2>2, <3>1, <4>1 DEF SameFile
    <3>3. FileOK(e, at, adrift, misled, got, g)
      BY <3>1, <3>2, FileFrame
    <3>4. got'[g] = got[g]
      BY <1>9, <2>2, <3>1
    <3> QED BY <3>3, <3>4 DEF FileOK
  <2> QED BY <2>1, <2>2
<1>12. Busy(e)
  BY <1>2, <1>8 DEF Busy
<1>13. MailInv(e, at, adrift, misled, got')
  BY <1>8, <1>10, <1>11, <1>12 DEF MailInv
<1>14. Mild(Mail, e)
  <2>1. msg[f].state \notin Final \cup {"unsent"}
        /\ \A q \in DOMAIN msg[f].rcpt : msg[f].rcpt[q].state \notin Final
    BY <1>4 DEF Final
  <2>2. \A n \in Msgs : n = f \/ e.msg[n] = msg[n]
    BY <1>8
  <2>3. Keeps(Mail, e)
    BY <2>1, <2>2, MailIs DEF Keeps, KeepsOne
  <2>4. Spares(Mail, e)
    BY <2>1, <2>2, MailIs DEF Spares
  <2> QED BY <2>3, <2>4 DEF Mild
<1>15. MailInv(d, at, adrift, misled, got') /\ Mild(e, d)
  BY <1>2, <1>13, StartNextFileInv
<1> HIDE DEF d
<1>16. Mail' = d
  BY <1>1, <1>15, BecomesIs DEF MailInv
<1>17. Mild(Mail, Mail')
  BY <1>14, <1>15, <1>16, MildTransitive
<1>18. Settles
  BY <1>17, MailIs, MailIsNext DEF Mild, Keeps, Settles
<1>19. Rest'
  <2>1. \A n \in offer : n \in Msgs /\ msg'[n].state = "unsent"
    BY <1>2, <1>17, MailIs, MailIsNext DEF Rest, Mild, Spares
  <2> QED BY <1>1, <1>2, <1>9, <2>1 DEF Rest, book
<1>20. IsBook(at') /\ MailInv(Mail', at', adrift', misled', got')
  BY <1>1, <1>2, <1>15, <1>16 DEF book
<1> QED BY <1>18, <1>19, <1>20 DEF Inv

-----------------------------------------------------------------------------
(***************************************************************************)
(* A beacon.  Whoever had the address it names is driven off and the old   *)
(* address of its sender is released, so that neither engine has texts     *)
(* when the book changes.                                                  *)
(***************************************************************************)
LEMMA ReleasedTexts ==
  ASSUME NEW c, NEW A, IsBook(A), NEW D, NEW W, NEW G, MailInv(c, A, D, W, G), W \subseteq D,
         NEW a \in Addrs, NEW pid \in SUBSET {q \in Peers : A[q] = a},
         NEW B, IsBook(B), NEW T
  PROVE  \A b \in Addrs : \A m \in Texts :
           Held(ReleaseAddr(c, a, pid, B, T), b, m) = IF b = a THEN 0 ELSE Held(c, b, m)
<1> DEFINE d == Dropped(c, a, pid)
           e == StartNextFile(d, B, T)
<1>1. MailInv(d, A, D \cup Aboard(c, a), W, G)
  <2> DEFINE E == D \cup Aboard(c, a)
  <2>1. /\ D \subseteq E /\ W \subseteq E /\ \A q \in Peers : A[q] = A[q] \/ (q \in pid /\ A[q] = NoAddr)
        /\ \A m \in Aboard(c, a) \ E : {q \in Peers : A[q] = a} \subseteq pid
    OBVIOUS
  <2> HIDE DEF E
  <2>2. MailInv(d, A, E, W, G)
    BY <2>1, DroppedInv
  <2> QED BY <2>2 DEF E
<1>2. IsMail(c) /\ \A p, q \in pid : p = q
  <2>1. \A p, q \in pid : p \in Peers /\ q \in Peers /\ A[p] = A[q] /\ A[p] # NoAddr
    BY ConstantFacts
  <2> QED BY <2>1 DEF MailInv, IsBook
<1>3. d.engine[a] = NoEngine /\ \A b \in Addrs \ {a} : d.engine[b] = c.engine[b]
  BY <1>2, DroppedIs
<1>4. ReleaseAddr(c, a, pid, B, T) = d \/ ReleaseAddr(c, a, pid, B, T) = e
  BY DEF ReleaseAddr, Dropped
<1> HIDE DEF d
<1>5. IsMail(d) /\ \A f \in d.jobs : To[f] \in Peers /\ Silent(d, f)
  BY <1>1, JobsAreSilent DEF MailInv
<1>6. \A b \in Addrs : e.engine[b].queued = d.engine[b].queued
                       /\ e.engine[b].sent = d.engine[b].sent
  BY <1>5, StartNextFileIs
<1> HIDE DEF e
<1>7. \A m \in Texts : NoEngine.queued[m] = 0 /\ NoEngine.sent[m] = 0
  BY DEF NoEngine
<1>8. /\ \A b \in Addrs, m \in Texts : Held(d, b, m) = IF b = a THEN 0 ELSE Held(c, b, m)
      /\ \A b \in Addrs, m \in Texts : Held(e, b, m) = Held(d, b, m)
  BY <1>3, <1>6, <1>7 DEF Held
<1> QED BY <1>4, <1>8

\* p comes to a, where nobody is, from an address without texts.
LEMMA BookChanges ==
  ASSUME NEW c, NEW A, IsBook(A), NEW D, NEW W, NEW G, MailInv(c, A, D, W, G),
         NEW p \in Peers, NEW a \in Addrs, \A q \in Peers : A[q] # a,
         \A m \in Texts : A[p] # NoAddr => Held(c, A[p], m) = 0,
         NEW E, D \subseteq E, NEW V, W \subseteq V, A[p] # NoAddr => Aboard(c, A[p]) \subseteq V
  PROVE  IsBook([A EXCEPT ![p] = a]) /\ MailInv(c, [A EXCEPT ![p] = a], E, V, G)
<1> DEFINE B == [A EXCEPT ![p] = a]
<1>1. /\ IsMail(c) /\ TextInv(c, A, D, G) /\ FileInv(c, A, D, W, G) /\ Busy(c)
      /\ NoAddr \notin Addrs /\ NoFile \notin Files /\ Texts \cap Files = {}
      /\ Texts \subseteq Msgs /\ Files \subseteq Msgs
      /\ \A m \in Msgs : Frames[m] \in Nat
  BY ConstantFacts DEF MailInv
<1>2. B[p] = a /\ \A q \in Peers \ {p} : B[q] = A[q]
  BY DEF IsBook
<1>3. IsBook(B)
  BY DEF IsBook
<1> HIDE DEF B
<1>4. TextInv(c, B, E, G)
  <2> SUFFICES ASSUME NEW m \in Texts PROVE TextOK(c, B, E, G, m)
    BY DEF TextInv
  <2>1. TextOK(c, A, D, G, m) /\ DOMAIN c.msg[m].rcpt \subseteq Peers
    BY <1>1 DEF TextInv, IsMail, IsMessage
  <2>2. /\ Held(c, a, m) = 0
        /\ \A b \in Addrs : Held(c, b, m) \in Nat
    <3>1. \A b \in Addrs : Held(c, b, m) \in Nat
      BY <1>1 DEF IsMail, Held, EngineType
    <3>2. ~(Held(c, a, m) > 0)
      BY <2>1 DEF TextOK
    <3> QED BY <3>1, <3>2
  <2>3. Load(c, A, p, m) = 0 /\ Load(c, B, p, m) = 0
    BY <1>1, <1>2, <2>2 DEF Load, IsBook
  <2>4. ASSUME NEW q \in DOMAIN c.msg[m].rcpt
        PROVE  TextReceipt(c, B, E, G, m, q)
    <3>1. TextReceipt(c, A, D, G, m, q) /\ q \in Peers
      BY <2>1 DEF TextOK
    <3>2. CASE q = p
      BY <2>3, <3>1, <3>2 DEF TextReceipt
    <3>3. CASE q # p
      <4>1. Load(c, B, q, m) = Load(c, A, q, m)
        BY <1>2, <3>1, <3>3 DEF Load
      <4> QED BY <3>1, <4>1 DEF TextReceipt
    <3> QED BY <3>2, <3>3
  <2>5. ASSUME NEW b \in Addrs, Held(c, b, m) > 0
        PROVE  \E q \in DOMAIN c.msg[m].rcpt : B[q] = b
    <3>1. PICK q \in DOMAIN c.msg[m].rcpt : A[q] = b
      BY <2>1, <2>5 DEF TextOK
    <3>2. q # p
      BY <1>1, <2>5, <3>1
    <3> QED BY <1>2, <2>1, <3>1, <3>2
  <2> QED BY <2>1, <2>4, <2>5 DEF TextOK
<1>5. FileInv(c, B, E, V, G)
  <2> SUFFICES ASSUME NEW f \in Files PROVE FileOK(c, B, E, V, G, f)
    BY DEF FileInv
  <2>1. FileOK(c, A, D, W, G, f) /\ DOMAIN c.msg[f].rcpt \subseteq Peers
    BY <1>1 DEF FileInv, IsMail, IsMessage
  <2>2. ASSUME NEW b \in Addrs, c.engine[b].file = f, f \notin V
        PROVE  B[To[f]] = b
    <3>1. A[To[f]] = b /\ To[f] \in Peers
      BY <2>1, <2>2 DEF FileOK
    <3>2. f \in Aboard(c, b)
      BY <1>1, <2>2 DEF Aboard
    <3>3. To[f] # p
      BY <1>1, <2>2, <3>1, <3>2
    <3> QED BY <1>2, <3>1, <3>3
  <2> QED BY <2>1, <2>2 DEF FileOK
<1> QED BY <1>1, <1>3, <1>4, <1>5 DEF MailInv, B

LEMMA OnBeaconStep ==
  ASSUME Inv, NEW p \in Peers, NEW a \in Addrs, OnBeacon(p, a)
  PROVE  Inv' /\ Settles
<1> DEFINE old    == at[p]
           moved  == old \notin {a, NoAddr}
           others == At(a) \ {p}
           left   == [q \in Peers |-> IF q \in others THEN NoAddr ELSE at[q]]
           next   == [left EXCEPT ![p] = a]
           c1     == IF moved THEN ReleaseAddr(Mail, old, {}, at, approved) ELSE Mail
           c2     == IF others = {} THEN c1
                     ELSE ReleaseAddr(c1, a, others, left, approved)
           E1     == IF moved THEN adrift \cup Aboard(Mail, old) ELSE adrift
           V      == IF moved THEN misled \cup Aboard(c2, old) ELSE misled
           E2     == IF moved THEN adrift \cup Aboard(Mail, old) \cup V ELSE adrift
<1>1. /\ Becomes(c2) /\ at' = next /\ adrift' = E2 /\ misled' = V
      /\ known' = known \cup {p} /\ present' = present \cup {p}
      /\ moves' \in {moves, moves - 1} /\ (moves' # moves => moves > 0)
      /\ UNCHANGED <<approved, late, offer, got>>
  BY DEF OnBeacon
<1>2. /\ misled \subseteq adrift
      /\ IsBook(at) /\ MailInv(Mail, at, adrift, misled, got) /\ Rest /\ NoAddr \notin Addrs
  BY ConstantFacts DEF Inv, Rest
<1>3. /\ old \in Addrs \cup {NoAddr} /\ (moved => old \in Addrs /\ old # a)
      /\ left \in [Peers -> Addrs \cup {NoAddr}]
      /\ \A q \in Peers : left[q] = IF q \in others THEN NoAddr ELSE at[q]
      /\ \A q \in Peers : q \in others <=> (at[q] = a /\ q # p)
  BY <1>2 DEF IsBook, At
<1>4. MailInv(c1, at, E1, misled, got) /\ Mild(Mail, c1)
      /\ (moved => \A m \in Texts : Held(c1, old, m) = 0)
  <2>1. CASE moved
    <3> DEFINE e == ReleaseAddr(Mail, old, {}, at, approved)
               D == adrift \cup Aboard(Mail, old)
    <3>1. /\ {} \in SUBSET {q \in Peers : at[q] = old} /\ adrift \subseteq D /\ misled \subseteq D
          /\ old \in Addrs
          /\ \A m \in Aboard(Mail, old) \ D : {q \in Peers : at[q] = old} \subseteq {}
      BY <1>2, <1>3, <2>1
    <3>2. c1 = e /\ E1 = D
      BY <2>1
    <3> HIDE DEF D, old, c1, E1
    <3>3. MailInv(e, at, D, misled, got) /\ Mild(Mail, e)
      BY <1>2, <3>1, ReleaseAddrInv
    <3>4. \A b \in Addrs : \A m \in Texts : Held(e, b, m) = IF b = old THEN 0 ELSE Held(Mail, b, m)
      BY <1>2, <3>1, ReleasedTexts
    <3> QED BY <3>1, <3>2, <3>3, <3>4
  <2>2. CASE ~moved
    BY <1>2, <2>2, MildReflexive
  <2> QED BY <2>1, <2>2
<1> HIDE DEF c1, left
<1>5. IsBook(left)
  <2> SUFFICES ASSUME NEW q \in Peers, NEW s \in Peers, left[q] = left[s], q # s
               PROVE  left[q] = NoAddr
    BY <1>3 DEF IsBook
  <2>1. CASE q \in others \/ s \in others
    BY <1>3, <2>1
  <2>2. CASE q \notin others /\ s \notin others
    BY <1>2, <1>3, <2>2 DEF IsBook
  <2> QED BY <2>1, <2>2
<1>6. /\ MailInv(c2, left, E1, misled, got) /\ Mild(c1, c2)
      /\ (moved => \A m \in Texts : Held(c2, old, m) = 0)
  <2>1. CASE others = {}
    <3>1. left = at
      BY <1>2, <1>3, <2>1 DEF IsBook
    <3> QED BY <1>4, <2>1, <3>1, MildReflexive
  <2>2. CASE others # {}
    <3> DEFINE e == ReleaseAddr(c1, a, others, left, approved)
    <3>1. PICK q \in Peers : at[q] = a /\ q # p
      BY <1>3, <2>2 DEF At
    <3>2. old # a
      BY <1>2, <1>3, <3>1 DEF IsBook
    <3>3. /\ others \in SUBSET {s \in Peers : at[s] = a}
          /\ \A s \in Peers : left[s] = at[s] \/ (s \in others /\ left[s] = NoAddr)
          /\ misled \subseteq E1
          /\ \A m \in Aboard(c1, a) \ E1 : {s \in Peers : at[s] = a} \subseteq others
      BY <1>2, <1>3, <3>2 DEF At
    <3>4. c2 = e
      BY <2>2
    <3> HIDE DEF E1, others, c2
    <3>5. MailInv(e, left, E1, misled, got) /\ Mild(c1, e)
      BY <1>2, <1>4, <1>5, <3>3, ReleaseAddrInv
    <3>6. \A b \in Addrs : \A m \in Texts : Held(e, b, m) = IF b = a THEN 0 ELSE Held(c1, b, m)
      BY <1>2, <1>4, <1>5, <3>3, ReleasedTexts
    <3> HIDE DEF e
    <3>7. moved => \A m \in Texts : Held(e, old, m) = 0
      BY <1>3, <1>4, <3>6
    <3> QED BY <3>4, <3>5, <3>7
  <2> QED BY <2>1, <2>2
<1> HIDE DEF c2
<1>7. IsBook(next) /\ MailInv(c2, next, E2, V, got)
  <2>1. E1 \subseteq E2 /\ misled \subseteq V
    OBVIOUS
  <2>2. CASE old = a
    <3>1. others = {}
      <4>1. \A q \in Peers : at[q] = a => q = p
        BY <1>2, <2>2 DEF IsBook
      <4> QED BY <4>1 DEF At
    <3>2. left = at
      BY <1>2, <1>3, <3>1 DEF IsBook
    <3>3. next = at
      BY <1>2, <2>2, <3>2 DEF IsBook
    <3>4. E2 = E1 /\ V = misled
      BY <2>2
    <3> QED BY <1>2, <1>6, <3>2, <3>3, <3>4
  <2>3. CASE old # a
    <3>1. \A q \in Peers : left[q] # a
      BY <1>2, <1>3, <2>3
    <3>2. left[p] = old
      BY <1>3
    <3>3. /\ \A m \in Texts : left[p] # NoAddr => Held(c2, left[p], m) = 0
          /\ left[p] # NoAddr => Aboard(c2, left[p]) \subseteq V
      BY <1>6, <2>3, <3>2
    <3> HIDE DEF E1, E2, V
    <3> QED BY <1>5, <1>6, <2>1, <3>1, <3>3, BookChanges
  <2> QED BY <2>2, <2>3
<1>8. misled' \subseteq adrift' /\ adrift' \subseteq Msgs
  <2>1. moved => Aboard(Mail, old) \subseteq Msgs /\ Aboard(c2, old) \subseteq Msgs
    BY <1>2, <1>3, <1>6, AboardIs
  <2> QED BY <1>1, <1>2, <2>1 DEF Rest
<1> HIDE DEF E1, E2, V, left, next
<1>9. Mail' = c2 /\ Mild(Mail, c2)
  BY <1>1, <1>4, <1>6, BecomesIs, MildTransitive DEF MailInv
<1>10. Settles
  BY <1>9, MailIs, MailIsNext DEF Mild, Keeps, Settles
<1>11. Rest'
  <2>1. \A n \in offer : n \in Msgs /\ msg'[n].state = "unsent"
    BY <1>2, <1>9, MailIs, MailIsNext DEF Rest, Mild, Spares
  <2>2. moves' \in Nat
    BY <1>1, <1>2 DEF Rest
  <2> QED BY <1>1, <1>2, <1>8, <2>1, <2>2 DEF Rest
<1>12. IsBook(at') /\ MailInv(Mail', at', adrift', misled', got')
  BY <1>1, <1>7, <1>9
<1> QED BY <1>10, <1>11, <1>12 DEF Inv

-----------------------------------------------------------------------------
(***************************************************************************)
(* The invariant                                                           *)
(***************************************************************************)
LEMMA InitInv == Init => Inv
<1> SUFFICES ASSUME Init PROVE Inv
  OBVIOUS
<1> DEFINE x == Message("unsent", NoReceipts)
<1>1. /\ IsMessage(x) /\ x.state = "unsent" /\ DOMAIN x.rcpt = {}
  BY BareMessage DEF States
<1>2. /\ \A m \in Msgs : msg[m] = x
      /\ msg = [m \in Msgs |-> msg[m]]
      /\ waiting = {} /\ jobs = {} /\ adrift = {} /\ misled = {}
      /\ active \in [Addrs -> Files \cup {NoFile}] /\ \A a \in Addrs : active[a] = NoFile
      /\ \A a \in Addrs : engine[a] = NoEngine
      /\ engine = [a \in Addrs |-> NoEngine]
      /\ got \in [Msgs -> [Peers -> Nat]] /\ \A m \in Msgs, p \in Peers : got[m][p] = 0
  BY DEF Init
<1> HIDE DEF x
<1>3. /\ NoEngine \in EngineType /\ NoEngine.file = NoFile
      /\ \A m \in Texts : NoEngine.queued[m] = 0 /\ NoEngine.sent[m] = 0
  BY DEF NoEngine, EngineType
<1>4. IsMail(Mail)
  <2>1. engine \in [Addrs -> EngineType]
    BY <1>2, <1>3
  <2>2. \A m \in Msgs : IsMessage(msg[m])
    BY <1>1, <1>2
  <2> QED BY <1>2, <2>1, <2>2 DEF IsMail, Mail
<1>5. \A a \in Addrs : \A m \in Texts : Held(Mail, a, m) = 0
  BY <1>2, <1>3, MailIs DEF Held
<1>6. TextInv(Mail, at, adrift, got)
  <2> SUFFICES ASSUME NEW m \in Texts PROVE TextOK(Mail, at, adrift, got, m)
    BY DEF TextInv
  <2>1. m \in Msgs /\ msg[m] = x
    BY <1>2, ConstantFacts
  <2>2. Untouched(Mail, got, m)
    BY <1>1, <1>2, <1>5, <2>1, MailIs DEF Untouched
  <2> QED BY <1>1, <1>2, <1>5, <2>1, <2>2, MailIs DEF TextOK
<1>7. FileInv(Mail, at, adrift, misled, got)
  <2> SUFFICES ASSUME NEW f \in Files PROVE FileOK(Mail, at, adrift, misled, got, f)
    BY DEF FileInv
  <2>1. f \in Msgs /\ msg[f] = x /\ f # NoFile
    BY <1>2, ConstantFacts
  <2> QED BY <1>1, <1>2, <1>3, <2>1, MailIs DEF FileOK
<1>8. Busy(Mail)
  BY <1>2, <1>3, MailIs DEF Busy
<1>9. IsBook(at)
  BY DEF Init, IsBook
<1>10. Rest
  <2>1. offer \subseteq Msgs /\ moves \in Nat /\ approved \subseteq Peers
    BY ChatAssumption DEF Init
  <2>2. known = {} /\ present = {} /\ late = {}
    BY DEF Init
  <2> QED BY <1>1, <1>2, <2>1, <2>2 DEF Rest
<1> QED BY <1>4, <1>6, <1>7, <1>8, <1>9, <1>10 DEF Inv, MailInv

LEMMA NextInv == Inv /\ [Next]_vars => Inv' /\ Settles
<1> SUFFICES ASSUME Inv, [Next]_vars PROVE Inv' /\ Settles
  OBVIOUS
<1>1. CASE Tick
  BY <1>1, TickStep
<1>2. ASSUME NEW m \in Msgs, Submit(m) PROVE Inv' /\ Settles
  BY <1>2, SubmitStep
<1>3. ASSUME NEW m \in Msgs, TimePasses(m) PROVE Inv' /\ Settles
  BY <1>3, TimePassesStep
<1>4. ASSUME NEW p \in Peers, Approve(p) PROVE Inv' /\ Settles
  BY <1>4, ApproveStep
<1>5. ASSUME NEW p \in Peers, Withdraw(p) PROVE Inv' /\ Settles
  BY <1>5, WithdrawStep
<1>6. ASSUME NEW p \in Peers, SweepPeers(p) PROVE Inv' /\ Settles
  BY <1>6, SweepPeersStep
<1>7. ASSUME NEW p \in Peers, NEW a \in Addrs, OnBeacon(p, a) PROVE Inv' /\ Settles
  BY <1>7, OnBeaconStep
<1>8. ASSUME NEW a \in Addrs, NEW m \in Texts, Transmit(a, m) PROVE Inv' /\ Settles
  BY <1>8, TransmitStep
<1>9. ASSUME NEW a \in Addrs, NEW m \in Texts, Retransmit(a, m) PROVE Inv' /\ Settles
  BY <1>9, RetransmitStep
<1>10. ASSUME NEW a \in Addrs, NEW m \in Texts, Acknowledged(a, m) PROVE Inv' /\ Settles
  BY <1>10, AcknowledgedStep
<1>11. ASSUME NEW a \in Addrs, NEW m \in Texts, GivenUp(a, m) PROVE Inv' /\ Settles
  BY <1>11, GivenUpStep
<1>12. ASSUME NEW a \in Addrs, NEW ok \in BOOLEAN, TxFileDone(a, ok) PROVE Inv' /\ Settles
  BY <1>12, TxFileDoneStep
<1>13. CASE UNCHANGED vars
  <2>1. UNCHANGED <<at, known, present, approved, msg, waiting, jobs, active, engine,
                    late, offer, got, adrift, misled, moves>>
    BY <1>13 DEF vars, book, mail
  <2>2. Mail' = Mail
    BY <2>1 DEF Mail
  <2>3. Settles
    BY <2>1 DEF Settles, KeepsOne
  <2>4. Rest' /\ IsBook(at') /\ MailInv(Mail', at', adrift', misled', got')
    BY <2>1, <2>2 DEF Inv, Rest
  <2> QED BY <2>3, <2>4 DEF Inv
<1> QED BY <1>1, <1>2, <1>3, <1>4, <1>5, <1>6, <1>7, <1>8, <1>9, <1>10, <1>11, <1>12,
           <1>13 DEF Next

\* The invariant holds in every state: the receipts of a text count its
\* acknowledged frames and agree with what the engine of the peer still holds,
\* and a file is with at most one engine.
THEOREM Invariant == Spec => []Inv
<1>1. Inv /\ [Next]_vars => Inv'
  BY NextInv
<1> QED BY InitInv, <1>1, PTL DEF Spec

\* The address book never has two nodes at one address, and every message,
\* receipt, job and engine is of its kind, whatever order beacons, approvals,
\* ticks and reports come in.
THEOREM TypeCorrect == Spec => []TypeOK
<1>1. Inv => TypeOK
  <2> SUFFICES ASSUME Inv PROVE TypeOK
    OBVIOUS
  <2>1. IsMail(Mail) /\ IsBook(at) /\ Rest
    BY DEF Inv, MailInv
  <2>2. DOMAIN msg = Msgs /\ \A m \in Msgs : MessageOK(msg[m])
    <3>1. msg = [m \in Msgs |-> msg[m]] /\ \A m \in Msgs : IsMessage(msg[m])
      BY <2>1, MailIs DEF IsMail
    <3>2. \A m \in Msgs : MessageOK(msg[m])
      BY <3>1 DEF MessageOK, IsMessage, States, Receipts, ReceiptStates
    <3> QED BY <3>1, <3>2
  <2>3. /\ waiting \subseteq Texts /\ jobs \subseteq Files
        /\ active \in [Addrs -> Files \cup {NoFile}] /\ engine \in [Addrs -> EngineType]
    BY <2>1, MailIs DEF IsMail
  <2> QED BY <2>1, <2>2, <2>3 DEF TypeOK, IsBook, Rest
<1> QED BY Invariant, <1>1, PTL

\* The ticks of a delivered message are true: the very node a receipt names,
\* not a later holder of its address, has acknowledged every frame of the text
\* or confirmed the file (_on_tx_state, _rcpt).  It is proved of all but the
\* misled, the files that _on_beacon starts to the address a node is leaving:
\* of those the code's tick may be a stranger's.
THEOREM DeliveredComplete == Spec => []DeliveredIsComplete
<1>1. Inv => DeliveredIsComplete
  <2> SUFFICES ASSUME Inv, NEW m \in Msgs \ misled, NEW p \in DOMAIN msg[m].rcpt,
                      msg[m].state = "delivered" \/ msg[m].rcpt[p].state = "delivered"
               PROVE  got[m][p] = Frames[m]
    BY DEF DeliveredIsComplete
  <2>1. /\ IsMessage(msg[m]) /\ TextInv(Mail, at, adrift, got)
        /\ FileInv(Mail, at, adrift, misled, got)
    BY MailIs DEF Inv, MailInv, IsMail
  <2>2. CASE m \in Texts
    <3>1. TextOK(Mail, at, adrift, got, m)
      BY <2>1, <2>2 DEF TextInv
    <3>2. msg[m].state = Aggregate(msg[m].rcpt) /\ TextReceipt(Mail, at, adrift, got, m, p)
      BY <3>1, MailIs DEF TextOK
    <3>3. msg[m].rcpt[p].state = "delivered"
      BY <2>1, <3>2, AggregateIs DEF IsMessage
    <3> QED BY <3>2, <3>3, MailIs DEF TextReceipt
  <2>3. CASE m \in Files
    <3>1. FileOK(Mail, at, adrift, misled, got, m) /\ Frames[m] = 1
      BY <2>1, <2>3, ConstantFacts DEF FileInv
    <3> QED BY <3>1, MailIs DEF FileOK
  <2> QED BY <2>2, <2>3, ConstantFacts
<1> QED BY Invariant, <1>1, PTL

\* A message without a verdict still has somebody to give it one: it waits for
\* its node, or an engine still holds part of it for each recipient that has not
\* answered (_release_addr, _flush_waiting).  It is proved of all but the adrift,
\* which the move of a node leaves open for ever.
THEOREM CauseOfOpen == Spec => []OpenHasCause
<1>1. Inv => OpenHasCause
  <2> SUFFICES ASSUME Inv, NEW m \in Msgs \ adrift,
                      msg[m].state \notin Final \cup {"unsent"}, m \notin waiting \cup jobs
               PROVE  /\ \E p \in DOMAIN msg[m].rcpt : msg[m].rcpt[p].state \notin Final
                      /\ \A p \in DOMAIN msg[m].rcpt :
                           msg[m].rcpt[p].state \notin Final =>
                             at[p] # NoAddr /\ m \in Aboard(Mail, at[p])
    BY DEF OpenHasCause
  <2>1. /\ MailInv(Mail, at, adrift, misled, got) /\ IsMessage(msg[m]) /\ IsBook(at)
        /\ TextInv(Mail, at, adrift, got) /\ FileInv(Mail, at, adrift, misled, got)
        /\ NoAddr \notin Addrs /\ m \notin misled
    BY MailIs, ConstantFacts DEF Inv, MailInv, IsMail, Rest
  <2>2. CASE m \in Texts
    <3>1. TextOK(Mail, at, adrift, got, m)
      BY <2>1, <2>2 DEF TextInv
    <3>2. DOMAIN msg[m].rcpt # {} /\ msg[m].state = Aggregate(msg[m].rcpt)
      BY <3>1, MailIs DEF TextOK, Final
    <3>3. \E p \in DOMAIN msg[m].rcpt : msg[m].rcpt[p].state \notin Final
      BY <2>1, <3>2, AggregateIs DEF IsMessage
    <3>4. ASSUME NEW p \in DOMAIN msg[m].rcpt, msg[m].rcpt[p].state \notin Final
          PROVE  at[p] # NoAddr /\ m \in Aboard(Mail, at[p])
      <4>1. Load(Mail, at, p, m) > 0
        BY <3>1, <3>4, MailIs DEF TextOK, TextReceipt
      <4>2. at[p] # NoAddr /\ Held(Mail, at[p], m) > 0
        BY <4>1 DEF Load
      <4>3. at[p] \in Addrs
        BY <2>1, <4>2 DEF IsMessage, IsBook
      <4> QED BY <2>1, <2>2, <4>2, <4>3, AboardIs
    <3> QED BY <3>3, <3>4
  <2>3. CASE m \in Files
    <3>1. FileOK(Mail, at, adrift, misled, got, m)
      BY <2>1, <2>3 DEF FileInv
    <3>2. PICK a \in Addrs : engine[a].file = m
      BY <3>1, MailIs DEF FileOK
    <3>3. /\ To[m] \in DOMAIN msg[m].rcpt /\ DOMAIN msg[m].rcpt \subseteq {To[m]}
          /\ msg[m].rcpt[To[m]].state = "queued" /\ at[To[m]] = a
      BY <2>1, <3>1, <3>2, MailIs DEF FileOK, Silent
    <3>4. m \in Aboard(Mail, a)
      BY <2>1, <2>3, <3>2, AboardIs, MailIs
    <3> QED BY <2>1, <3>2, <3>3, <3>4 DEF Final
  <2> QED BY <2>2, <2>3, ConstantFacts
<1> QED BY Invariant, <1>1, PTL

\* What an engine holds is for a recipient that is there now (_release_addr), so
\* that nothing is delivered to whoever comes to hold an address next: of all but
\* the misled files, which are.
THEOREM EnginesForOwners == Spec => []NothingForOthers
<1>1. Inv => NothingForOthers
  <2> SUFFICES ASSUME Inv, NEW a \in Addrs, NEW m \in Aboard(Mail, a) \ misled
               PROVE  \E p \in DOMAIN msg[m].rcpt : at[p] = a
    BY DEF NothingForOthers
  <2>1. MailInv(Mail, at, adrift, misled, got)
    BY DEF Inv
  <2>2. CASE m \in Texts
    <3>1. Held(Mail, a, m) > 0 /\ TextOK(Mail, at, adrift, got, m)
      BY <2>1, <2>2, AboardIs DEF MailInv, TextInv
    <3> QED BY <3>1, MailIs DEF TextOK
  <2>3. CASE m \in Files
    <3>1. engine[a].file = m /\ FileOK(Mail, at, adrift, misled, got, m)
      BY <2>1, <2>3, AboardIs, MailIs DEF MailInv, FileInv
    <3> QED BY <3>1, MailIs DEF FileOK
  <2>4. m \in Msgs
    BY <2>1, AboardIs
  <2> QED BY <2>2, <2>3, <2>4, ConstantFacts
<1> QED BY Invariant, <1>1, PTL

\* No address is blocked by a transfer that is over, and none is free while one
\* is under way, however it ended: report, release or revocation (_active_tx).
THEOREM ActiveSending == Spec => []ActiveIsSending
<1>1. Inv => ActiveIsSending
  BY MailIs DEF Inv, MailInv, Busy, ActiveIsSending
<1> QED BY Invariant, <1>1, PTL

\* No step takes a verdict back, of a message or of one of its recipients,
\* whatever report, release or retry comes after it.
THEOREM VerdictsStay == Spec => VerdictsFinal
<1>1. Inv /\ [Next]_vars =>
        [\A m \in Msgs :
           /\ msg[m].state \in Final => msg'[m].state = msg[m].state
           /\ \A p \in DOMAIN msg[m].rcpt :
                msg[m].rcpt[p].state \in Final =>
                  /\ p \in DOMAIN msg'[m].rcpt
                  /\ msg'[m].rcpt[p].state = msg[m].rcpt[p].state]_vars
  BY NextInv DEF Settles, KeepsOne
<1> QED BY Invariant, <1>1, PTL DEF Spec, VerdictsFinal

=============================================================================
