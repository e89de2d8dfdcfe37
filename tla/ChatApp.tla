------------------------------ MODULE ChatApp ------------------------------
(***************************************************************************)
(* Messages and delivery receipts of one mesh node: ChatApp of             *)
(* bpsk_app.py, from the moment the radio thread takes a message off the   *)
(* inbox to the verdict the browser shows.  The other nodes come, go, move *)
(* to other addresses, take over each other's, and are approved or not.    *)
(*                                                                         *)
(* The node encrypts: it exchanges frames with the node its address book   *)
(* has under an address, if that one is approved, and with nobody else.    *)
(* Below it is one link engine per address, taken at what SelectiveRepeat  *)
(* and FileTransfer promise: a queued frame is sent, possibly several      *)
(* times, and then acknowledged or given up; a transfer ends with one      *)
(* report.  An address without an engine has an empty one.                 *)
(*                                                                         *)
(* Nicknames, notes, tries and progress are left out, and so is the inbox: *)
(* a message is submitted when it is taken off it, and its number is its   *)
(* place in that order.                                                    *)
(***************************************************************************)
EXTENDS Integers, FiniteSets

CONSTANTS
  Peers,      \* the other nodes
  Addrs,      \* addresses other than the node's own
  Reach,      \* the addresses a peer may come to hold
  Texts,      \* numbers of the texts
  Files,      \* numbers of the attachments
  To,         \* the conversation of a message, a peer or the group
  Frames,     \* the frames of a message; a file counts as one
  Offers,     \* the sets of messages the user may submit in a run
  MaxMoves    \* bound: changes of the address book

Msgs == Texts \cup Files

Group  == "group"
NoAddr == 0
NoFile == 0

ASSUME ChatAssumption ==
  /\ Texts \subseteq Nat \ {0} /\ Files \subseteq Nat \ {0}
  /\ Texts \cap Files = {}
  /\ Group \notin Peers /\ Addrs \subseteq Nat \ {0}
  /\ Reach \in [Peers -> SUBSET Addrs]
  /\ To \in [Msgs -> Peers \cup {Group}]
  /\ Frames \in [Msgs -> Nat \ {0}]
  /\ \A f \in Files : Frames[f] = 1
  /\ Offers \subseteq SUBSET Msgs
  /\ MaxMoves \in Nat

VARIABLES
  at,        \* peers[..]["addr"]; _by_addr is its inverse
  known,     \* the nodes in self.peers
  present,   \* those that count as in range
  approved,  \* those whose key is trusted
  msg,       \* _by_mid: state and receipts of every message
  waiting,   \* _waiting: texts for a node without an address
  jobs,      \* _file_jobs, oldest first
  active,    \* _active_tx: the file being sent to an address
  engine,    \* the link engine of an address
  late,      \* messages that have waited for longer than WAIT_LIMIT
  offer,     \* messages that have not been submitted yet
  got,       \* history: how many frames of a message a peer acknowledged
  adrift,    \* history: messages left open by the move of a node: what was
             \* aboard the engine of its old address, and the misled
  misled,    \* history: files started, in that move, to the address left
  moves      \* changes of the address book left

book == <<at, known, present, approved>>
mail == <<msg, waiting, jobs, active, engine>>
vars == <<book, mail, late, offer, got, adrift, misled, moves>>

\* What the handlers work on, and hand to one another.
Mail == [msg |-> msg, waiting |-> waiting, jobs |-> jobs, active |-> active,
         engine |-> engine]

Becomes(c) ==
  /\ msg' = c.msg /\ waiting' = c.waiting /\ jobs' = c.jobs
  /\ active' = c.active /\ engine' = c.engine

NoEngine == [queued |-> [m \in Texts |-> 0], sent |-> [m \in Texts |-> 0],
             file |-> NoFile]

NoReceipts == [p \in {} |-> 0]

Message(state, rcpt) == [state |-> state, rcpt |-> rcpt]

Init ==
  /\ at = [p \in Peers |-> NoAddr] /\ known = {} /\ present = {}
  /\ approved \in SUBSET Peers
  /\ msg = [m \in Msgs |-> Message("unsent", NoReceipts)]
  /\ waiting = {} /\ jobs = {}
  /\ active = [a \in Addrs |-> NoFile]
  /\ engine = [a \in Addrs |-> NoEngine]
  /\ late = {} /\ offer \in Offers
  /\ got = [m \in Msgs |-> [p \in Peers |-> 0]]
  /\ adrift = {} /\ misled = {} /\ moves = MaxMoves

-----------------------------------------------------------------------------
(***************************************************************************)
(* Receipts                                                                *)
(***************************************************************************)
Final == {"delivered", "partial", "failed"}

SentTo(targets) ==
  Message("queued", [p \in targets |-> [state |-> "queued", acked |-> 0]])

\* _aggregate: the state of a message from those of its recipients.
Aggregate(rcpt) ==
  LET states == {rcpt[p].state : p \in DOMAIN rcpt}
  IN  CASE states = {"queued"}              -> "queued"
        [] states = {"delivered"}           -> "delivered"
        [] states = {"failed"}              -> "failed"
        [] states = {"delivered", "failed"} -> "partial"
        [] OTHER                            -> "sent"

WithReceipt(message, p, r) ==
  LET rcpt == [message.rcpt EXCEPT ![p] = r]
  IN  Message(Aggregate(rcpt), rcpt)

\* The node that has an address, if any.
At(a) == {p \in Peers : at[p] = a}

\* _rcpt: the recipient that a report for an address is about.
Recipient(message, a) ==
  LET rcpt == DOMAIN message.rcpt
  IN  IF At(a) \cap rcpt # {} THEN At(a) \cap rcpt
      ELSE IF Cardinality(rcpt) = 1 THEN rcpt ELSE {}

\* _rcpt_failed for the messages M of the peers in pid, one or none.
RcptFailed(c, M, pid) ==
  LET open(m) == {p \in pid \cap DOMAIN c.msg[m].rcpt :
                    c.msg[m].rcpt[p].state \notin Final}
  IN  [c EXCEPT !.msg = [m \in Msgs |->
         IF m \in M /\ open(m) # {}
         THEN LET p == CHOOSE p \in open(m) : TRUE
              IN  WithReceipt(c.msg[m], p,
                              [c.msg[m].rcpt[p] EXCEPT !.state = "failed"])
         ELSE c.msg[m]]]

-----------------------------------------------------------------------------
(***************************************************************************)
(* Sending.  A and T stand for the addresses and the approvals at the time *)
(* of the call: a handler may be half way through changing them.           *)
(***************************************************************************)
Absent(m) == To[m] # Group /\ at[To[m]] = NoAddr

Targets(m, T) ==
  IF To[m] = Group THEN {p \in present \cap T : at[p] # NoAddr}
  ELSE {To[m]} \cap T

\* The messages M begin their way, each to its targets or, without any, to
\* failure.
Dispatch(c, M, T) ==
  [c EXCEPT
     !.msg = [m \in Msgs |->
                IF m \notin M THEN c.msg[m]
                ELSE IF Targets(m, T) = {} THEN Message("failed", NoReceipts)
                ELSE SentTo(Targets(m, T))],
     !.engine = [a \in Addrs |->
        [c.engine[a] EXCEPT !.queued = [m \in Texts |->
           c.engine[a].queued[m] +
             IF m \in M /\ At(a) \cap Targets(m, T) # {}
             THEN Frames[m] ELSE 0]]]]

Wait(c, m) == [c EXCEPT !.msg[m] = Message("waiting", NoReceipts)]

SendText(c, m) ==
  IF Absent(m) THEN [Wait(c, m) EXCEPT !.waiting = c.waiting \cup {m}]
  ELSE Dispatch(c, {m}, approved)

\* The call of _start_next_file at the end is the one that ends the tick.
QueueAttachment(c, m) ==
  LET targets == Targets(m, approved)
  IN  IF To[m] = Group \/ (~Absent(m) /\ targets = {})
      THEN [c EXCEPT !.msg[m] = Message("failed", NoReceipts)]
      ELSE [c EXCEPT
              !.msg[m] = IF Absent(m) THEN Message("waiting", NoReceipts)
                         ELSE SentTo(targets),
              !.jobs = c.jobs \cup {m}]

\* Mutant: a text whose node stays away is never given up.
MutantFlushWaiting(c, T) ==
  LET ready == {m \in c.waiting : ~Absent(m)}
  IN  Dispatch([c EXCEPT !.waiting = c.waiting \ ready], ready, T)

\* What waited too long is given up, what waited for a node that has come is
\* sent to it.
FlushWaiting(c, T) ==
  LET expired == {m \in c.waiting : Absent(m) /\ m \in late}
      ready   == {m \in c.waiting : ~Absent(m)}
  IN  Dispatch([c EXCEPT
                  !.waiting = c.waiting \ (expired \cup ready),
                  !.msg = [m \in Msgs |->
                             IF m \in expired THEN Message("failed", NoReceipts)
                             ELSE c.msg[m]]],
               ready, T)

\* One transfer per address; the oldest job for a node goes first.
StartNextFile(c, A, T) ==
  LET gone    == {f \in c.jobs : A[To[f]] = NoAddr}
      denied  == {f \in c.jobs \ gone : To[f] \notin T}
      failing == (gone \cap late) \cup denied
      started == {f \in c.jobs \ (gone \cup denied) :
                    /\ c.active[A[To[f]]] = NoFile
                    /\ c.engine[A[To[f]]].file = NoFile
                    /\ \A g \in c.jobs : To[g] = To[f] => g >= f}
      file(a) == CHOOSE f \in started : A[To[f]] = a
      rcpt(f) == IF c.msg[f].rcpt = NoReceipts THEN SentTo({To[f]}).rcpt
                 ELSE c.msg[f].rcpt
      to      == {A[To[f]] : f \in started}
  IN  [c EXCEPT
         !.msg = [m \in Msgs |->
                    IF m \in failing THEN Message("failed", c.msg[m].rcpt)
                    ELSE IF m \in started THEN Message("sending", rcpt(m))
                    ELSE c.msg[m]],
         !.jobs = c.jobs \ (failing \cup started),
         !.active = [a \in Addrs |-> IF a \in to THEN file(a) ELSE c.active[a]],
         !.engine = [a \in Addrs |->
                       IF a \in to THEN [c.engine[a] EXCEPT !.file = file(a)]
                       ELSE c.engine[a]]]

\* What the engine of a still has to deliver.
Aboard(c, a) ==
  {m \in Texts : c.engine[a].queued[m] + c.engine[a].sent[m] > 0}
    \cup ({c.engine[a].file} \ {NoFile})

\* Mutant: the transfer under way is forgotten with the engine.
MutantReleaseAddr(c, a, pid, A, T) ==
  LET dropped == [RcptFailed(c, Aboard(c, a) \cap Texts, pid) EXCEPT
                    !.engine[a] = NoEngine, !.active[a] = NoFile]
  IN  IF c.active[a] = NoFile THEN dropped ELSE StartNextFile(dropped, A, T)

\* _release_addr: the engine of a goes, and what it held is reported failed.
ReleaseAddr(c, a, pid, A, T) ==
  LET dropped == [RcptFailed(c, Aboard(c, a), pid) EXCEPT
                    !.engine[a] = NoEngine, !.active[a] = NoFile]
  IN  IF c.active[a] = NoFile THEN dropped ELSE StartNextFile(dropped, A, T)

-----------------------------------------------------------------------------
(***************************************************************************)
(* The tick: a job off the inbox, the waiting texts, the waiting files.    *)
(***************************************************************************)
TickEnds(c, T) ==
  \E flushed \in {FlushWaiting(c, T)} :
    \E started \in {StartNextFile(flushed, at, T)} : Becomes(started)

Tick ==
  /\ TickEnds(Mail, approved)
  /\ UNCHANGED <<book, late, offer, got, adrift, misled, moves>>

Submit(m) ==
  /\ m \in offer /\ \A n \in offer : m <= n
  /\ offer' = offer \ {m}
  /\ TickEnds(IF m \in Texts THEN SendText(Mail, m) ELSE QueueAttachment(Mail, m),
              approved)
  /\ UNCHANGED <<book, late, got, adrift, misled, moves>>

\* _set_trust
Approve(p) ==
  /\ p \in known \ approved
  /\ approved' = approved \cup {p}
  /\ TickEnds(Mail, approved')
  /\ UNCHANGED <<at, known, present, late, offer, got, adrift, misled, moves>>

Withdraw(p) ==
  /\ p \in known \cap approved
  /\ approved' = approved \ {p}
  /\ TickEnds(IF at[p] = NoAddr THEN Mail
              ELSE ReleaseAddr(Mail, at[p], {p}, at, approved'), approved')
  /\ UNCHANGED <<at, known, present, late, offer, got, adrift, misled, moves>>

\* The tick in which a node unheard for PEER_TIMEOUT is shown as away.
SweepPeers(p) ==
  /\ p \in present
  /\ present' = present \ {p}
  /\ TickEnds(Mail, approved)
  /\ UNCHANGED <<at, known, approved, late, offer, got, adrift, misled, moves>>

\* WAIT_LIMIT passes for a message.
TimePasses(m) ==
  /\ m \in (waiting \cup jobs) \ late
  /\ late' = late \cup {m}
  /\ UNCHANGED <<book, mail, offer, got, adrift, misled, moves>>

-----------------------------------------------------------------------------
\* Mutant: the address changes hands and the engine stays.
MutantOnBeacon(p, a) ==
  LET old    == at[p]
      moved  == old \notin {a, NoAddr}
      others == At(a) \ {p}
      left   == [q \in Peers |-> IF q \in others THEN NoAddr ELSE at[q]]
      c1     == IF moved THEN ReleaseAddr(Mail, old, {}, at, approved) ELSE Mail
  IN  /\ a \in Reach[p]
      /\ IF a = old THEN UNCHANGED moves ELSE moves > 0 /\ moves' = moves - 1
      /\ Becomes(c1)
      /\ at' = [left EXCEPT ![p] = a]
      /\ known' = known \cup {p} /\ present' = present \cup {p}
      /\ misled' = IF moved THEN misled \cup Aboard(c1, old) ELSE misled
      /\ adrift' = IF moved THEN adrift \cup Aboard(Mail, old) \cup misled' ELSE adrift
      /\ UNCHANGED <<approved, late, offer, got>>

\* Mutant: the former holder of the address keeps it in the book.
MutantOnBeaconKeeps(p, a) ==
  /\ a \in Reach[p]
  /\ IF a = at[p] THEN UNCHANGED moves ELSE moves > 0 /\ moves' = moves - 1
  /\ at' = [at EXCEPT ![p] = a]
  /\ known' = known \cup {p} /\ present' = present \cup {p}
  /\ UNCHANGED <<mail, approved, late, offer, got, adrift, misled>>

(***************************************************************************)
(* A beacon of p from address a.  When p has moved, _by_addr loses its old *)
(* address before that is released, and peers[..]["addr"] after: what the  *)
(* engine held is nobody's, and the next file goes to the old address.     *)
(***************************************************************************)
OnBeacon(p, a) ==
  LET old    == at[p]
      moved  == old \notin {a, NoAddr}
      others == At(a) \ {p}
      left   == [q \in Peers |-> IF q \in others THEN NoAddr ELSE at[q]]
      c1     == IF moved THEN ReleaseAddr(Mail, old, {}, at, approved) ELSE Mail
      c2     == IF others = {} THEN c1
                ELSE ReleaseAddr(c1, a, others, left, approved)
  IN  /\ a \in Reach[p]
      /\ IF a = old THEN UNCHANGED moves ELSE moves > 0 /\ moves' = moves - 1
      /\ \E c \in {c2} : Becomes(c)
      /\ at' = [left EXCEPT ![p] = a]
      /\ known' = known \cup {p} /\ present' = present \cup {p}
      /\ misled' = IF moved THEN misled \cup Aboard(c2, old) ELSE misled
      /\ adrift' = IF moved THEN adrift \cup Aboard(Mail, old) \cup misled' ELSE adrift
      /\ UNCHANGED <<approved, late, offer, got>>

-----------------------------------------------------------------------------
(***************************************************************************)
(* Reports of the link                                                     *)
(***************************************************************************)
\* There is a session with the node at a.
Open(a) == At(a) \cap approved # {}

\* Mutant: a receipt that has failed goes on like any other.
MutantReceiptRevives(r, what, frames) ==
  CASE what = "sent"   -> [r EXCEPT !.state = "sent"]
    [] what = "failed" -> [r EXCEPT !.state = "failed"]
    [] what = "acked"  ->
         [state |-> IF r.acked + 1 >= frames THEN "delivered" ELSE "sent",
          acked |-> r.acked + 1]

\* Mutant: one acknowledged frame makes the message delivered.
MutantReceiptFirst(r, what, frames) ==
  IF r.state = "failed"
  THEN IF what = "acked" THEN [r EXCEPT !.acked = r.acked + 1] ELSE r
  ELSE CASE what = "sent"   -> [r EXCEPT !.state = "sent"]
         [] what = "failed" -> [r EXCEPT !.state = "failed"]
         [] what = "acked"  -> [state |-> "delivered", acked |-> r.acked + 1]

\* A receipt after a report.  One frame given up fails it for good: the far
\* end cannot put the message together any more.
Receipt(r, what, frames) ==
  IF r.state = "failed"
  THEN IF what = "acked" THEN [r EXCEPT !.acked = r.acked + 1] ELSE r
  ELSE CASE what = "sent"   -> [r EXCEPT !.state = "sent"]
         [] what = "failed" -> [r EXCEPT !.state = "failed"]
         [] what = "acked"  ->
              [state |-> IF r.acked + 1 >= frames THEN "delivered" ELSE "sent",
               acked |-> r.acked + 1]

\* _on_tx_state for a text; a repetition is reported like the first copy.
TxState(a, m, what) ==
  msg' = [msg EXCEPT ![m] =
            IF Recipient(msg[m], a) = {} THEN msg[m]
            ELSE LET p == CHOOSE p \in Recipient(msg[m], a) : TRUE
                 IN  WithReceipt(msg[m], p,
                                 Receipt(msg[m].rcpt[p], what, Frames[m]))]

Transmit(a, m) ==
  /\ Open(a) /\ engine[a].queued[m] > 0
  /\ engine' = [engine EXCEPT ![a].queued[m] = @ - 1, ![a].sent[m] = @ + 1]
  /\ TxState(a, m, "sent")
  /\ UNCHANGED <<book, waiting, jobs, active, late, offer, got, adrift, misled, moves>>

Retransmit(a, m) ==
  /\ Open(a) /\ engine[a].sent[m] > 0
  /\ TxState(a, m, "sent")
  /\ UNCHANGED <<book, waiting, jobs, active, engine, late, offer, got, adrift, misled, moves>>

Acknowledged(a, m) ==
  /\ Open(a) /\ engine[a].sent[m] > 0
  /\ engine' = [engine EXCEPT ![a].sent[m] = @ - 1]
  /\ got' = [got EXCEPT ![m] = [p \in Peers |->
                                  IF p \in At(a) THEN got[m][p] + 1
                                  ELSE got[m][p]]]
  /\ TxState(a, m, "acked")
  /\ UNCHANGED <<book, waiting, jobs, active, late, offer, adrift, misled, moves>>

GivenUp(a, m) ==
  /\ engine[a].sent[m] > 0
  /\ engine' = [engine EXCEPT ![a].sent[m] = @ - 1]
  /\ TxState(a, m, "failed")
  /\ UNCHANGED <<book, waiting, jobs, active, late, offer, got, adrift, misled, moves>>

\* Mutant: a transfer that failed goes on blocking its address.
MutantTxFileDone(a, ok) ==
  LET f    == engine[a].file
      p    == CHOOSE p \in DOMAIN msg[f].rcpt : TRUE
      done == [Mail EXCEPT
                 !.msg[f] = WithReceipt(msg[f], p,
                   [msg[f].rcpt[p] EXCEPT
                      !.state = IF ok THEN "delivered" ELSE "failed"]),
                 !.engine[a].file = NoFile,
                 !.active[a] = IF ok THEN NoFile ELSE active[a]]
  IN  /\ Open(a) /\ f # NoFile
      /\ \E c \in {StartNextFile(done, at, approved)} : Becomes(c)
      /\ got' = [got EXCEPT ![f] = [q \in Peers |->
                                      IF ok /\ q \in At(a) THEN 1 ELSE got[f][q]]]
      /\ UNCHANGED <<book, late, offer, adrift, misled, moves>>

\* The receipt of a file, whose only recipient it is whatever the address.
TxFileDone(a, ok) ==
  LET f    == engine[a].file
      p    == CHOOSE p \in DOMAIN msg[f].rcpt : TRUE
      done == [Mail EXCEPT
                 !.msg[f] = WithReceipt(msg[f], p,
                   [msg[f].rcpt[p] EXCEPT
                      !.state = IF ok THEN "delivered" ELSE "failed"]),
                 !.engine[a].file = NoFile,
                 !.active[a] = IF active[a] = f THEN NoFile ELSE active[a]]
  IN  /\ Open(a) /\ f # NoFile
      /\ \E c \in {StartNextFile(done, at, approved)} : Becomes(c)
      /\ got' = [got EXCEPT ![f] = [q \in Peers |->
                                      IF ok /\ q \in At(a) THEN 1 ELSE got[f][q]]]
      /\ UNCHANGED <<book, late, offer, adrift, misled, moves>>

-----------------------------------------------------------------------------
Next ==
  \/ Tick
  \/ \E m \in Msgs : Submit(m) \/ TimePasses(m)
  \/ \E p \in Peers : Approve(p) \/ Withdraw(p) \/ SweepPeers(p)
  \/ \E p \in Peers, a \in Addrs : OnBeacon(p, a)
  \/ \E a \in Addrs, m \in Texts :
       Transmit(a, m) \/ Retransmit(a, m) \/ Acknowledged(a, m) \/ GivenUp(a, m)
  \/ \E a \in Addrs, ok \in BOOLEAN : TxFileDone(a, ok)

Spec == Init /\ [][Next]_vars

Clock == \E m \in Msgs : TimePasses(m)

Link ==
  \/ \E a \in Addrs, m \in Texts :
       Transmit(a, m) \/ Acknowledged(a, m) \/ GivenUp(a, m)
  \/ \E a \in Addrs, ok \in BOOLEAN : TxFileDone(a, ok)

\* The tick runs every 10 ms, WAIT_LIMIT passes, and the link settles what it
\* was given.
FairSpec == Spec /\ WF_vars(Tick) /\ WF_vars(Clock) /\ WF_vars(Link)

-----------------------------------------------------------------------------
(***************************************************************************)
(* Properties.  Four of them leave out messages, those of which the code   *)
(* breaks the docstring of _release_addr.  When a node moves, _on_beacon   *)
(* forgets who had the old address before releasing it (1237-1238): what   *)
(* was aboard there stays open for ever, and the next file for the node    *)
(* starts to the old address and counts as received by the node whoever    *)
(* answers there.  All of these are adrift, such files are misled too.     *)
(* ReleasedAsPromised is the docstring, and the code does not keep it.     *)
(***************************************************************************)
EngineType ==
  [queued : [Texts -> Nat], sent : [Texts -> Nat], file : Files \cup {NoFile}]

MessageOK(message) ==
  /\ message.state \in {"unsent", "waiting", "queued", "sent", "sending"} \cup Final
  /\ DOMAIN message.rcpt \subseteq Peers
  /\ \A p \in DOMAIN message.rcpt :
       /\ message.rcpt[p].state \in {"queued", "sent", "delivered", "failed"}
       /\ message.rcpt[p].acked \in Nat

TypeOK ==
  /\ at \in [Peers -> Addrs \cup {NoAddr}]
  /\ \A p, q \in Peers : at[p] = at[q] /\ p # q => at[p] = NoAddr
  /\ known \subseteq Peers /\ present \subseteq known /\ approved \subseteq Peers
  /\ DOMAIN msg = Msgs /\ \A m \in Msgs : MessageOK(msg[m])
  /\ waiting \subseteq Texts /\ jobs \subseteq Files
  /\ active \in [Addrs -> Files \cup {NoFile}]
  /\ engine \in [Addrs -> EngineType]
  /\ late \subseteq Msgs /\ offer \subseteq Msgs
  /\ misled \subseteq adrift /\ adrift \subseteq Msgs
  /\ got \in [Msgs -> [Peers -> Nat]] /\ moves \in Nat

\* "Delivered" means what it says: the node named by the receipt, and not one
\* that holds or held its address, has acknowledged every frame (a file: has
\* confirmed it), and all recipients have when the message says so
\* (_on_tx_state, _rcpt).  Not so of the misled.
DeliveredIsComplete ==
  \A m \in Msgs \ misled : \A p \in DOMAIN msg[m].rcpt :
    msg[m].state = "delivered" \/ msg[m].rcpt[p].state = "delivered"
      => got[m][p] = Frames[m]

\* No message stays open for nothing: one without a verdict still waits for its
\* node, or every recipient without a verdict is at an address whose engine
\* holds part of it (_release_addr).  Not so of the adrift.
OpenHasCause ==
  \A m \in Msgs \ adrift :
    msg[m].state \notin Final \cup {"unsent"} =>
      \/ m \in waiting \cup jobs
      \/ /\ \E p \in DOMAIN msg[m].rcpt : msg[m].rcpt[p].state \notin Final
         /\ \A p \in DOMAIN msg[m].rcpt :
              msg[m].rcpt[p].state \notin Final =>
                at[p] # NoAddr /\ m \in Aboard(Mail, at[p])

\* What an engine holds is for the node that has its address now, not for
\* whoever holds it next (_release_addr).  Not so of the misled.
NothingForOthers ==
  \A a \in Addrs : \A m \in Aboard(Mail, a) \ misled :
    \E p \in DOMAIN msg[m].rcpt : at[p] = a

\* _active_tx blocks an address exactly as long as the engine there sends that
\* file, however the transfer ends: report, release, revocation.
ActiveIsSending == \A a \in Addrs : active[a] = engine[a].file

\* A verdict once shown is never taken back, for a message or for one of its
\* recipients: in r5.1 a later acknowledged frame revived a failed text.
VerdictsFinal ==
  [][\A m \in Msgs :
       /\ msg[m].state \in Final => msg'[m].state = msg[m].state
       /\ \A p \in DOMAIN msg[m].rcpt :
            msg[m].rcpt[p].state \in Final =>
              /\ p \in DOMAIN msg'[m].rcpt
              /\ msg'[m].rcpt[p].state = msg[m].rcpt[p].state]_vars

\* Every message submitted gets its verdict, except those adrift: they never do.
VerdictsCome ==
  []<>(\A m \in Msgs : msg[m].state \in Final \cup {"unsent"} \/ m \in adrift)

\* The docstring of _release_addr: "Used when a node moves to another address,
\* another node takes one over, or a key is revoked.  Messages still queued for
\* it are failed rather than silently delivered to whoever holds the address
\* next."  When a node leaves or loses its address, or its key is revoked, what
\* was aboard for it has its verdict, and unless another node is there nothing is
\* aboard any more.
ReleasedAsPromised ==
  [][\A p \in Peers : \A a \in {at[p]} \ {NoAddr} :
       at'[p] # a \/ p \in approved \ approved' =>
         /\ \A m \in Aboard(Mail, a) : p \in DOMAIN msg[m].rcpt =>
              msg'[m].rcpt[p].state \in Final
         /\ (\A q \in Peers \ {p} : at'[q] # a) => Aboard(Mail', a) = {}]_vars
=============================================================================
