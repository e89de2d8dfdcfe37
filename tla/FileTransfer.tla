---------------------------- MODULE FileTransfer ----------------------------
(***************************************************************************)
(* The file transfer of the mesh radio: the part of LinkState that sends a *)
(* file as a header, fragments and an end mark, repairs what the receiver  *)
(* names in a NACK, and ends with the receiver's verdict.  Two nodes send  *)
(* files to each other at the same time.                                   *)
(*                                                                         *)
(* Below it is the Selective Repeat link, one direction per node, taken at *)
(* the promise of DeliveryService: items are handed up in order and at     *)
(* most once; an item is acknowledged only when the other end has it; one  *)
(* that was given up, or withdrawn, may still arrive or be passed over.    *)
(*                                                                         *)
(* Every handler ends in _pump, which may send nothing for lack of airtime *)
(* and is repeated every tick; Pump is that step, so no handler below      *)
(* sends by itself.  An entry is handed up, acknowledged or given up one   *)
(* at a time; a SACK or a gap that closes does several in a row.           *)
(*                                                                         *)
(* A fragment is its file's content at an index, and a CRC is the data it  *)
(* was computed from: different data, different CRCs.  All files have one  *)
(* name; the metadata, which carries a message id and a time, tells        *)
(* transfers apart and is the file itself here.                            *)
(***************************************************************************)
EXTENDS Integers, FiniteSets, Sequences

CONSTANTS
  Nodes,      \* the two ends of the link
  Files,      \* the files that may be sent
  Origin,     \* the node that sends each file
  Size,       \* the number of its fragments
  Content,    \* what is in it
  Offers,     \* the sets of files the applications may want to send in a run
  MaxRounds,  \* rounds of a transfer (max_file_rounds, 8)
  MaxNack,    \* fragments named by one NACK (MAX_NACK_INDICES, 120)
  Window,     \* send window of the link
  MaxLost,    \* bound: items given up by the link over the whole run
  MaxOutages, \* bound: ticks without a session while a verdict is awaited
  MaxLives    \* bound: lives of a node

ASSUME NodesAssumption == IsFiniteSet(Nodes) /\ Cardinality(Nodes) = 2

ASSUME FilesAssumption ==
  /\ Origin \in [Files -> Nodes]
  /\ Size \in [Files -> Nat \ {0}]
  /\ Offers \subseteq SUBSET Files

ASSUME NoneAssumption == "none" \notin Files

ASSUME LimitsAssumption ==
  /\ MaxRounds \in Nat \ {0} /\ MaxNack \in Nat \ {0} /\ Window \in Nat \ {0}
  /\ MaxLost \in Nat /\ MaxOutages \in Nat /\ MaxLives \in Nat \ {0}

VARIABLES
  hi,       \* replies waiting to be sent (txq_hi)
  bulk,     \* own file items waiting to be sent (txq)
  out,      \* items on their way, in the order of their numbers
  tx,       \* the transfer this node sends (tx_file)
  rx,       \* the transfer this node receives (rx_file)
  last,     \* its last complete one (rx_last)
  verdict,  \* history: what the application was told about each file
  written,  \* history: the files put together at the receivers
  lives,    \* history: lives of each node
  lost, outages

vars == <<hi, bulk, out, tx, rx, last, verdict, written, lives, lost, outages>>

Nobody == [file |-> "none"]

Peer(n) == CHOOSE m \in Nodes : m # n

----------------------------------------------------------------------------
\* Items

Header(f)   == [kind |-> "start", file |-> f]
Fragment(f, i) == [kind |-> "data", file |-> f, index |-> i]
EndMark(f)  == [kind |-> "end", file |-> f]
Nack(S)     == [kind |-> "nack", missing |-> S]
Done(ok, c) == [kind |-> "done", ok |-> ok, crc |-> c]

\* The members of a set of numbers in ascending order.
InOrder(S) ==
  [k \in 1..Cardinality(S) |->
     CHOOSE i \in S : Cardinality({j \in S : j < i}) = k - 1]

Fragments(f, S) ==
  LET s == InOrder(S) IN [k \in DOMAIN s |-> Fragment(f, s[k])]

Indices(f) == 0..(Size[f] - 1)

\* The whole transfer, as queued at its start and after a lost header.
WholeFile(f) == <<Header(f)>> \o Fragments(f, Indices(f)) \o <<EndMark(f)>>

\* The data of f, index by index: also its CRC.
FileData(f) == [i \in Indices(f) |-> Content[f]]

\* An older NACK still waiting is superseded; there is never more than one.
WithoutNack(q) ==
  IF \A i \in DOMAIN q : q[i].kind # "nack" THEN q
  ELSE LET p == CHOOSE i \in DOMAIN q : q[i].kind = "nack"
       IN  SubSeq(q, 1, p - 1) \o SubSeq(q, p + 1, Len(q))

----------------------------------------------------------------------------
(***************************************************************************)
(* Entries of the link.  The state of an entry joins what both ends know:  *)
(*   open    the sender waits for an acknowledgement, not handed up        *)
(*   passed  the sender waits for an acknowledgement, handed up            *)
(*   acked   acknowledged, held at the receiver behind a gap               *)
(*   lost    the sender has given it up; it may still be handed up         *)
(*   gone    settled at both ends, kept only while entries before it stand *)
(***************************************************************************)
Outstanding(o) == {k \in DOMAIN o : o[k].state \in {"open", "passed"}}

\* The entries without the leading ones that are settled.
Trim(o) ==
  LET front == {k \in DOMAIN o : \A i \in 1..k : o[i].state = "gone"}
  IN  SubSeq(o, Cardinality(front) + 1, Len(o))

\* The entries of o in S change their state, from s to new[s].
Settled(o, S, new) ==
  Trim([k \in DOMAIN o |-> IF k \in S THEN [o[k] EXCEPT !.state = new[@]]
                           ELSE o[k]])

Acked(o, k) == Settled(o, {k}, [open |-> "acked", passed |-> "gone"])

GivenUp(o, S) == Settled(o, S, [open |-> "lost", passed |-> "gone"])

\* Entry k is handed up; what was given up before it is passed over.
HandedUp(o, k) ==
  Settled(o, {i \in 1..k : i = k \/ o[i].state = "lost"},
          [open |-> "passed", acked |-> "gone", lost |-> "gone"])

\* The receiver starts anew: it holds nothing and has had nothing.
Forgotten(o) ==
  Settled(o, {k \in DOMAIN o : o[k].state # "gone"},
          [open |-> "open", passed |-> "open", acked |-> "gone", lost |-> "gone"])

\* Mutant: the purge also withdraws the replies owed to the peer.
MutantOwnEntriesAll(o) == Outstanding(o)


OwnEntries(o) == {k \in Outstanding(o) : o[k].bulk}

\* The window reaches from the oldest outstanding entry to the next number.
Room(n) == \A k \in Outstanding(out[n]) : Len(out[n]) + 1 - k < Window

----------------------------------------------------------------------------
Init ==
  /\ hi = [n \in Nodes |-> << >>] /\ bulk = [n \in Nodes |-> << >>]
  /\ out = [n \in Nodes |-> << >>]
  /\ tx = [n \in Nodes |-> Nobody] /\ rx = [n \in Nodes |-> Nobody]
  /\ last = [n \in Nodes |-> Nobody]
  /\ \E S \in Offers : verdict = [f \in Files |-> IF f \in S THEN "unsent"
                                                ELSE "withheld"]
  /\ written = << >>
  /\ lives = [n \in Nodes |-> 1]
  /\ lost = 0 /\ outages = 0

\* The application starts the transfer of f when no other one is under way.
SendFile(n, f) ==
  /\ Origin[f] = n /\ verdict[f] = "unsent"
  /\ tx[n] = Nobody
  /\ tx' = [tx EXCEPT ![n] = [file |-> f, round |-> 1, waiting |-> FALSE]]
  /\ bulk' = [bulk EXCEPT ![n] = @ \o WholeFile(f)]
  /\ verdict' = [verdict EXCEPT ![f] = "sending"]
  /\ UNCHANGED <<hi, out, rx, last, written, lives, lost, outages>>

\* The link takes the next item, replies first, while its window has room.
Pump(n) ==
  /\ Room(n)
  /\ \/ /\ hi[n] # << >>
        /\ hi' = [hi EXCEPT ![n] = Tail(@)]
        /\ out' = [out EXCEPT ![n] = Append(@, [item |-> Head(hi[n]),
                                     bulk |-> FALSE, state |-> "open"])]
        /\ UNCHANGED bulk
     \/ /\ hi[n] = << >> /\ bulk[n] # << >>
        /\ bulk' = [bulk EXCEPT ![n] = Tail(@)]
        /\ out' = [out EXCEPT ![n] = Append(@, [item |-> Head(bulk[n]),
                                     bulk |-> TRUE, state |-> "open"])]
        /\ UNCHANGED hi
  /\ UNCHANGED <<tx, rx, last, verdict, written, lives, lost, outages>>

\* The receiver has entry k, and the sender learns it.
Ack(n, k) ==
  /\ k \in Outstanding(out[n])
  /\ out' = [out EXCEPT ![n] = Acked(@, k)]
  /\ UNCHANGED <<hi, bulk, tx, rx, last, verdict, written, lives, lost, outages>>

----------------------------------------------------------------------------
\* The ways a transfer ends or goes on at its sender; o is out as the caller
\* leaves it.

\* The queue and the window lose what is left of the transfer of n, and only
\* that: the replies n owes its peer stay.
Purge(n, o, more) ==
  /\ bulk' = [bulk EXCEPT ![n] = more]
  /\ out' = [o EXCEPT ![n] = GivenUp(@, OwnEntries(@))]

Ends(n, how) ==
  /\ verdict' = [verdict EXCEPT ![tx[n].file] = how]
  /\ tx' = [tx EXCEPT ![n] = Nobody]

\* Mutant: a repetition does not count as a round.
MutantNextRoundFree(n) ==
  /\ tx' = [tx EXCEPT ![n].waiting = FALSE]
  /\ UNCHANGED verdict


NextRound(n) ==
  /\ tx' = [tx EXCEPT ![n] = [file |-> tx[n].file, round |-> tx[n].round + 1,
                               waiting |-> FALSE]]
  /\ UNCHANGED verdict

\* Mutant: one round too many.
MutantLastRoundLate(n) == tx[n].round > MaxRounds


LastRound(n) == tx[n].round >= MaxRounds

\* The header was given up: the receiver cannot receive the file.  It starts
\* over, unless it has done so too often.
RestartFile(n, o) ==
  IF LastRound(n)
  THEN Ends(n, "failed") /\ Purge(n, o, << >>)
  ELSE NextRound(n) /\ Purge(n, o, WholeFile(tx[n].file))

\* Entry k has used up its retransmissions.
GiveUp(n, k) ==
  /\ lost < MaxLost /\ lost' = lost + 1
  /\ k \in Outstanding(out[n])
  /\ LET o == [out EXCEPT ![n] = GivenUp(@, {k})] IN
     IF out[n][k].item.kind = "start" /\ tx[n] # Nobody
     THEN RestartFile(n, o)
     ELSE out' = o /\ UNCHANGED <<bulk, tx, verdict>>
  /\ UNCHANGED <<hi, rx, last, written, lives, outages>>

----------------------------------------------------------------------------
\* The wait for the verdict.

\* Mutant: what is still in the window is not looked at.
MutantAllSentQueueOnly(n) == tx[n] # Nobody /\ bulk[n] = << >>

\* Everything of the transfer has left: nothing queued, nothing outstanding.
AllSent(n) ==
  /\ tx[n] # Nobody
  /\ bulk[n] = << >> /\ OwnEntries(out[n]) = {}

\* The wait begins.
Wait(n) ==
  /\ AllSent(n) /\ ~tx[n].waiting
  /\ tx' = [tx EXCEPT ![n].waiting = TRUE]
  /\ UNCHANGED <<hi, bulk, out, rx, last, verdict, written, lives, lost, outages>>

\* The verdict has not come in time: ask again, or give up.
Expire(n) ==
  /\ AllSent(n) /\ tx[n].waiting
  /\ IF LastRound(n)
     THEN Ends(n, "failed") /\ UNCHANGED bulk
     ELSE /\ NextRound(n)
          /\ bulk' = [bulk EXCEPT ![n] = @ \o <<EndMark(tx[n].file)>>]
  /\ UNCHANGED <<hi, out, rx, last, written, lives, lost, outages>>

\* A tick without a session: the wait starts again with the session.
NoSession(n) ==
  /\ outages < MaxOutages /\ outages' = outages + 1
  /\ tx[n] # Nobody /\ tx[n].waiting
  /\ tx' = [tx EXCEPT ![n].waiting = FALSE]
  /\ UNCHANGED <<hi, bulk, out, rx, last, verdict, written, lives, lost>>

----------------------------------------------------------------------------
\* Node n is handed an item.  Each handler says what becomes of all variables
\* but lives, lost and outages; o is out after the hand-over.

\* Mutant: the last complete transfer is not remembered.
MutantOnStartForgetsLast(n, item, o) ==
  /\ item.kind = "start"
  /\ rx' = IF item.file = rx[n].file THEN rx
           ELSE [rx EXCEPT ![n] = [file |-> item.file, frags |-> << >>]]
  /\ out' = o
  /\ UNCHANGED <<hi, bulk, tx, last, verdict, written>>

\* A header opens a transfer, unless it repeats the open or the last one.
OnStart(n, item, o) ==
  /\ item.kind = "start"
  /\ rx' = IF item.file \in {rx[n].file, last[n].file} THEN rx
           ELSE [rx EXCEPT ![n] = [file |-> item.file, frags |-> << >>]]
  /\ out' = o
  /\ UNCHANGED <<hi, bulk, tx, last, verdict, written>>

Put(data, i, c) ==
  [j \in DOMAIN data \cup {i} |-> IF j = i THEN c ELSE data[j]]

\* A fragment is stored into the open transfer.
OnData(n, item, o) ==
  /\ item.kind = "data"
  /\ rx' = IF rx[n] = Nobody \/ item.index >= Size[rx[n].file] THEN rx
           ELSE [rx EXCEPT ![n].frags = Put(@, item.index, Content[item.file])]
  /\ out' = o
  /\ UNCHANGED <<hi, bulk, tx, last, verdict, written>>

Missing(n) == Indices(rx[n].file) \ DOMAIN rx[n].frags

\* The first MaxNack of the missing indices.
Asked(n) ==
  {i \in Missing(n) : Cardinality({j \in Missing(n) : j < i}) < MaxNack}

\* The end mark: the transfer is complete, or has gaps, or was complete before.
OnEnd(n, item, o) ==
  /\ item.kind = "end"
  /\ LET want  == FileData(item.file)
         got   == rx[n].frags
         reply == Done(got = want, got)
     IN
     \/ /\ rx[n] = Nobody
        /\ hi' = IF last[n] # Nobody /\ last[n].want = want
                 THEN [hi EXCEPT ![n] = <<last[n].reply>> \o @] ELSE hi
        /\ UNCHANGED <<rx, last, written>>
     \/ /\ rx[n] # Nobody /\ Missing(n) # {}
        /\ hi' = [hi EXCEPT ![n] = <<Nack(Asked(n))>> \o WithoutNack(@)]
        /\ UNCHANGED <<rx, last, written>>
     \/ /\ rx[n] # Nobody /\ Missing(n) = {}
        /\ rx' = [rx EXCEPT ![n] = Nobody]
        /\ last' = [last EXCEPT ![n] =
                      [file |-> rx[n].file, want |-> want, reply |-> reply]]
        /\ hi' = [hi EXCEPT ![n] = <<reply>> \o @]
        /\ written' = Append(written, [file |-> rx[n].file, data |-> got,
                                       life |-> lives[n]])
  /\ out' = o
  /\ UNCHANGED <<bulk, tx, verdict>>

\* The receiver names gaps: they are sent again.  The NACK names no transfer.
OnNack(n, item, o) ==
  /\ item.kind = "nack"
  /\ LET again == IF tx[n] = Nobody THEN {}
                  ELSE item.missing \cap Indices(tx[n].file)
     IN
     IF again = {} THEN out' = o /\ UNCHANGED <<bulk, tx, verdict>>
     ELSE IF LastRound(n) THEN Ends(n, "failed") /\ Purge(n, o, << >>)
     ELSE /\ NextRound(n)
          /\ bulk' = [bulk EXCEPT ![n] = @ \o Fragments(tx[n].file, again)
                                          \o <<EndMark(tx[n].file)>>]
          /\ out' = o
  /\ UNCHANGED <<hi, rx, last, written>>

\* Mutant: the CRC of a good verdict is not looked at (as in r5).
MutantOnDoneAnyCrc(n, item, o) ==
  /\ item.kind = "done"
  /\ IF tx[n] = Nobody THEN out' = o /\ UNCHANGED <<bulk, tx, verdict>>
     ELSE Ends(n, IF item.ok THEN "ok" ELSE "failed") /\ Purge(n, o, << >>)
  /\ UNCHANGED <<hi, rx, last, written>>

\* The verdict.  It names no transfer; a good one for other data is ignored.
OnDone(n, item, o) ==
  /\ item.kind = "done"
  /\ IF tx[n] = Nobody \/ (item.ok /\ item.crc # FileData(tx[n].file))
     THEN out' = o /\ UNCHANGED <<bulk, tx, verdict>>
     ELSE Ends(n, IF item.ok THEN "ok" ELSE "failed") /\ Purge(n, o, << >>)
  /\ UNCHANGED <<hi, rx, last, written>>

\* The link hands entry k of n to the other end, in order.
Deliver(n, k) ==
  /\ k \in DOMAIN out[n] /\ out[n][k].state \in {"open", "acked", "lost"}
  /\ \A i \in 1..(k - 1) : out[n][i].state \in {"passed", "lost", "gone"}
  /\ LET item == out[n][k].item
         o    == [out EXCEPT ![n] = HandedUp(@, k)]
         m    == Peer(n)
     IN \/ OnStart(m, item, o) \/ OnData(m, item, o) \/ OnEnd(m, item, o)
        \/ OnNack(m, item, o)  \/ OnDone(m, item, o)
  /\ UNCHANGED <<lives, lost, outages>>

\* The program of n ends and starts again, and the two nodes agree on a new
\* session: n has nothing left, and its peer forgets what it was receiving.
Restart(n) ==
  /\ lives[n] < MaxLives /\ lives' = [lives EXCEPT ![n] = @ + 1]
  /\ hi' = [hi EXCEPT ![n] = << >>] /\ bulk' = [bulk EXCEPT ![n] = << >>]
  /\ out' = [m \in Nodes |-> IF m = n THEN << >> ELSE Forgotten(out[m])]
  /\ tx' = [tx EXCEPT ![n] = Nobody]
  /\ rx' = [m \in Nodes |-> Nobody]
  /\ last' = [last EXCEPT ![n] = Nobody]
  /\ verdict' = [f \in Files |-> IF f = tx[n].file THEN "forgotten"
                                 ELSE verdict[f]]
  /\ UNCHANGED <<written, lost, outages>>

----------------------------------------------------------------------------
Next ==
  \E n \in Nodes :
    \/ \E f \in Files : SendFile(n, f)
    \/ Pump(n)
    \/ \E k \in DOMAIN out[n] : Ack(n, k)
    \/ \E k \in DOMAIN out[n] : GiveUp(n, k)
    \/ \E k \in DOMAIN out[n] : Deliver(n, k)
    \/ Wait(n) \/ Expire(n) \/ NoSession(n)
    \/ Restart(n)

Spec == Init /\ [][Next]_vars

\* The tick sends what is queued, settles every entry and watches the wait.
Fairness ==
  \A n \in Nodes :
    /\ WF_vars(Pump(n))
    /\ WF_vars(\E k \in DOMAIN out[n] : Ack(n, k))
    /\ WF_vars(Wait(n)) /\ WF_vars(Expire(n))

FairSpec == Spec /\ Fairness

----------------------------------------------------------------------------
(***************************************************************************)
(* Properties                                                              *)
(***************************************************************************)
Items ==
  UNION {{Header(f), EndMark(f)} \cup {Fragment(f, i) : i \in Indices(f)} :
         f \in Files}

IsReply(item) ==
  \/ item.kind = "nack" /\ item.missing # {}
                        /\ Cardinality(item.missing) <= MaxNack
  \/ item.kind = "done" /\ item.ok \in BOOLEAN

\* Every variable has its kind of value; no transfer exceeds its rounds, and
\* at most one NACK waits in a queue (_on_nack, _restart_file, _finish_file).
TypeOK ==
  \A n \in Nodes :
    /\ \A i \in DOMAIN hi[n] : IsReply(hi[n][i])
    /\ Cardinality({i \in DOMAIN hi[n] : hi[n][i].kind = "nack"}) <= 1
    /\ \A i \in DOMAIN bulk[n] : bulk[n][i] \in Items
    /\ \A k \in DOMAIN out[n] :
         /\ out[n][k].state \in {"open", "passed", "acked", "lost", "gone"}
         /\ out[n][k].bulk => out[n][k].item \in Items
         /\ ~out[n][k].bulk => IsReply(out[n][k].item)
    /\ tx[n] # Nobody => /\ tx[n].file \in Files /\ Origin[tx[n].file] = n
                         /\ tx[n].round \in 1..MaxRounds
                         /\ tx[n].waiting \in BOOLEAN
    /\ rx[n] # Nobody => /\ rx[n].file \in Files
                         /\ DOMAIN rx[n].frags \subseteq Indices(rx[n].file)
    /\ last[n] # Nobody => last[n].file \in Files

\* A file the sender reports delivered has been put together completely by its
\* receiver: no leftover verdict of another transfer vouches for it (the CRC
\* test of _on_done, whose predecessor accepted any FILE_DONE).
OkIsComplete ==
  \A f \in Files : verdict[f] = "ok" =>
    \E i \in DOMAIN written : written[i].data = FileData(f)

\* One life of a receiver writes a transfer once, although headers and end
\* marks are repeated by restarts of the transfer and by rounds (_deliver and
\* _finish_file with rx_last).
WrittenOnce ==
  \A i, j \in DOMAIN written :
    i # j => \/ written[i].file # written[j].file
             \/ written[i].life # written[j].life

\* What a node has queued, or has on its way unsettled, of its own files
\* belongs to the transfer under way: nothing of an ended one is sent on into
\* the next (_purge_file_queue at every end, own_pending in on_tick).
NoLeftovers ==
  \A n \in Nodes :
    /\ \A i \in DOMAIN bulk[n] :
         tx[n] # Nobody /\ bulk[n][i].file = tx[n].file
    /\ \A k \in OwnEntries(out[n]) :
         tx[n] # Nobody /\ out[n][k].item.file = tx[n].file

\* The verdicts a node owes its peer survive whatever becomes of its own
\* transfer: one leaves the queue only to be sent, and is not withdrawn from
\* the window (the comment of _purge_file_queue on r5.1).
Verdicts(q) == {i \in DOMAIN q : q[i].kind = "done"}

Withdrawn(n) ==
  {k \in DOMAIN out[n] : out[n][k].item.kind = "done" /\ out[n][k].state = "lost"}

VerdictsKept ==
  [][\A n \in Nodes : lives' = lives =>
       /\ \/ Cardinality(Verdicts(hi[n])') >= Cardinality(Verdicts(hi[n]))
          \/ Pump(n)
       /\ Cardinality(Withdrawn(n)') > Cardinality(Withdrawn(n))
            => lost' > lost]_vars

\* No transfer lasts for ever: with lost verdicts, a peer that forgot it, and
\* outages it ends, because every repetition costs a round.
TransferEnds == \A n \in Nodes : tx[n] # Nobody ~> tx[n] = Nobody

\* Fragments in the open transfer are its own: "Its fragments must not be
\* reused" (_deliver on a header that follows an abandoned transfer).
FragmentsBelong ==
  \A n \in Nodes : rx[n] # Nobody =>
    \A i \in DOMAIN rx[n].frags : rx[n].frags[i] = Content[rx[n].file]

=============================================================================
