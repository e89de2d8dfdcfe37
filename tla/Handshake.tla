------------------------------ MODULE Handshake ------------------------------
(***************************************************************************)
(* The secure sessions of two mesh nodes (SecureLink in bpsk_secure.py):   *)
(* a handshake of two frames, confirmed by the first sealed frame, with    *)
(* retries, the tie-break of crossing handshakes, rekeying, the boot id    *)
(* that announces a restart, and resynchronisation when the peer keeps     *)
(* using a session this node does not hold.                                *)
(*                                                                         *)
(* A key agreement is identified by its initiation and by the lives (the   *)
(* boot ids) of its two ends; a frame is opened exactly by an end that     *)
(* holds the session it was sealed under.  Clocks are abstracted: a timer  *)
(* that the code sets well beyond the round trip elapses freely once what  *)
(* it waits for can no longer come, and before that at the cost of one     *)
(* fault.                                                                  *)
(***************************************************************************)
EXTENDS Integers, Sequences, FiniteSets

CONSTANTS
  Resync,      \* RESYNC_UNKNOWN: frames on unknown sessions that force a handshake
  MaxFaults,   \* bound: losses, early timeouts, restarts, revocations, absences,
               \* and sessions that grow too old, together
  MaxStamp     \* bound: initiations of one node

ASSUME HandshakeAssumption ==
  /\ Resync \in Nat \ {0}
  /\ MaxFaults \in Nat
  /\ MaxStamp \in Nat

Node == {1, 2}          \* addresses; their order decides a crossing
Peer(n) == 3 - n

\* A session: who initiated it, under which timestamp, between which lives.
Session == [by : Node, ts : Nat \ {0}, life : [Node -> Nat \ {0}]]
NoSession == [by |-> 1, ts |-> 0, life |-> [m \in Node |-> 0]]

Frame ==      [kind : {"init"}, ts : Nat \ {0}, boot : Nat \ {0}]
         \cup [kind : {"resp", "sealed"}, s : Session]

VARIABLES
  life,      \* boot_id of the running process, as the number of its starts
  clock,     \* hs_ts in node.state: the last timestamp used, kept by a restart
  init,      \* _Peer.init: timestamp of the initiation in flight, 0 for none
  cur,       \* _Peer.current
  prev,      \* _Peer.previous
  pend,      \* _Peer.pending_resp
  held,      \* pend is younger than resp_holdoff()
  due,       \* cur has passed REKEY_AFTER (the responder's: plus 120 s)
  wait,      \* what next_try waits for: nothing, a retry, or the rekey time
  seen,      \* _init_ts of the peer's key
  boot,      \* _Peer.boot_id, 0 for None
  unknown,   \* _Peer.unknown, up to Resync
  trusts,    \* the peer's key is approved, and the peer is in self.peers
  paused,    \* _Peer.paused
  air,       \* frames sent and neither received nor lost, per sender
  faults,    \* faults left
  confirmed  \* history: the sessions whose initiator has finished them

timers == <<held, due, wait>>
vars == <<life, clock, init, cur, prev, pend, timers, seen, boot, unknown,
          trusts, paused, air, faults, confirmed>>

Init ==
  /\ life = [n \in Node |-> 1]
  /\ clock = [n \in Node |-> 0]
  /\ init = [n \in Node |-> 0]
  /\ cur = [n \in Node |-> NoSession]
  /\ prev = [n \in Node |-> NoSession]
  /\ pend = [n \in Node |-> NoSession]
  /\ held = [n \in Node |-> FALSE]
  /\ due = [n \in Node |-> FALSE]
  /\ wait = [n \in Node |-> "ready"]
  /\ seen = [n \in Node |-> 0]
  /\ boot = [n \in Node |-> 0]
  /\ unknown = [n \in Node |-> 0]
  /\ trusts = [n \in Node |-> TRUE]
  /\ paused = [n \in Node |-> FALSE]
  /\ air = [n \in Node |-> <<>>]
  /\ faults = MaxFaults
  /\ confirmed = {}

-----------------------------------------------------------------------------
\* by_idx: the sessions a node can open a frame of.
Holds(n, s) == s \in {cur[n], prev[n], pend[n]} /\ s # NoSession

InAir(n, P(_)) == \E i \in DOMAIN air[n] : P(air[n][i])

Sealed(s) == [kind |-> "sealed", s |-> s]

\* n takes the next frame of its peer off the air, and may send one in return.
Taken(n) == [air EXCEPT ![Peer(n)] = Tail(air[Peer(n)])]
Replied(n, g) ==
  [m \in Node |-> IF m = n THEN Append(air[m], g) ELSE Tail(air[m])]

Fault == faults > 0 /\ faults' = faults - 1

\* A timer elapses: at no cost once the awaited frame cannot come any more.
Elapse(coming) == IF coming THEN Fault ELSE UNCHANGED faults

-----------------------------------------------------------------------------
\* The boot id a node announces.  (Mutant: drawn anew for every handshake.)
MutantBootIdPerHandshake(n) == clock[n]
BootId(n) == life[n]

\* on_tick -> _start_init.  (Mutant: without the resynchronisation of r6.1.)
MutantDueWithoutResync(n) == cur[n] = NoSession \/ due[n]
Due(n) == cur[n] = NoSession \/ due[n] \/ unknown[n] >= Resync

Answering(n) == pend[n] # NoSession /\ held[n]

\* next_hs_timestamp, past every earlier one.  (Mutant: the one on disk.)
MutantStoredStamp(n) == clock[n]
NextStamp(n) == clock[n] + 1

Start(n) ==
  /\ trusts[n] /\ ~paused[n]
  /\ Due(n) /\ ~Answering(n) /\ wait[n] = "ready"
  /\ clock[n] < MaxStamp
  /\ clock' = [clock EXCEPT ![n] = NextStamp(n)]
  /\ init' = [init EXCEPT ![n] = NextStamp(n)]
  /\ wait' = [wait EXCEPT ![n] = "retry"]
  /\ air' = [air EXCEPT ![n] = Append(air[n],
               [kind |-> "init", ts |-> NextStamp(n), boot |-> BootId(n)])]
  /\ UNCHANGED <<life, cur, prev, pend, held, due, seen, boot, unknown,
                 trusts, paused, faults, confirmed>>

\* A node with a current session keeps using it (data, ACKs, keep-alives);
\* one sealed frame in the air stands for any number.
Transmit(n) ==
  /\ cur[n] # NoSession
  /\ ~InAir(n, LAMBDA f : f = Sealed(cur[n]))
  /\ air' = [air EXCEPT ![n] = Append(air[n], Sealed(cur[n]))]
  /\ UNCHANGED <<life, clock, init, cur, prev, pend, timers, seen, boot,
                 unknown, trusts, paused, faults, confirmed>>

-----------------------------------------------------------------------------
\* _check_boot: the peer's boot id is noted, and its sessions of an earlier life
\* end.  (Mutants: noted once only; sessions kept.)
MutantNoteFirstBoot(n, b) ==
  boot' = [boot EXCEPT ![n] = IF boot[n] = 0 THEN b ELSE boot[n]]
NoteBoot(n, b) == boot' = [boot EXCEPT ![n] = b]

MutantKeepSession(n, s, b) == s
AfterBoot(n, s, b) == IF boot[n] \notin {0, b} THEN NoSession ELSE s

\* _promote: the session that was current stays readable as the previous one.
\* c and v are the current and previous session it finds.
Promote(n, s, c, v) ==
  /\ cur' = [cur EXCEPT ![n] = s]
  /\ prev' = [prev EXCEPT ![n] = IF c \in {NoSession, s} THEN v ELSE c]
  /\ due' = [due EXCEPT ![n] = FALSE]
  /\ unknown' = [unknown EXCEPT ![n] = 0]

\* The end of _on_init: the new session waits for the initiator to use it.
\* (Mutant: used at once.)
MutantUseAtOnce(n, s, c, v) ==
  /\ Promote(n, s, c, v)
  /\ UNCHANGED <<pend, held>>
Offer(n, s, c, v) ==
  /\ pend' = [pend EXCEPT ![n] = s]
  /\ held' = [held EXCEPT ![n] = TRUE]
  /\ cur' = [cur EXCEPT ![n] = c]
  /\ prev' = [prev EXCEPT ![n] = v]
  /\ due' = [due EXCEPT ![n] = due[n] /\ c # NoSession]
  /\ UNCHANGED unknown

\* _on_init of a trusted initiator: answered once per timestamp.  When both ends
\* have initiated, the higher address abandons its own attempt.
Answer(n, f) ==
  LET s == [by |-> Peer(n), ts |-> f.ts,
            life |-> [m \in Node |-> IF m = n THEN BootId(n) ELSE f.boot]]
  IN /\ f.kind = "init" /\ trusts[n] /\ f.ts > seen[n]
     /\ seen' = [seen EXCEPT ![n] = f.ts]
     /\ NoteBoot(n, f.boot)
     /\ init' = [init EXCEPT ![n] = IF n > Peer(n) THEN 0 ELSE init[n]]
     /\ Offer(n, s, AfterBoot(n, cur[n], f.boot), AfterBoot(n, prev[n], f.boot))
     /\ air' = Replied(n, [kind |-> "resp", s |-> s])
     /\ UNCHANGED <<wait, confirmed>>

\* _on_resp to the initiation in flight, confirmed by a sealed keep-alive.
Finish(n, f) ==
  /\ f.kind = "resp" /\ trusts[n] /\ init[n] # 0 /\ f.s.ts = init[n]
  /\ LET b == f.s.life[Peer(n)]
     IN /\ NoteBoot(n, b)
        /\ Promote(n, f.s, AfterBoot(n, cur[n], b), AfterBoot(n, prev[n], b))
  /\ init' = [init EXCEPT ![n] = 0]
  /\ wait' = [wait EXCEPT ![n] = "rekey"]
  /\ confirmed' = confirmed \cup {f.s}
  /\ air' = Replied(n, Sealed(f.s))
  /\ UNCHANGED <<pend, held, seen>>

\* _open on a session this node holds: the first one confirms a pending session.
Open(n, f) ==
  /\ f.kind = "sealed" /\ Holds(n, f.s)
  /\ IF f.s = pend[n]
     THEN /\ Promote(n, f.s, cur[n], prev[n])
          /\ pend' = [pend EXCEPT ![n] = NoSession]
          /\ held' = [held EXCEPT ![n] = FALSE]
     ELSE UNCHANGED <<cur, prev, pend, due, held, unknown>>
  /\ air' = Taken(n)
  /\ UNCHANGED <<init, wait, seen, boot, confirmed>>

\* p.unknown, of which only the values up to Resync are told apart.
Count(n) == IF unknown[n] < Resync THEN unknown[n] + 1 ELSE Resync

\* _open on any other session: the peer is to be met with a new handshake.
Miss(n, f) ==
  /\ f.kind = "sealed" /\ ~Holds(n, f.s)
  /\ IF trusts[n]
     THEN /\ unknown' = [unknown EXCEPT ![n] = Count(n)]
          /\ wait' = [wait EXCEPT ![n] =
                        IF init[n] = 0 THEN "ready" ELSE wait[n]]
     ELSE UNCHANGED <<unknown, wait>>
  /\ air' = Taken(n)
  /\ UNCHANGED <<init, cur, prev, pend, held, due, seen, boot, confirmed>>

\* A handshake frame that is stale, refused or from an unapproved key.
Ignore(n, f) ==
  /\ \/ f.kind = "init" /\ ~(trusts[n] /\ f.ts > seen[n])
     \/ f.kind = "resp" /\ ~(trusts[n] /\ init[n] # 0 /\ f.s.ts = init[n])
  /\ air' = Taken(n)
  /\ UNCHANGED <<init, cur, prev, pend, timers, seen, boot, unknown, confirmed>>

Handle(n, f) ==
  Answer(n, f) \/ Finish(n, f) \/ Open(n, f) \/ Miss(n, f) \/ Ignore(n, f)

Receive(n) ==
  /\ air[Peer(n)] # <<>>
  /\ Handle(n, Head(air[Peer(n)]))
  /\ UNCHANGED <<life, clock, trusts, paused, faults>>

-----------------------------------------------------------------------------
\* Timers.  The answer to n's initiation may still come:
AnswerComing(n) ==
  \/ InAir(n, LAMBDA f : f.kind = "init" /\ f.ts = init[n])
  \/ InAir(Peer(n), LAMBDA f : f.kind = "resp" /\ f.s.ts = init[n])

\* The confirmation of the session n has answered may still come:
ConfirmationComing(n) ==
  \/ InAir(n, LAMBDA f : f.kind = "resp" /\ f.s = pend[n])
  \/ InAir(Peer(n), LAMBDA f : f = Sealed(pend[n]))

\* The last frames on the session n has replaced may still come: the peer has
\* replaced it too, or is about to because its confirmation is in the air.
StragglerComing(n) ==
  IF cur[Peer(n)] = prev[n]
  THEN InAir(n, LAMBDA f : f = Sealed(pend[Peer(n)]))
  ELSE InAir(Peer(n), LAMBDA f : f = Sealed(prev[n]))

\* A retry while the answer is on its way, or to a peer that would refuse it.
RetryTimeout(n) ==
  /\ wait[n] = "retry"
  /\ Elapse((init[n] # 0 /\ AnswerComing(n)) \/ ~trusts[Peer(n)])
  /\ wait' = [wait EXCEPT ![n] = "ready"]
  /\ UNCHANGED <<life, clock, init, cur, prev, pend, held, due, seen, boot,
                 unknown, trusts, paused, air, confirmed>>

\* next_try, set REKEY_AFTER ahead by a session that is gone or was replaced
\* by one of the peer's; nudge() brings it forward when there is no session.
RekeyTime(n) ==
  /\ wait[n] = "rekey" /\ (cur[n] = NoSession \/ cur[n].by # n)
  /\ wait' = [wait EXCEPT ![n] = "ready"]
  /\ UNCHANGED <<life, clock, init, cur, prev, pend, held, due, seen, boot,
                 unknown, trusts, paused, air, faults, confirmed>>

HoldoffTimeout(n) ==
  /\ Answering(n)
  /\ Elapse(ConfirmationComing(n))
  /\ held' = [held EXCEPT ![n] = FALSE]
  /\ UNCHANGED <<life, clock, init, cur, prev, pend, due, wait, seen, boot,
                 unknown, trusts, paused, air, confirmed>>

PendingTimeout(n) ==
  /\ pend[n] # NoSession /\ ~held[n]
  /\ Elapse(ConfirmationComing(n))
  /\ pend' = [pend EXCEPT ![n] = NoSession]
  /\ UNCHANGED <<life, clock, init, cur, prev, timers, seen, boot, unknown,
                 trusts, paused, air, confirmed>>

PrevTimeout(n) ==
  /\ prev[n] # NoSession
  /\ Elapse(StragglerComing(n))
  /\ prev' = [prev EXCEPT ![n] = NoSession]
  /\ UNCHANGED <<life, clock, init, cur, pend, timers, seen, boot, unknown,
                 trusts, paused, air, confirmed>>

\* A current session becomes due for rekeying, and long after that expires.
Age(n) ==
  /\ cur[n] # NoSession /\ Fault
  /\ IF due[n]
     THEN /\ cur' = [cur EXCEPT ![n] = NoSession]      \* REJECT_AFTER
          /\ due' = [due EXCEPT ![n] = FALSE]
          /\ UNCHANGED wait
     ELSE /\ due' = [due EXCEPT ![n] = TRUE]           \* REKEY_AFTER
          /\ wait' = [wait EXCEPT ![n] =
                        IF wait[n] = "rekey" THEN "ready" ELSE wait[n]]
          /\ UNCHANGED cur
  /\ UNCHANGED <<life, clock, init, prev, pend, held, seen, boot, unknown,
                 trusts, paused, air, confirmed>>

-----------------------------------------------------------------------------
\* What the operator, the range and the power supply do.
Lose(n) ==
  /\ air[n] # <<>> /\ Fault
  /\ air' = [air EXCEPT ![n] = Tail(air[n])]
  /\ UNCHANGED <<life, clock, init, cur, prev, pend, timers, seen, boot,
                 unknown, trusts, paused, confirmed>>

\* A node's volatile state about its peer is gone.
Forgotten(n) ==
  /\ init' = [init EXCEPT ![n] = 0]
  /\ cur' = [cur EXCEPT ![n] = NoSession]
  /\ prev' = [prev EXCEPT ![n] = NoSession]
  /\ pend' = [pend EXCEPT ![n] = NoSession]
  /\ held' = [held EXCEPT ![n] = FALSE]
  /\ due' = [due EXCEPT ![n] = FALSE]
  /\ wait' = [wait EXCEPT ![n] = "ready"]
  /\ boot' = [boot EXCEPT ![n] = 0]
  /\ unknown' = [unknown EXCEPT ![n] = 0]
  /\ paused' = [paused EXCEPT ![n] = FALSE]

\* The process starts again; timestamps and approvals are on disk.
Restart(n) ==
  /\ Fault
  /\ Forgotten(n)
  /\ life' = [life EXCEPT ![n] = life[n] + 1]
  /\ seen' = [seen EXCEPT ![n] = 0]
  /\ UNCHANGED <<clock, trusts, air, confirmed>>

\* _set_trust(off) -> forget: the timestamp guard of the key stays.
Revoke(n) ==
  /\ Fault /\ trusts[n]
  /\ Forgotten(n)
  /\ trusts' = [trusts EXCEPT ![n] = FALSE]
  /\ UNCHANGED <<life, clock, seen, air, confirmed>>

\* _set_trust(on) -> add_peer.
Approve(n) ==
  /\ ~trusts[n]
  /\ trusts' = [trusts EXCEPT ![n] = TRUE]
  /\ UNCHANGED <<life, clock, init, cur, prev, pend, timers, seen, boot,
                 unknown, paused, air, faults, confirmed>>

\* _set_present(FALSE) -> pause: no beacon of the peer for a while.
Pause(n) ==
  /\ Fault /\ trusts[n] /\ ~paused[n]
  /\ paused' = [paused EXCEPT ![n] = TRUE]
  /\ UNCHANGED <<life, clock, init, cur, prev, pend, timers, seen, boot,
                 unknown, trusts, air, confirmed>>

Resume(n) ==
  /\ paused[n]
  /\ paused' = [paused EXCEPT ![n] = FALSE]
  /\ UNCHANGED <<life, clock, init, cur, prev, pend, timers, seen, boot,
                 unknown, trusts, air, faults, confirmed>>

-----------------------------------------------------------------------------
Tick(n) == Start(n) \/ RetryTimeout(n) \/ RekeyTime(n)

Expire(n) == HoldoffTimeout(n) \/ PendingTimeout(n)

Return(n) == Approve(n) \/ Resume(n)

Next ==
  \E n \in Node :
    \/ Tick(n) \/ Expire(n) \/ PrevTimeout(n) \/ Age(n)
    \/ Transmit(n) \/ Receive(n) \/ Lose(n)
    \/ Restart(n) \/ Revoke(n) \/ Pause(n) \/ Return(n)

Spec == Init /\ [][Next]_vars

\* Ticks and received frames keep coming, a node keeps using its session, a
\* revoked peer is approved again and an absent one comes back into range.
Fairness ==
  \A n \in Node :
    /\ WF_vars(Tick(n)) /\ WF_vars(Expire(n)) /\ WF_vars(PrevTimeout(n))
    /\ WF_vars(Transmit(n)) /\ WF_vars(Receive(n)) /\ WF_vars(Return(n))

FairSpec == Spec /\ Fairness

-----------------------------------------------------------------------------
Sessions == Session \cup {NoSession}

TypeOK ==
  /\ life \in [Node -> Nat \ {0}]
  /\ clock \in [Node -> 0 .. MaxStamp]
  /\ init \in [Node -> 0 .. MaxStamp]
  /\ cur \in [Node -> Sessions]
  /\ prev \in [Node -> Sessions]
  /\ pend \in [Node -> Sessions]
  /\ held \in [Node -> BOOLEAN]
  /\ due \in [Node -> BOOLEAN]
  /\ wait \in [Node -> {"ready", "retry", "rekey"}]
  /\ seen \in [Node -> Nat]
  /\ boot \in [Node -> Nat]
  /\ unknown \in [Node -> 0 .. Resync]
  /\ trusts \in [Node -> BOOLEAN]
  /\ paused \in [Node -> BOOLEAN]
  /\ air \in [Node -> Seq(Frame)]
  /\ faults \in 0 .. MaxFaults
  /\ confirmed \subseteq Session

\* A responder does not transmit on a new session until the initiator has used
\* it (bpsk_secure.py:35-38): whatever is lost, repeated too early or crossed,
\* the session a node transmits on is one its initiator has finished.
ConfirmedByInitiator ==
  \A n \in Node : cur[n] # NoSession => cur[n] \in confirmed

\* What a node opens is from the life of its peer it knows of (_check_boot): the
\* link has been reset for that life before the first of its frames arrives.
OpensKnownLife ==
  \A n \in Node :
    LET q == air[Peer(n)]
    IN (q # <<>> /\ Head(q).kind = "sealed" /\ Holds(n, Head(q).s))
         => Head(q).s.life[Peer(n)] = boot[n]

\* The sessions a node transmits on or still reads are of the life it runs in
\* and of the life of the peer it knows of.
BootMatches ==
  \A n \in Node : \A s \in {cur[n], prev[n]} :
    s # NoSession => s.life[n] = life[n] /\ s.life[Peer(n)] = boot[n]

\* The link is reset for a restart (peer_restarted) only when the peer really
\* has restarted: the known life of a peer never goes back and never runs ahead.
ResetOnlyOnRestart ==
  [][\A n \in Node : boot[n] # 0 /\ boot'[n] # boot[n] =>
       boot'[n] = 0 \/ (boot'[n] > boot[n] /\ boot'[n] <= life[Peer(n)])]_vars

\* Both ends transmit on the same session.
Agreed == cur[1] # NoSession /\ cur[1] = cur[2]

\* Once losses, restarts, revocations and ageing have ended, the two ends settle on
\* one session and keep it, however their handshakes have crossed.
Converges == <>[]Agreed
=============================================================================
