------------------------- MODULE MCSelectiveRepeat -------------------------
(***************************************************************************)
(* Instances of SelectiveRepeat for TLC.                                   *)
(*                                                                         *)
(* MCInit starts from any number s of Starts: the state A and B are in     *)
(* after s payloads went through without loss, all acknowledged and handed *)
(* up and nothing in the air.  It is a reachable state of Spec, and with s *)
(* just below SeqMod a handful of payloads more take the sequence numbers  *)
(* through their wrap.  submitted counts from there.                       *)
(*                                                                         *)
(* A restart begins again at 0 whatever the number was, so only runs from  *)
(* 0 have restarts, and one payload less.  Epochs are only compared, so    *)
(* that it does not matter which is first.                                 *)
(***************************************************************************)
EXTENDS SelectiveRepeat

CONSTANT Starts

MCInit ==
  \E s \in Starts :
    /\ queue = 0 /\ next = s /\ outq = Empty
    /\ epoch = CHOOSE e \in Epochs : TRUE
    /\ syncLeft = 0 /\ clock = 0
    /\ rx = [known |-> s > 0, epoch |-> epoch, base |-> s, buf |-> Empty,
             got |-> [n \in 0..(s - 1) |-> n]]
    /\ ackDue = FALSE /\ heard = s
    /\ air = {} /\ sacks = << >>
    /\ acked = 0..(s - 1) /\ gaveUp = {} /\ first = 0 /\ stale = FALSE
    /\ submitted = IF s = 0 THEN 1 ELSE 0
    /\ lives = IF s = 0 THEN 1 ELSE MaxLives

MCSpec == MCInit /\ [][Next]_vars
MCRestartSpec == MCInit /\ [][Next \/ RestartNext]_vars
MCDropSpec == MCInit /\ [][Next \/ DropPeer]_vars

(***************************************************************************)
(* Two states with the same View have the same future and, where the       *)
(* invariants hold so far, agree on them.  Only the order of transmissions *)
(* matters, so a stamp is replaced by its rank.  Of the past, what is      *)
(* still undecided matters: the last payload handed up (a later one must   *)
(* be above it), the acknowledged ones not handed up yet, and the given up *)
(* ones above the last one handed up.                                      *)
(***************************************************************************)
Stamps == {outq[n].sent : n \in DOMAIN outq} \cup {f.sent : f \in air}
Rank(t) == Cardinality({u \in Stamps : u < t})
Handed == ImageOf(rx.got)

View ==
  <<queue, next, epoch, syncLeft, ackDue, heard, sacks, first, stale, submitted,
    lives,
    [n \in DOMAIN outq |-> [outq[n] EXCEPT !.sent = Rank(@)]],
    {[f EXCEPT !.sent = Rank(@)] : f \in air},
    [rx EXCEPT !.got = {m \in Handed : \A n \in Handed : n <= m}],
    acked \ Handed,
    {n \in gaveUp : \A m \in Handed : n > m}>>

=============================================================================
