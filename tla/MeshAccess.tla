----------------------------- MODULE MeshAccess -----------------------------
(***************************************************************************)
(* How the nodes of the mesh divide the channels and the addresses among   *)
(* themselves without a coordinator: ChannelManager and AddressManager of  *)
(* bpsk_mac.py, the beacon handler of bpsk_app.py that feeds both, and the *)
(* address book it keeps.                                                  *)
(*                                                                         *)
(* Every node hears every other one.  Levels, CRC failures and decoded     *)
(* frames are one observation, "another transmitter on this channel".      *)
(* A new carrier is invisible until it has passed the buffers, and so is   *)
(* one that is silent for a check: claiming its channel then is a race,    *)
(* and the races are bounded.  A node in FULL is one that still listens.   *)
(***************************************************************************)
EXTENDS Integers, FiniteSets, Sequences, FiniteSetsExt

CONSTANTS
  N,           \* nodes, in the order of their identities
  K,           \* num_channels
  Derive,      \* derive_address(identity, 0), (identity, 1), ... per node
  MaxFaults    \* bound: races for a channel, false alarms, checks that saw
               \* nothing, restarts, together

Node == 1 .. N
Channel == 1 .. K
Addr == UNION {{Derive[n][i] : i \in DOMAIN Derive[n]} : n \in Node}

\* The last is an assumption about the mesh, which the code does not ensure: of
\* the addresses a node derives it reaches one that no other node ever derives.
\* derive_address has 254 values, and when all of them are known _next_free
\* searches for ever.
ASSUME MeshAssumption ==
  /\ N \in Nat \ {0} /\ K \in Nat \ {0} /\ MaxFaults \in Nat
  /\ Derive \in [Node -> Seq(Nat \ {0})]
  /\ \A n \in Node :
       /\ Derive[n] # <<>>
       /\ \A m \in Node \ {n} : \A i \in DOMAIN Derive[m] :
            Derive[m][i] # Derive[n][Len(Derive[n])]

VARIABLES
  state,       \* ChannelManager.state: listen (and full), active or silent
  chan,        \* ChannelManager.channel, 0 for None
  avoid,       \* ChannelManager.avoid
  collision,   \* ChannelManager.collision is not None
  claimed,     \* ChannelManager.claims > 0
  carrier,     \* the transmission has come through to the receivers
  linger,      \* channels left so recently that they may count as busy
  idx,         \* AddressManager.n, kept by a restart
  known,       \* AddressManager.known: the node heard under an address, or 0
  at,          \* peers[..]["addr"]: the address of a node, or 0
  who,         \* _by_addr: the node at an address, or 0
  faults       \* faults left

radio == <<state, chan, avoid, collision, claimed, carrier, linger>>
book == <<known, at, who>>
vars == <<radio, idx, book, faults>>

addr(n) == Derive[n][idx[n]]

Init ==
  /\ state = [n \in Node |-> "listen"]
  /\ chan = [n \in Node |-> 0]
  /\ avoid = [n \in Node |-> {}]
  /\ collision = [n \in Node |-> FALSE]
  /\ claimed = [n \in Node |-> FALSE]
  /\ carrier = [n \in Node |-> FALSE]
  /\ linger = {}
  /\ idx = [n \in Node |-> 1]
  /\ known = [n \in Node |-> [a \in Addr |-> 0]]
  /\ at = [n \in Node |-> [m \in Node |-> 0]]
  /\ who = [n \in Node |-> [a \in Addr |-> 0]]
  /\ faults = MaxFaults

-----------------------------------------------------------------------------
Holders(k) == {n \in Node : chan[n] = k}
OnAir(n) == state[n] = "active" /\ carrier[n]
Heard(k) == \E n \in Holders(k) : OnAir(n)

\* Another node is transmitting on n's channel.
Shared(n) == \E m \in Holders(chan[n]) \ {n} : OnAir(m)

Fault == faults > 0 /\ faults' = faults - 1
At(cost) == IF cost THEN Fault ELSE UNCHANGED faults

-----------------------------------------------------------------------------
\* What a node may have heard within BUSY_HOLD.
Busy ==
  {busy \in SUBSET Channel :
     /\ \A k \in Channel : Heard(k) => k \in busy
     /\ \A k \in busy : Holders(k) # {} \/ k \in linger}

Free(n, busy) ==
  LET free == Channel \ busy
  IN IF free \ avoid[n] # {} THEN free \ avoid[n] ELSE free

\* tick in LISTEN or FULL; without a free channel the node goes on listening.
Claim(n) ==
  /\ state[n] = "listen"
  /\ \E busy \in Busy : \E k \in Free(n, busy) :
       /\ At(Holders(k) # {})
       /\ chan' = [chan EXCEPT ![n] = k]
  /\ state' = [state EXCEPT ![n] = "active"]
  /\ avoid' = [avoid EXCEPT ![n] = {}]
  /\ claimed' = [claimed EXCEPT ![n] = TRUE]
  /\ UNCHANGED <<collision, carrier, linger, idx, book>>

\* The transmission reaches the receivers; BUSY_HOLD passes.
Appear(n) ==
  /\ state[n] = "active" /\ ~carrier[n]
  /\ carrier' = [carrier EXCEPT ![n] = TRUE]
  /\ UNCHANGED <<state, chan, avoid, collision, claimed, linger, idx, book,
                 faults>>

Fade(k) ==
  /\ k \in linger
  /\ linger' = linger \ {k}
  /\ UNCHANGED <<state, chan, avoid, collision, claimed, carrier, idx, book,
                 faults>>

\* tick in ACTIVE: a silence check begins.
StartCheck(n) ==
  /\ state[n] = "active" /\ carrier[n]
  /\ state' = [state EXCEPT ![n] = "silent"]
  /\ carrier' = [carrier EXCEPT ![n] = FALSE]
  /\ collision' = [collision EXCEPT ![n] = FALSE]
  /\ UNCHANGED <<chan, avoid, claimed, linger, idx, book, faults>>

\* What a check sees.  (Mutant: nothing, as on a host that lags its samples.)
MutantSeesNothing(n) == FALSE
Seen(n) == Shared(n)

\* energy and bad during a check; frames damaged by something else are a fault.
Notice(n) ==
  /\ state[n] = "silent" /\ ~collision[n]
  /\ At(~Seen(n))
  /\ collision' = [collision EXCEPT ![n] = TRUE]
  /\ UNCHANGED <<state, chan, avoid, claimed, carrier, linger, idx, book>>

\* tick in SILENT: the check ends without having seen another transmitter, which
\* is a fault if there was one: a check that got no samples may end as clear.
Clear(n) ==
  /\ state[n] = "silent" /\ ~collision[n]
  /\ At(Seen(n))
  /\ state' = [state EXCEPT ![n] = "active"]
  /\ UNCHANGED <<chan, avoid, collision, claimed, carrier, linger, idx, book>>

\* tick in SILENT, and in ACTIVE when a frame has backdated a check: _leave.
\* (Mutant: the channel is kept.)
MutantLeaveKeeping(n) == UNCHANGED chan
GiveUp(n) == chan' = [chan EXCEPT ![n] = 0]

Leave(n) ==
  /\ state[n] = "silent" /\ collision[n]
  /\ state' = [state EXCEPT ![n] = "listen"]
  /\ avoid' = [avoid EXCEPT ![n] = {chan[n]}]
  /\ linger' = linger \cup {chan[n]}
  /\ GiveUp(n)
  /\ collision' = [collision EXCEPT ![n] = FALSE]
  /\ UNCHANGED <<claimed, carrier, idx, book, faults>>

-----------------------------------------------------------------------------
\* heard: on the channel n transmits on.  A frame under n's own address counts
\* as its echo; then the identity in the beacon decides, and the larger yields.
Reported(n, m) ==
  /\ state[n] \in {"active", "silent"} /\ chan[n] = chan[m]
  /\ addr(m) # addr(n) \/ m < n

\* While transmitting, a frame that comes through is a collision at once; early
\* in a check (_clean_from) it does not count.
React(n, m) ==
  IF Reported(n, m)
  THEN /\ collision' \in {[collision EXCEPT ![n] = TRUE]}
                         \cup (IF state[n] = "silent" THEN {collision} ELSE {})
       /\ state' = [state EXCEPT ![n] = "silent"]
       /\ carrier' = [carrier EXCEPT ![n] = FALSE]
  ELSE UNCHANGED <<collision, state, carrier>>

\* AddressManager.on_beacon.  (Mutant: an active node never yields.)
MutantYieldsListening(n, m) == addr(m) = addr(n) /\ ~claimed[n]
Yields(n, m) == addr(m) = addr(n) /\ ~(claimed[n] /\ n < m)

\* _next_free.  (Mutant: the next one, known or not.)
MutantNextUnchecked(n, kn) == idx[n] + 1
NextFree(n, kn) ==
  Min({i \in DOMAIN Derive[n] : i > idx[n] /\ kn[Derive[n][i]] \in {0, n}})

\* _by_addr without the old address of m.  (Mutant: still with it.)
MutantKeepOld(n, m) == who[n]
WithoutOld(n, m) ==
  LET old == at[n][m]
  IN IF old # 0 /\ who[n][old] = m THEN [who[n] EXCEPT ![old] = 0] ELSE who[n]

\* The address book of _on_beacon: m has moved, or has taken over an address.
Note(n, m) ==
  LET a == addr(m)
      w == WithoutOld(n, m)
  IN IF at[n][m] = a THEN UNCHANGED <<at, who>>
     ELSE /\ who' = [who EXCEPT ![n] = [w EXCEPT ![a] = m]]
          /\ at' = [at EXCEPT ![n] =
                      [x \in Node |-> IF x = m THEN a
                                      ELSE IF x = w[a] THEN 0 ELSE at[n][x]]]

\* on_rx, _on_beacon: a beacon of m reaches n.
Beacon(n, m) ==
  /\ n # m /\ OnAir(m)
  /\ React(n, m)
  /\ LET kn == [known[n] EXCEPT ![addr(m)] = m]
     IN /\ known' = [known EXCEPT ![n] = kn]
        /\ idx' = [idx EXCEPT ![n] =
                     IF Yields(n, m) THEN NextFree(n, kn) ELSE idx[n]]
  /\ Note(n, m)
  /\ UNCHANGED <<chan, avoid, claimed, linger, faults>>

\* A node is switched off and on again; idx is on disk.
Restart(n) ==
  /\ Fault
  /\ linger' = linger \cup ({chan[n]} \ {0})
  /\ state' = [state EXCEPT ![n] = "listen"]
  /\ chan' = [chan EXCEPT ![n] = 0]
  /\ avoid' = [avoid EXCEPT ![n] = {}]
  /\ collision' = [collision EXCEPT ![n] = FALSE]
  /\ claimed' = [claimed EXCEPT ![n] = FALSE]
  /\ carrier' = [carrier EXCEPT ![n] = FALSE]
  /\ known' = [known EXCEPT ![n] = [a \in Addr |-> 0]]
  /\ at' = [at EXCEPT ![n] = [m \in Node |-> 0]]
  /\ who' = [who EXCEPT ![n] = [a \in Addr |-> 0]]
  /\ UNCHANGED idx

-----------------------------------------------------------------------------
Tick(n) == Claim(n) \/ StartCheck(n) \/ Clear(n) \/ Leave(n)

Hear(n) == \E m \in Node : Beacon(n, m)
HearClean(n) == \E m \in Node : ~Shared(m) /\ Beacon(n, m)

Next ==
  \/ \E n \in Node : Tick(n) \/ Appear(n) \/ Notice(n) \/ Hear(n) \/ Restart(n)
  \/ \E k \in Channel : Fade(k)

Spec == Init /\ [][Next]_vars

\* Ticks go on and carriers come through.  Checks begin at random times, so that
\* they do not coincide for ever; of the beacons that collide with no other
\* transmission, one that says something new comes through sooner or later.
Fairness ==
  /\ \A n \in Node :
       /\ WF_vars(Tick(n) \/ Appear(n))
       /\ SF_vars(Notice(n)) /\ SF_vars(HearClean(n))
  /\ WF_vars(\E k \in Channel : Fade(k))

FairSpec == Spec /\ Fairness

-----------------------------------------------------------------------------
TypeOK ==
  /\ state \in [Node -> {"listen", "active", "silent"}]
  /\ chan \in [Node -> Channel \cup {0}]
  /\ avoid \in [Node -> SUBSET Channel]
  /\ collision \in [Node -> BOOLEAN]
  /\ claimed \in [Node -> BOOLEAN]
  /\ carrier \in [Node -> BOOLEAN]
  /\ linger \subseteq Channel
  /\ idx \in [Node -> Nat \ {0}]
  /\ \A n \in Node : idx[n] \in DOMAIN Derive[n]
  /\ known \in [Node -> [Addr -> Node \cup {0}]]
  /\ at \in [Node -> [Node -> Addr \cup {0}]]
  /\ who \in [Node -> [Addr -> Node \cup {0}]]
  /\ faults \in 0 .. MaxFaults
  /\ \A n \in Node : chan[n] = 0 <=> state[n] = "listen"

\* The two directions of the address book agree, whoever moves, takes over an
\* address or restarts: a frame to an address goes to the node shown there.
BookConsistent ==
  \A n, m \in Node : \A a \in Addr : who[n][a] = m <=> at[n][m] = a

\* A node keeps an address it knows another node to use only if that one has to
\* move: of two nodes that know of each other, never both keep it.
KeepsByRight ==
  \A n \in Node :
    LET m == known[n][addr(n)]
    IN m \notin {0, n} => claimed[n] /\ n < m

Holding == {n \in Node : chan[n] # 0}

\* No two nodes transmit on one channel, and none waits while one is free.
Divided ==
  /\ \A n, m \in Holding : chan[n] = chan[m] => n = m
  /\ Cardinality(Holding) = IF N < K THEN N ELSE K

\* However nodes have claimed the same channel, restarted or taken fright, the
\* channels are divided in the end and stay so.
Separates == <>[]Divided

\* No two transmitting nodes have one address, and every node knows theirs.
AddressesKnown ==
  \A m \in Holding :
    /\ \A n \in Holding \ {m} : addr(n) # addr(m)
    /\ \A n \in Node \ {m} : at[n][m] = addr(m) /\ who[n][addr(m)] = m

\* Addresses that collide are taken apart, and every address book follows.
AddressesSettle == <>[]AddressesKnown
=============================================================================
