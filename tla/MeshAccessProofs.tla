-------------------------- MODULE MeshAccessProofs --------------------------
(***************************************************************************)
(* Proofs about MeshAccess for any number of nodes and channels and any    *)
(* derivation of addresses that ends, for every node, in one of its own    *)
(* (MeshAssumption, which the code does not ensure): type correctness, the *)
(* consistency of the address book, and the right by which a node keeps    *)
(* its address.                                                            *)
(***************************************************************************)
EXTENDS MeshAccess, TLAPS, WellFoundedInduction

----------------------------------------------------------------------------
\* What a node has heard under an address is another node that derives it.
KnownDerived ==
  \A n \in Node : \A a \in Addr :
    known[n][a] # 0 => /\ known[n][a] # n
                       /\ \E i \in DOMAIN Derive[known[n][a]] :
                            a = Derive[known[n][a]][i]

IInv == TypeOK /\ BookConsistent /\ KnownDerived /\ KeepsByRight

----------------------------------------------------------------------------
\* A non-empty set of natural numbers has a least element, and Min returns it.
LEMMA Least ==
  ASSUME NEW S, S \subseteq Nat, S # {}
  PROVE  Min(S) \in S /\ \A y \in S : Min(S) <= y
<1>1. \E x \in S : \A y \in S : ~(<<y, x>> \in OpToRel(<, Nat))
  BY NatLessThanWellFounded, WFMin
<1>2. PICK x \in S : \A y \in S : ~(<<y, x>> \in OpToRel(<, Nat))
  BY <1>1
<1>3. ASSUME NEW y \in S PROVE x <= y
  <2>1. ~(<<y, x>> \in OpToRel(<, Nat))
    BY <1>2
  <2>2. ~(y < x)
    BY <2>1 DEF OpToRel
  <2>. QED
    BY <2>2
<1>. QED
  BY <1>3 DEF Min

\* A position of the derivation gives an address.
LEMMA Derived ==
  ASSUME NEW n \in Node, NEW i \in DOMAIN Derive[n]
  PROVE  Derive[n][i] \in Addr
BY DEF Addr

\* The own address of a node is one of the addresses.
LEMMA OwnAddr ==
  ASSUME TypeOK, NEW n \in Node
  PROVE  addr(n) \in Addr
BY Derived DEF TypeOK, addr

----------------------------------------------------------------------------
\* Steps that leave the addresses and the books alone.
LEMMA BookKept ==
  ASSUME IInv, UNCHANGED <<idx, known, at, who>>,
         \A n \in Node : claimed[n] => claimed'[n]
  PROVE  BookConsistent' /\ KnownDerived' /\ KeepsByRight'
<1>1. BookConsistent'
  BY DEF IInv, BookConsistent
<1>2. KnownDerived'
  BY DEF IInv, KnownDerived
<1>3. KeepsByRight'
  BY DEF IInv, KeepsByRight, addr
<1>. QED
  BY <1>1, <1>2, <1>3

\* When m yields its address to no one, the positions left for it to take are
\* those behind the present one, and the last of them is free.
LEMMA NextFreeExists ==
  ASSUME MeshAssumption, IInv, NEW n \in Node, NEW m \in Node, n # m,
         addr(m) = addr(n), NEW kn, kn = [known[n] EXCEPT ![addr(m)] = m]
  PROVE  /\ NextFree(n, kn) \in DOMAIN Derive[n]
         /\ kn[Derive[n][NextFree(n, kn)]] \in {0, n}
<1>. DEFINE free == {i \in DOMAIN Derive[n] :
                       i > idx[n] /\ kn[Derive[n][i]] \in {0, n}}
            last == Len(Derive[n])
<1>. USE DEF IInv
<1>1. /\ Derive[n] \in Seq(Nat \ {0}) /\ Derive[m] \in Seq(Nat \ {0})
      /\ Derive[n] # <<>>
  BY DEF MeshAssumption
<1>2. last \in DOMAIN Derive[n] /\ DOMAIN Derive[n] = 1 .. last /\ last \in Nat
  BY <1>1
<1>3. idx[n] \in 1 .. last /\ idx[m] \in DOMAIN Derive[m]
  BY <1>2 DEF TypeOK
<1>4. Derive[n][last] # addr(m)
  BY <1>3 DEF MeshAssumption, addr
<1>5. idx[n] # last
  BY <1>4 DEF addr
<1>6. Derive[n][last] \in Addr
  BY <1>2, Derived
<1>7. kn[Derive[n][last]] = known[n][Derive[n][last]]
  BY <1>4, <1>6 DEF TypeOK
<1>8. known[n][Derive[n][last]] \in {0, n}
  <2>. SUFFICES ASSUME known[n][Derive[n][last]] \notin {0, n}
                PROVE  FALSE
    OBVIOUS
  <2>1. PICK d \in Addr : d = Derive[n][last]
    BY <1>6
  <2>2. known[n][d] \in Node /\ known[n][d] # n /\ known[n][d] # 0
    BY <2>1 DEF TypeOK
  <2>3. \E i \in DOMAIN Derive[known[n][d]] : d = Derive[known[n][d]][i]
    BY <2>2 DEF KnownDerived
  <2>. QED
    BY <2>1, <2>2, <2>3 DEF MeshAssumption
<1>9. last \in free
  BY <1>2, <1>3, <1>5, <1>7, <1>8
<1>10. free \subseteq Nat
  BY <1>2
<1>11. Min(free) \in free
  <2>. HIDE DEF free
  <2>. QED
    BY <1>9, <1>10, Least
<1>. QED
  BY <1>11 DEF NextFree

----------------------------------------------------------------------------
\* The address book after a beacon of m.
LEMMA NoteKeepsBook ==
  ASSUME MeshAssumption, TypeOK, BookConsistent,
         NEW n \in Node, NEW m \in Node, Note(n, m)
  PROVE  /\ at' \in [Node -> [Node -> Addr \cup {0}]]
         /\ who' \in [Node -> [Addr -> Node \cup {0}]]
         /\ BookConsistent'
<1>1. CASE at[n][m] = addr(m)
  BY <1>1 DEF Note, TypeOK, BookConsistent
<1>2. CASE at[n][m] # addr(m)
  <2>. DEFINE a == addr(m)
              w == WithoutOld(n, m)
              who1 == [w EXCEPT ![a] = m]
              at1 == [x \in Node |-> IF x = m THEN a
                                     ELSE IF x = w[a] THEN 0 ELSE at[n][x]]
  <2>1. a \in Addr
    BY OwnAddr
  <2>2. /\ at[n] \in [Node -> Addr \cup {0}]
        /\ who[n] \in [Addr -> Node \cup {0}]
    BY DEF TypeOK
  <2>3. \A x \in Node : \A b \in Addr : who[n][b] = x <=> at[n][x] = b
    BY DEF BookConsistent
  <2>4. 0 \notin Addr
    BY DEF MeshAssumption, Addr
  <2>4a. 0 \notin Node
    BY DEF Node
  <2>5. /\ w \in [Addr -> Node \cup {0}]
        /\ \A b \in Addr : w[b] # m
        /\ \A x \in Node \ {m} : \A b \in Addr : w[b] = x <=> who[n][b] = x
    <3>1. CASE at[n][m] # 0 /\ who[n][at[n][m]] = m
      BY <2>2, <2>3, <2>4, <2>4a, <3>1 DEF WithoutOld
    <3>2. CASE ~(at[n][m] # 0 /\ who[n][at[n][m]] = m)
      BY <2>2, <2>3, <2>4, <2>4a, <3>2 DEF WithoutOld
    <3>. QED
      BY <3>1, <3>2
  <2>6. who1 \in [Addr -> Node \cup {0}] /\ at1 \in [Node -> Addr \cup {0}]
    BY <2>1, <2>2, <2>5
  <2>7. ASSUME NEW x \in Node, NEW b \in Addr
        PROVE  who1[b] = x <=> at1[x] = b
    <3>. HIDE DEF w, a
    <3>0. who1[b] = (IF b = a THEN m ELSE w[b])
      BY <2>1, <2>5
    <3>1. CASE x = m
      BY <2>5, <3>0, <3>1
    <3>2. CASE x # m /\ x = w[a]
      <4>1. x \in Node \ {m} /\ w[a] = x /\ at1[x] = 0
        BY <2>1, <3>2
      <4>2. at[n][x] = a
        BY <2>1, <2>3, <2>5, <4>1
      <4>3. b # a => w[b] # x
        BY <2>3, <2>5, <4>1, <4>2
      <4>. QED
        BY <2>4, <3>0, <4>1, <4>3
    <3>3. CASE x # m /\ x # w[a]
      BY <2>1, <2>3, <2>4, <2>5, <3>0, <3>3
    <3>. QED
      BY <3>1, <3>2, <3>3
  <2>8. who' = [who EXCEPT ![n] = who1] /\ at' = [at EXCEPT ![n] = at1]
    BY <1>2 DEF Note
  <2>. HIDE DEF who1, at1, a, w
  <2>9. BookConsistent'
    <3>1. ASSUME NEW k \in Node, NEW x \in Node, NEW b \in Addr
          PROVE  who'[k][b] = x <=> at'[k][x] = b
      <4>1. CASE k = n
        BY <2>7, <2>8, <4>1 DEF TypeOK
      <4>2. CASE k # n
        BY <2>8, <4>2 DEF TypeOK, BookConsistent
      <4>. QED
        BY <4>1, <4>2
    <3>. QED
      BY <3>1 DEF BookConsistent
  <2>. QED
    BY <2>6, <2>8, <2>9 DEF TypeOK
<1>. QED
  BY <1>1, <1>2

----------------------------------------------------------------------------
LEMMA InitIInv ==
  ASSUME MeshAssumption, Init
  PROVE  IInv
<1>1. 0 \notin Addr /\ 0 \notin Node
  BY DEF MeshAssumption, Addr, Node
<1>2. TypeOK
  <2>1. \A n \in Node : 1 \in DOMAIN Derive[n]
    BY DEF MeshAssumption
  <2>2. MaxFaults \in 0 .. MaxFaults
    BY DEF MeshAssumption
  <2>. QED
    BY <2>1, <2>2 DEF Init, TypeOK
<1>3. BookConsistent
  BY <1>1 DEF Init, BookConsistent
<1>4. KnownDerived
  BY DEF Init, KnownDerived
<1>5. KeepsByRight
  <2>1. \A n \in Node : addr(n) \in Addr
    BY <1>2, OwnAddr
  <2>. QED
    BY <2>1 DEF Init, KeepsByRight
<1>. QED
  BY <1>2, <1>3, <1>4, <1>5 DEF IInv

\* A beacon and the whole of its handler.
LEMMA BeaconStep ==
  ASSUME MeshAssumption, IInv, NEW n \in Node, NEW m \in Node, Beacon(n, m)
  PROVE  IInv'
<1>. USE DEF IInv
<1>. DEFINE kn == [known[n] EXCEPT ![addr(m)] = m]
            pos == IF Yields(n, m) THEN NextFree(n, kn) ELSE idx[n]
<1>1. n # m /\ addr(m) \in Addr /\ addr(n) \in Addr
  BY OwnAddr DEF Beacon
<1>2. kn \in [Addr -> Node \cup {0}]
  BY <1>1 DEF TypeOK
<1>3. pos \in DOMAIN Derive[n]
  <2>1. CASE Yields(n, m)
    BY <1>1, <2>1, NextFreeExists DEF Yields
  <2>2. CASE ~Yields(n, m)
    BY <2>2 DEF TypeOK
  <2>. QED
    BY <2>1, <2>2
<1>4. Yields(n, m) => kn[Derive[n][pos]] \in {0, n}
  BY <1>1, NextFreeExists DEF Yields
<1>5. known' = [known EXCEPT ![n] = kn] /\ idx' = [idx EXCEPT ![n] = pos]
  BY DEF Beacon
<1>6. /\ UNCHANGED <<chan, avoid, claimed, linger, faults>>
      /\ Note(n, m) /\ React(n, m)
  BY DEF Beacon
<1>. HIDE DEF pos
<1>7. /\ at' \in [Node -> [Node -> Addr \cup {0}]]
      /\ who' \in [Node -> [Addr -> Node \cup {0}]]
      /\ BookConsistent'
  BY <1>6, NoteKeepsBook
<1>8. /\ state' \in [Node -> {"listen", "active", "silent"}]
      /\ collision' \in [Node -> BOOLEAN] /\ carrier' \in [Node -> BOOLEAN]
      /\ \A x \in Node : chan[x] = 0 <=> state'[x] = "listen"
  <2>1. CASE Reported(n, m)
    <3>1. state[n] # "listen" /\ state' = [state EXCEPT ![n] = "silent"]
      BY <1>6, <2>1 DEF React, Reported
    <3>2. carrier' = [carrier EXCEPT ![n] = FALSE]
      BY <1>6, <2>1 DEF React
    <3>3. collision' \in {[collision EXCEPT ![n] = TRUE], collision}
      BY <1>6, <2>1 DEF React
    <3>4. collision' \in [Node -> BOOLEAN] /\ carrier' \in [Node -> BOOLEAN]
      BY <3>2, <3>3 DEF TypeOK
    <3>. QED
      BY <3>1, <3>4 DEF TypeOK
  <2>2. CASE ~Reported(n, m)
    BY <1>6, <2>2 DEF React, TypeOK
  <2>. QED
    BY <2>1, <2>2
<1>9. \A x \in Node : idx'[x] \in DOMAIN Derive[x]
  BY <1>3, <1>5 DEF TypeOK
<1>10. known' \in [Node -> [Addr -> Node \cup {0}]]
  BY <1>2, <1>5 DEF TypeOK
<1>11. TypeOK'
  <2>1. pos \in Nat \ {0}
    BY <1>3 DEF MeshAssumption
  <2>2. idx' \in [Node -> Nat \ {0}]
    BY <1>5, <2>1 DEF TypeOK
  <2>. QED
    BY <1>6, <1>7, <1>8, <1>9, <1>10, <2>2 DEF TypeOK
<1>12. KnownDerived'
  <2>. SUFFICES ASSUME NEW x \in Node, NEW a \in Addr, known'[x][a] # 0
                PROVE  /\ known'[x][a] # x
                       /\ \E i \in DOMAIN Derive[known'[x][a]] :
                            a = Derive[known'[x][a]][i]
    BY DEF KnownDerived
  <2>1. CASE x = n /\ a = addr(m)
    <3>1. known'[x][a] = m
      BY <1>1, <1>5, <2>1 DEF TypeOK
    <3>2. idx[m] \in DOMAIN Derive[m] /\ a = Derive[m][idx[m]]
      BY <2>1 DEF TypeOK, addr
    <3>. QED
      BY <1>1, <2>1, <3>1, <3>2
  <2>2. CASE ~(x = n /\ a = addr(m))
    <3>1. known'[x][a] = known[x][a]
      BY <1>1, <1>5, <2>2 DEF TypeOK
    <3>. QED
      BY <3>1 DEF KnownDerived
  <2>. QED
    BY <2>1, <2>2
<1>13. KeepsByRight'
  <2>. SUFFICES ASSUME NEW x \in Node
                PROVE  LET y == known'[x][Derive[x][idx'[x]]]
                       IN y \notin {0, x} => claimed[x] /\ x < y
    BY <1>6 DEF KeepsByRight, addr
  <2>1. CASE x # n
    <3>1. known'[x] = known[x] /\ idx'[x] = idx[x]
      BY <1>5, <2>1 DEF TypeOK
    <3>. QED
      BY <3>1 DEF KeepsByRight, addr
  <2>2. CASE x = n /\ Yields(n, m)
    <3>1. known'[n] = kn
      BY <1>5 DEF TypeOK
    <3>2. idx'[n] = pos
      BY <1>5 DEF TypeOK
    <3>. QED
      BY <1>4, <2>2, <3>1, <3>2 DEF KeepsByRight, addr
  <2>3. CASE x = n /\ ~Yields(n, m)
    <3>1. idx'[n] = idx[n]
      BY <1>5, <2>3 DEF pos, TypeOK
    <3>2. known'[n] = kn
      BY <1>5 DEF TypeOK
    <3>3. CASE addr(m) = addr(n)
      <4>1. kn[addr(n)] = m
        BY <1>1, <3>3 DEF TypeOK
      <4>2. claimed[n] /\ n < m
        BY <2>3, <3>3 DEF Yields
      <4>. QED
        BY <2>3, <3>1, <3>2, <4>1, <4>2 DEF addr
    <3>4. CASE addr(m) # addr(n)
      <4>1. kn[addr(n)] = known[n][addr(n)]
        BY <1>1, <3>4 DEF TypeOK
      <4>. QED
        BY <2>3, <3>1, <3>2, <4>1 DEF KeepsByRight, addr
    <3>. QED
      BY <3>3, <3>4
  <2>. QED
    BY <2>1, <2>2, <2>3
<1>. QED
  BY <1>7, <1>11, <1>12, <1>13

\* A restarted node has an empty book.
LEMMA RestartStep ==
  ASSUME MeshAssumption, IInv, NEW n \in Node, Restart(n)
  PROVE  IInv'
<1>. USE DEF IInv
<1>1. 0 \notin Addr /\ 0 \notin Node
  BY DEF MeshAssumption, Addr, Node
<1>2. /\ known' = [known EXCEPT ![n] = [a \in Addr |-> 0]]
      /\ at' = [at EXCEPT ![n] = [m \in Node |-> 0]]
      /\ who' = [who EXCEPT ![n] = [a \in Addr |-> 0]]
      /\ claimed' = [claimed EXCEPT ![n] = FALSE]
      /\ UNCHANGED idx
  BY DEF Restart
<1>3. /\ known' \in [Node -> [Addr -> Node \cup {0}]]
      /\ at' \in [Node -> [Node -> Addr \cup {0}]]
      /\ who' \in [Node -> [Addr -> Node \cup {0}]]
      /\ claimed' \in [Node -> BOOLEAN]
  BY <1>2 DEF TypeOK
<1>4. /\ state' = [state EXCEPT ![n] = "listen"]
      /\ chan' = [chan EXCEPT ![n] = 0]
      /\ avoid' = [avoid EXCEPT ![n] = {}]
  BY DEF Restart
<1>5. /\ collision' = [collision EXCEPT ![n] = FALSE]
      /\ carrier' = [carrier EXCEPT ![n] = FALSE]
      /\ linger' \subseteq Channel /\ faults' \in 0 .. MaxFaults
  BY DEF Restart, Fault, TypeOK, MeshAssumption
<1>6. /\ state' \in [Node -> {"listen", "active", "silent"}]
      /\ chan' \in [Node -> Channel \cup {0}]
      /\ avoid' \in [Node -> SUBSET Channel]
      /\ \A x \in Node : chan'[x] = 0 <=> state'[x] = "listen"
  BY <1>4 DEF TypeOK
<1>7. collision' \in [Node -> BOOLEAN] /\ carrier' \in [Node -> BOOLEAN]
  BY <1>5 DEF TypeOK
<1>8. TypeOK'
  BY <1>2, <1>3, <1>5, <1>6, <1>7 DEF TypeOK
<1>9. BookConsistent'
  BY <1>1, <1>2 DEF TypeOK, BookConsistent
<1>10. KnownDerived'
  BY <1>2 DEF TypeOK, KnownDerived
<1>11. KeepsByRight'
  <2>. SUFFICES ASSUME NEW x \in Node
                PROVE  LET y == known'[x][addr(x)]
                       IN y \notin {0, x} => claimed'[x] /\ x < y
    BY <1>2 DEF KeepsByRight, addr
  <2>1. CASE x = n
    BY <1>2, <2>1, OwnAddr DEF TypeOK
  <2>2. CASE x # n
    BY <1>2, <2>2 DEF TypeOK, KeepsByRight
  <2>. QED
    BY <2>1, <2>2
<1>. QED
  BY <1>8, <1>9, <1>10, <1>11

\* The state machine of the channel manager.
LEMMA RadioStep ==
  ASSUME MeshAssumption, IInv, NEW n \in Node,
         Tick(n) \/ Appear(n) \/ Notice(n)
  PROVE  IInv'
<1>. USE DEF IInv
<1>1. UNCHANGED <<idx, known, at, who>>
  BY DEF Tick, Claim, StartCheck, Clear, Leave, Appear, Notice, book
<1>2. /\ claimed' \in [Node -> BOOLEAN]
      /\ \A x \in Node : claimed[x] => claimed'[x]
  <2>1. claimed' = claimed \/ claimed' = [claimed EXCEPT ![n] = TRUE]
    BY DEF Tick, Claim, StartCheck, Clear, Leave, Appear, Notice
  <2>. QED
    BY <2>1 DEF TypeOK
<1>3. faults' \in 0 .. MaxFaults
  BY DEF Tick, Claim, StartCheck, Clear, Leave, Appear, Notice, At, Fault,
         TypeOK, MeshAssumption
<1>4. TypeOK'
  <2>1. CASE Claim(n)
    <3>1. PICK k \in Channel : chan' = [chan EXCEPT ![n] = k]
      BY <2>1 DEF Claim, Free
    <3>2. /\ state' = [state EXCEPT ![n] = "active"]
          /\ avoid' = [avoid EXCEPT ![n] = {}]
          /\ UNCHANGED <<collision, carrier, linger>>
      BY <2>1 DEF Claim
    <3>3. k # 0
      BY <3>1 DEF Channel
    <3>4. /\ chan' \in [Node -> Channel \cup {0}]
          /\ state' \in [Node -> {"listen", "active", "silent"}]
          /\ avoid' \in [Node -> SUBSET Channel]
          /\ \A x \in Node : chan'[x] = 0 <=> state'[x] = "listen"
      BY <3>1, <3>2, <3>3 DEF TypeOK
    <3>. QED
      BY <1>1, <1>2, <1>3, <3>2, <3>4 DEF TypeOK
  <2>2. CASE StartCheck(n)
    <3>1. /\ state[n] = "active" /\ state' = [state EXCEPT ![n] = "silent"]
          /\ carrier' = [carrier EXCEPT ![n] = FALSE]
          /\ collision' = [collision EXCEPT ![n] = FALSE]
          /\ UNCHANGED <<chan, avoid, linger>>
      BY <2>2 DEF StartCheck
    <3>2. /\ state' \in [Node -> {"listen", "active", "silent"}]
          /\ \A x \in Node : chan'[x] = 0 <=> state'[x] = "listen"
      BY <3>1 DEF TypeOK
    <3>3. carrier' \in [Node -> BOOLEAN] /\ collision' \in [Node -> BOOLEAN]
      BY <3>1 DEF TypeOK
    <3>. QED
      BY <1>1, <1>2, <1>3, <3>1, <3>2, <3>3 DEF TypeOK
  <2>3. CASE Clear(n)
    <3>1. /\ state[n] = "silent" /\ state' = [state EXCEPT ![n] = "active"]
          /\ UNCHANGED <<chan, avoid, collision, carrier, linger>>
      BY <2>3 DEF Clear
    <3>2. /\ state' \in [Node -> {"listen", "active", "silent"}]
          /\ \A x \in Node : chan'[x] = 0 <=> state'[x] = "listen"
      BY <3>1 DEF TypeOK
    <3>. QED
      BY <1>1, <1>2, <1>3, <3>1, <3>2 DEF TypeOK
  <2>4. CASE Leave(n)
    <3>1. /\ state[n] = "silent" /\ state' = [state EXCEPT ![n] = "listen"]
          /\ chan' = [chan EXCEPT ![n] = 0]
          /\ avoid' = [avoid EXCEPT ![n] = {chan[n]}]
          /\ linger' = linger \cup {chan[n]}
          /\ collision' = [collision EXCEPT ![n] = FALSE]
          /\ UNCHANGED carrier
      BY <2>4 DEF Leave, GiveUp
    <3>2. chan[n] \in Channel
      BY <3>1 DEF TypeOK
    <3>3. /\ state' \in [Node -> {"listen", "active", "silent"}]
          /\ chan' \in [Node -> Channel \cup {0}]
          /\ avoid' \in [Node -> SUBSET Channel]
          /\ linger' \subseteq Channel
          /\ \A x \in Node : chan'[x] = 0 <=> state'[x] = "listen"
      BY <3>1, <3>2 DEF TypeOK
    <3>4. collision' \in [Node -> BOOLEAN]
      BY <3>1 DEF TypeOK
    <3>. QED
      BY <1>1, <1>2, <1>3, <3>1, <3>3, <3>4 DEF TypeOK
  <2>5. CASE Appear(n)
    <3>1. /\ carrier' = [carrier EXCEPT ![n] = TRUE]
          /\ UNCHANGED <<state, chan, avoid, collision, linger>>
      BY <2>5 DEF Appear
    <3>2. carrier' \in [Node -> BOOLEAN]
      BY <3>1 DEF TypeOK
    <3>. QED
      BY <1>1, <1>2, <1>3, <3>1, <3>2 DEF TypeOK
  <2>6. CASE Notice(n)
    <3>1. /\ collision' = [collision EXCEPT ![n] = TRUE]
          /\ UNCHANGED <<state, chan, avoid, carrier, linger>>
      BY <2>6 DEF Notice
    <3>2. collision' \in [Node -> BOOLEAN]
      BY <3>1 DEF TypeOK
    <3>. QED
      BY <1>1, <1>2, <1>3, <3>1, <3>2 DEF TypeOK
  <2>. QED
    BY <2>1, <2>2, <2>3, <2>4, <2>5, <2>6 DEF Tick
<1>. QED
  BY <1>1, <1>2, <1>4, BookKept

----------------------------------------------------------------------------
\* IInv is an invariant.
THEOREM Invariance == Spec => []IInv
<1>. USE MeshAssumption
<1>1. Init => IInv
  BY InitIInv
<1>2. IInv /\ [Next]_vars => IInv'
  <2>. SUFFICES ASSUME IInv, [Next]_vars PROVE IInv'
    OBVIOUS
  <2>1. ASSUME NEW n \in Node, Tick(n) \/ Appear(n) \/ Notice(n) PROVE IInv'
    BY <2>1, RadioStep
  <2>2. ASSUME NEW n \in Node, Hear(n) PROVE IInv'
    BY <2>2, BeaconStep DEF Hear
  <2>3. ASSUME NEW n \in Node, Restart(n) PROVE IInv'
    BY <2>3, RestartStep
  <2>4. ASSUME NEW k \in Channel, Fade(k) PROVE IInv'
    <3>1. /\ UNCHANGED <<state, chan, avoid, collision, claimed, carrier, idx,
                         known, at, who, faults>>
          /\ linger' \subseteq linger
      BY <2>4 DEF Fade, book
    <3>2. TypeOK'
      BY <3>1 DEF IInv, TypeOK
    <3>. QED
      BY <3>1, <3>2, BookKept DEF IInv
  <2>5. CASE UNCHANGED vars
    <3>1. UNCHANGED <<state, chan, avoid, collision, claimed, carrier, linger,
                      idx, known, at, who, faults>>
      BY <2>5 DEF vars, radio, book
    <3>2. TypeOK'
      BY <3>1 DEF IInv, TypeOK
    <3>. QED
      BY <3>1, <3>2, BookKept DEF IInv
  <2>. QED
    BY <2>1, <2>2, <2>3, <2>4, <2>5 DEF Next
<1>. QED
  BY <1>1, <1>2, PTL DEF Spec

\* Every variable keeps its type, and a node has a channel exactly while it is
\* not listening (_leave, tick).  That a node which has to give its address up
\* finds another one is assumed here, in MeshAssumption.
THEOREM TypeCorrect == Spec => []TypeOK
BY Invariance, PTL DEF IInv

\* The two directions of the address book agree (_on_beacon).
THEOREM BooksAgree == Spec => []BookConsistent
BY Invariance, PTL DEF IInv

\* A node keeps an address another node is known to use only by its right
\* (AddressManager.on_beacon).
THEOREM RightsKept == Spec => []KeepsByRight
BY Invariance, PTL DEF IInv

=============================================================================
