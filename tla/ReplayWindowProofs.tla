------------------------ MODULE ReplayWindowProofs --------------------------
(***************************************************************************)
(* That no counter is opened twice, and none within the window refused     *)
(* without cause, for a window of any width and any number of frames.      *)
(***************************************************************************)
EXTENDS ReplayWindow, TLAPS

\* Once an opened frame is recorded, its counter joins those opened.
LEMMA OpenedGrows ==
  ASSUME NEW s \in Seq(Nat), opened = s, NEW n \in Nat, opened' = Append(opened, n)
  PROVE  Opened' = Opened \cup {n}
<1>1. DOMAIN opened' = DOMAIN opened \cup {Len(opened) + 1}
  OBVIOUS
<1>2. \A i \in DOMAIN opened : opened'[i] = opened[i]
  OBVIOUS
<1>3. opened'[Len(opened) + 1] = n /\ Len(opened) + 1 \in Nat
  OBVIOUS
<1> QED BY <1>1, <1>2, <1>3 DEF Opened

\* The types hold in every reachable state: the bitmap keeps its width.
THEOREM TypeCorrect == ASSUME Sizes PROVE Spec => []TypeOK
<1>1. Init => TypeOK
  BY DEF Sizes, Init, TypeOK, Sent
<1>2. TypeOK /\ [Next]_vars => TypeOK'
  <2> SUFFICES ASSUME TypeOK, [Next]_vars PROVE TypeOK'
    OBVIOUS
  <2> USE DEF Sizes
  <2>1. CASE Protect
    <3>1. Sent \subseteq Sent'
      BY <2>1 DEF Protect, TypeOK, Sent
    <3>2. opened' \in Seq(Sent')
      BY <2>1, <3>1 DEF Protect, TypeOK
    <3> QED BY <2>1, <3>2 DEF Protect, TypeOK
  <2>2. ASSUME NEW n \in Sent, NEW intact \in BOOLEAN, Open(n, intact)
        PROVE  TypeOK'
    <3>1. opened' \in Seq(Sent') /\ ctr' \in 0..MaxFrames
      BY <2>2 DEF Open, TypeOK, Sent
    <3>2. n \in 0..(ctr - 1) /\ ctr' = ctr
      BY <2>2 DEF Open, Sent
    <3>3. CASE n > top
      <4>1. top' = n /\ bits' \subseteq 0..(Window - 1)
        BY <2>2, <3>3 DEF Open, Mark, Shifted
      <4> QED BY <3>1, <3>2, <4>1 DEF TypeOK
    <3>4. CASE ~(n > top)
      <4>1. top - n \in 0..(Window - 1)
        BY <2>2, <3>2, <3>4 DEF Open, Fresh, TypeOK
      <4> QED BY <2>2, <3>1, <3>2, <3>4, <4>1 DEF Open, Mark, TypeOK
    <3> QED BY <3>3, <3>4
  <2>3. ASSUME NEW n \in Sent, NEW intact \in BOOLEAN, Drop(n, intact)
        PROVE  TypeOK'
    BY <2>3 DEF Drop, vars, TypeOK, Sent
  <2>4. CASE UNCHANGED vars
    BY <2>4 DEF vars, TypeOK, Sent
  <2> QED BY <2>1, <2>2, <2>3, <2>4 DEF Next
<1> QED BY <1>1, <1>2, PTL DEF Spec

\* The inductive invariant: the bitmap records the last counters, and what is
\* not on record above its reach was never opened, so nothing fresh was.
IInv == Exact /\ OpenedOnce

\* What passes the test has not been opened.
LEMMA FreshIsNew ==
  ASSUME Sizes, TypeOK, Exact, NEW n \in Sent, Fresh(n)
  PROVE  n \notin Opened
<1>1. n \in Nat /\ top \in Int
  BY DEF TypeOK, Sent
<1>2. CASE n > top
  BY <1>1, <1>2 DEF Exact
<1>3. CASE ~(n > top)
  <2>1. top - n \in 0..(Window - 1) /\ top - n \notin bits
    BY <1>1, <1>3 DEF Fresh, Sizes
  <2>2. top - (top - n) = n
    BY <1>1
  <2> QED BY <2>1, <2>2 DEF Exact
<1> QED BY <1>2, <1>3

LEMMA Init_IInv == ASSUME Sizes, Init PROVE IInv
<1>1. Opened = {}
  BY DEF Init, Opened
<1> QED BY <1>1 DEF Init, IInv, Exact, OpenedOnce

\* Opening a frame keeps the record exact.
LEMMA OpenKeepsExact ==
  ASSUME Sizes, TypeOK, TypeOK', Exact, NEW n \in Sent, Open(n, TRUE)
  PROVE  Exact'
<1> USE DEF Sizes
<1>1. n \in Nat /\ top \in Int /\ opened \in Seq(Nat)
  BY DEF TypeOK, Sent
<1>2. Opened' = Opened \cup {n}
  BY <1>1, OpenedGrows DEF Open
<1>3. CASE n > top
  <2>1. top' = n /\ bits' = Shifted(n - top)
    BY <1>3 DEF Open, Mark
  <2>2. \A m \in Opened : m <= top
    BY DEF Exact
  <2>3. Opened \subseteq Int
    BY <1>1 DEF Opened
  <2>4. ASSUME NEW d \in 0..(Window - 1)
        PROVE  d \in bits' <=> top' - d \in Opened'
    <3>1. CASE d = 0
      BY <1>1, <1>2, <2>1, <3>1 DEF Shifted
    <3>2. CASE d # 0 /\ d < n - top
      <4>1. d \notin bits'
        BY <1>1, <2>1, <3>2 DEF Shifted, TypeOK
      <4>2. n - d \notin Opened /\ n - d # n
        BY <1>1, <2>2, <3>2
      <4> QED BY <1>2, <2>1, <4>1, <4>2
    <3>3. CASE d # 0 /\ d >= n - top
      <4> DEFINE e == d - (n - top)
      <4>1. e \in 0..(Window - 1) /\ e + (n - top) = d /\ top - e = n - d /\ n - d # n
        BY <1>1, <1>3, <3>3
      <4>2. d \in bits' <=> e \in bits
        BY <1>1, <2>1, <3>3, <4>1 DEF Shifted, TypeOK
      <4>3. e \in bits <=> n - d \in Opened
        BY <4>1 DEF Exact
      <4> QED BY <1>2, <2>1, <4>1, <4>2, <4>3
    <3> QED BY <1>1, <3>1, <3>2, <3>3
  <2>5. \A m \in Opened' : m <= top'
    BY <1>1, <1>2, <1>3, <2>1, <2>2, <2>3
  <2> QED BY <2>4, <2>5 DEF Exact
<1>4. CASE ~(n > top)
  <2>1. top' = top /\ bits' = bits \cup {top - n}
    BY <1>4 DEF Open, Mark
  <2>2. \A d \in 0..(Window - 1) : d = top - n <=> top - d = n
    BY <1>1
  <2> QED BY <1>1, <1>2, <1>4, <2>1, <2>2 DEF Exact
<1> QED BY <1>1, <1>3, <1>4

\* Opening a frame opens it for the first time.
LEMMA OpenKeepsOnce ==
  ASSUME Sizes, TypeOK, Exact, OpenedOnce, NEW n \in Sent, Open(n, TRUE)
  PROVE  OpenedOnce'
<1>1. opened \in Seq(Nat) /\ n \in Nat /\ opened' = Append(opened, n)
  BY DEF TypeOK, Sent, Open
<1>2. \A i \in DOMAIN opened : opened[i] # n
  BY FreshIsNew DEF Open, Opened
<1>3. DOMAIN opened' = DOMAIN opened \cup {Len(opened) + 1}
  BY <1>1
<1>4. \A i \in DOMAIN opened : opened'[i] = opened[i]
  BY <1>1
<1>5. opened'[Len(opened) + 1] = n
  BY <1>1
<1> QED BY <1>2, <1>3, <1>4, <1>5 DEF OpenedOnce

LEMMA Next_IInv == ASSUME Sizes, TypeOK, TypeOK', IInv, [Next]_vars PROVE IInv'
<1>1. CASE UNCHANGED <<top, bits, opened>>
  <2>1. Opened' = Opened
    BY <1>1 DEF Opened
  <2> QED BY <1>1, <2>1 DEF IInv, Exact, OpenedOnce
<1>2. ASSUME NEW n \in Sent, NEW intact \in BOOLEAN, Open(n, intact)
      PROVE  IInv'
  <2>1. Open(n, TRUE)
    BY <1>2 DEF Open
  <2> QED BY <2>1, OpenKeepsExact, OpenKeepsOnce DEF IInv
<1> QED BY <1>1, <1>2 DEF Next, Protect, Drop, vars

\* No counter is opened twice, for a window of any width and frames that arrive
\* in any order, any number of times and damaged or not.
THEOREM NeverTwice == ASSUME Sizes PROVE Spec => []OpenedOnce
<1>1. IInv => OpenedOnce
  BY DEF IInv
<1> QED BY <1>1, TypeCorrect, Init_IInv, Next_IInv, PTL DEF Spec

\* A frame is refused only when it was opened before or is a window behind.
THEOREM NoFrameWasted == ASSUME Sizes PROVE Spec => []RefusedForCause
<1>1. TypeOK /\ IInv => RefusedForCause
  <2> SUFFICES ASSUME TypeOK, IInv, NEW n \in Sent, ~Fresh(n), ~(n <= top - Window)
               PROVE  n \in Opened
    BY DEF RefusedForCause
  <2>1. n \in Nat /\ top \in Int
    BY DEF TypeOK, Sent
  <2>2. top - n \in 0..(Window - 1) /\ top - n \in bits
    BY <2>1 DEF Fresh, Sizes
  <2>3. top - (top - n) = n
    BY <2>1
  <2> QED BY <2>2, <2>3 DEF IInv, Exact
<1> QED BY <1>1, TypeCorrect, Init_IInv, Next_IInv, PTL DEF Spec
=============================================================================
