----------------------- MODULE SelectiveRepeatProofs -----------------------
(***************************************************************************)
(* Proofs about SelectiveRepeat for every value of the constants: the      *)
(* safety properties, across restarts of A, and that the link implements   *)
(* DeliveryService while A keeps one engine, as long as the outage is      *)
(* bounded.  What A takes for acknowledged is not what B has while a SACK  *)
(* B owed the engine before may still arrive (stale); the types, the order *)
(* of what B hands up and the old/new decision hold then as well.          *)
(***************************************************************************)
EXTENDS SelectiveRepeat, TLAPS, SequenceTheorems, WellFoundedInduction

----------------------------------------------------------------------------
\* Distances modulo SeqMod.

\* Dist of a number at most SeqMod - 1 ahead: the plain difference.
LEMMA DistAhead ==
  ASSUME NEW a \in Int, NEW b \in Int, b <= a, a < b + SeqMod
  PROVE  Dist(a, b) = a - b
BY SequenceAssumption DEF Dist

\* Dist of a number at most SeqMod behind: what is missing to SeqMod.
LEMMA DistBehind ==
  ASSUME NEW a \in Int, NEW b \in Int, a < b, b <= a + SeqMod
  PROVE  Dist(a, b) = a - b + SeqMod
BY SequenceAssumption DEF Dist

----------------------------------------------------------------------------
\* The least element, and the window base.

LessThan == {p \in Nat \X Nat : p[1] < p[2]}

\* A set of natural numbers that is not empty has a least element.
LEMMA LeastIsLeast ==
  ASSUME NEW S \in SUBSET Nat, S # {}
  PROVE  /\ Least(S) \in S
         /\ \A n \in S : Least(S) <= n
<1>1. IsWellFoundedOn(LessThan, Nat)
  BY NatLessThanWellFounded DEF OpToRel, LessThan
<1>2. PICK x \in S : \A y \in S : ~ (<<y, x>> \in LessThan)
  BY <1>1, WFMin
<1>3. ASSUME NEW y \in S PROVE x <= y
  <2>1. x \in Nat /\ y \in Nat
    OBVIOUS
  <2>2. SUFFICES ASSUME y < x PROVE FALSE
    BY <2>1
  <2>3. <<y, x>> \in LessThan
    BY <2>1, <2>2 DEF LessThan
  <2> QED BY <1>2, <2>3
<1> QED
  BY <1>3 DEF Least

\* The window base: at most the next number and every outstanding one.
LEMMA SendBaseBounds ==
  ASSUME NEW nx \in Nat, NEW S \in SUBSET Nat, \A n \in S : n < nx
  PROVE  /\ SendBase(S, nx) \in Nat
         /\ SendBase(S, nx) <= nx
         /\ \A n \in S : SendBase(S, nx) <= n
         /\ S # {} => SendBase(S, nx) \in S
<1>1. CASE S = {}
  <2>1. SendBase(S, nx) = nx
    BY <1>1 DEF SendBase
  <2> QED BY <1>1, <2>1
<1>2. CASE S # {}
  <2>1. SendBase(S, nx) = Least(S)
    BY <1>2 DEF SendBase
  <2>2. Least(S) \in S /\ \A n \in S : Least(S) <= n
    BY <1>2, LeastIsLeast
  <2>3. Least(S) \in Nat /\ Least(S) < nx
    BY <2>2
  <2> QED BY <2>1, <2>2, <2>3
<1> QED BY <1>1, <1>2

\* The fewer frames are outstanding, the higher the window base.
LEMMA SendBaseMonotone ==
  ASSUME NEW nx \in Nat, NEW S \in SUBSET Nat, \A n \in S : n < nx,
         NEW T \in SUBSET S
  PROVE  SendBase(S, nx) <= SendBase(T, nx)
<1>1. T \in SUBSET Nat /\ \A n \in T : n < nx
  OBVIOUS
<1>2. SendBase(S, nx) <= nx /\ \A n \in S : SendBase(S, nx) <= n
  BY SendBaseBounds
<1>3. T # {} => SendBase(T, nx) \in T
  BY <1>1, SendBaseBounds
<1>4. T = {} => SendBase(T, nx) = nx
  BY DEF SendBase
<1> QED BY <1>2, <1>3, <1>4

\* New frames do not move the window base.
LEMMA SendBaseFresh ==
  ASSUME NEW nx \in Nat, NEW S \in SUBSET Nat, \A n \in S : n < nx,
         NEW k \in Nat
  PROVE  SendBase(S \cup (nx..(nx + k - 1)), nx + k) = SendBase(S, nx)
<1> DEFINE T == S \cup (nx..(nx + k - 1))
<1>1. T \in SUBSET Nat /\ (\A n \in T : n < nx + k) /\ nx + k \in Nat
  OBVIOUS
<1>2. /\ SendBase(T, nx + k) \in Nat /\ SendBase(T, nx + k) <= nx + k
      /\ \A n \in T : SendBase(T, nx + k) <= n
      /\ T # {} => SendBase(T, nx + k) \in T
  <2> HIDE DEF T
  <2> QED BY <1>1, SendBaseBounds
<1>3. /\ SendBase(S, nx) \in Nat /\ SendBase(S, nx) <= nx
      /\ \A n \in S : SendBase(S, nx) <= n
      /\ S # {} => SendBase(S, nx) \in S
  BY SendBaseBounds
<1>4. CASE S = {} /\ k = 0
  BY <1>4 DEF SendBase
<1>5. CASE S = {} /\ k # 0
  <2>1. nx \in T /\ SendBase(S, nx) = nx /\ \A n \in T : nx <= n
    BY <1>5 DEF SendBase
  <2>2. SendBase(T, nx + k) = nx
    <3> HIDE DEF T
    <3> QED BY <1>2, <2>1
  <2> QED BY <2>1, <2>2
<1>6. CASE S # {}
  <2>1. SendBase(S, nx) \in T /\ \A n \in T : SendBase(S, nx) <= n
    BY <1>3, <1>6
  <2>2. SendBase(T, nx + k) = SendBase(S, nx)
    <3> HIDE DEF T
    <3> QED BY <1>2, <1>3, <2>1
  <2> QED BY <2>2
<1> QED BY <1>4, <1>5, <1>6

----------------------------------------------------------------------------
\* Windows.

\* w files every payload under its own number, and nothing at or above its
\* base was handed up.
Exact(w) ==
  /\ IsWindow(w)
  /\ \A k \in DOMAIN w.buf : w.buf[k] = k
  /\ \A k \in DOMAIN w.got : w.got[k] = k /\ k < w.base

\* HandUp moves what is held below e, and the base, and nothing else.
LEMMA HandUpExact ==
  ASSUME NEW w, Exact(w), NEW e \in Nat, w.base <= e
  PROVE  /\ Exact(HandUp(w, e))
         /\ HandUp(w, e).base = e
         /\ HandUp(w, e).known = w.known
         /\ HandUp(w, e).epoch = w.epoch
         /\ DOMAIN HandUp(w, e).buf = {k \in DOMAIN w.buf : e <= k}
         /\ DOMAIN HandUp(w, e).got
              = DOMAIN w.got \cup {k \in DOMAIN w.buf : k < e}
<1> DEFINE up  == {k \in DOMAIN w.buf : k < e}
           buf == [k \in DOMAIN w.buf \ up |-> w.buf[k]]
           got == [k \in DOMAIN w.got \cup up |->
                     IF k \in up THEN w.buf[k] ELSE w.got[k]]
<1>1. /\ w = [known |-> w.known, epoch |-> w.epoch, base |-> w.base,
               buf |-> w.buf, got |-> w.got]
      /\ w.known \in BOOLEAN /\ w.epoch \in Epochs /\ w.base \in Nat
      /\ DOMAIN w.buf \subseteq Nat /\ DOMAIN w.got \subseteq Nat
  BY DEF Exact, IsWindow, IsMap
<1>2. HandUp(w, e) = [known |-> w.known, epoch |-> w.epoch, base |-> e,
                      buf |-> buf, got |-> got]
  <2>1. HandUp(w, e) = [w EXCEPT !.base = e, !.buf = buf, !.got = got]
    BY DEF HandUp
  <2> HIDE DEF buf, got
  <2> QED BY <1>1, <2>1
<1>3. /\ DOMAIN buf = {k \in DOMAIN w.buf : e <= k}
      /\ \A k \in DOMAIN buf : buf[k] = k
  BY <1>1 DEF Exact
<1>4. /\ DOMAIN got = DOMAIN w.got \cup {k \in DOMAIN w.buf : k < e}
      /\ \A k \in DOMAIN got : got[k] = k /\ k < e
  BY <1>1 DEF Exact
<1>5. buf = [k \in DOMAIN buf |-> buf[k]] /\ got = [k \in DOMAIN got |-> got[k]]
  OBVIOUS
<1>6. IsMap(buf, Nat) /\ IsMap(got, Nat)
  <2>1. DOMAIN buf \subseteq Nat /\ DOMAIN got \subseteq Nat
    BY <1>1, <1>3, <1>4
  <2> HIDE DEF buf, got
  <2> QED BY <1>3, <1>4, <1>5, <2>1 DEF IsMap
<1> HIDE DEF buf, got
<1> QED BY <1>1, <1>2, <1>3, <1>4, <1>6 DEF Exact, IsWindow

\* RunEnd ends the run of held numbers that starts at b.
LEMMA RunEndIsEnd ==
  ASSUME NEW b \in Nat, NEW held \in SUBSET Nat, NEW hi \in Nat,
         b <= hi, hi <= b + SeqMod, \A k \in held : k < hi
  PROVE  /\ RunEnd(b, held) \in b..hi
         /\ RunEnd(b, held) \notin held
         /\ \A k \in b..(RunEnd(b, held) - 1) : k \in held
<1> DEFINE free == {e \in b..(b + SeqMod) : e \notin held}
<1>1. SeqMod \in Nat
  BY SequenceAssumption
<1>2. free \in SUBSET Nat /\ hi \in free
  BY <1>1
<1>3. Least(free) \in free /\ \A n \in free : Least(free) <= n
  <2> HIDE DEF free
  <2> QED BY <1>2, LeastIsLeast
<1>4. RunEnd(b, held) = Least(free)
  BY DEF RunEnd
<1>5. Least(free) \in b..hi /\ Least(free) \notin held
  BY <1>2, <1>3
<1>6. ASSUME NEW k \in b..(Least(free) - 1) PROVE k \in held
  <2>1. k \in b..(b + SeqMod) /\ k < Least(free)
    BY <1>1, <1>3, <1>5
  <2>2. k \notin free
    BY <1>3, <2>1
  <2> QED BY <2>1, <2>2
<1> HIDE DEF free
<1> QED BY <1>4, <1>5, <1>6

\* Release hands up the run at the base of a window whose held numbers lie
\* between its base and hi.
LEMMA ReleaseExact ==
  ASSUME NEW w, Exact(w), NEW hi \in Nat, w.base <= hi, hi <= w.base + SeqMod,
         \A k \in DOMAIN w.buf : w.base <= k /\ k < hi
  PROVE  /\ Exact(Release(w))
         /\ Release(w).base \in w.base..hi
         /\ Release(w).base \notin DOMAIN w.buf
         /\ Release(w).known = w.known
         /\ Release(w).epoch = w.epoch
         /\ DOMAIN Release(w).buf = {k \in DOMAIN w.buf : Release(w).base < k}
         /\ DOMAIN Release(w).got
              = DOMAIN w.got \cup {k \in DOMAIN w.buf : k < Release(w).base}
         /\ \A k \in w.base..(Release(w).base - 1) : k \in DOMAIN w.buf
<1> DEFINE e == RunEnd(w.base, DOMAIN w.buf)
<1>1. w.base \in Nat /\ DOMAIN w.buf \in SUBSET Nat
  BY DEF Exact, IsWindow, IsMap
<1>2. /\ e \in w.base..hi /\ e \notin DOMAIN w.buf
      /\ \A k \in w.base..(e - 1) : k \in DOMAIN w.buf
  BY <1>1, RunEndIsEnd
<1>3. Release(w) = HandUp(w, e)
  BY DEF Release
<1> HIDE DEF e
<1>4. e \in Nat /\ w.base <= e
  BY <1>1, <1>2
<1>5. {k \in DOMAIN w.buf : e <= k} = {k \in DOMAIN w.buf : e < k}
  BY <1>1, <1>2, <1>4
<1> QED BY <1>2, <1>3, <1>4, <1>5, HandUpExact

----------------------------------------------------------------------------
\* Hearing one frame.

\* What w holds or has handed up.
Has(w) == DOMAIN w.got \cup DOMAIN w.buf

\* What w holds lies ahead of its base and below the reach of base b.
Ahead(w, b) ==
  /\ w.base <= b + Window
  /\ \A k \in DOMAIN w.buf : w.base < k /\ k < b + Window

\* r follows w on hearing a frame with base b that may add the numbers of
\* new: it keeps what w had, and passes over nothing but numbers below b.
Follows(w, r, b, new) ==
  /\ Exact(r) /\ Ahead(r, b)
  /\ r.known = w.known /\ r.epoch = w.epoch
  /\ w.base <= r.base /\ b <= r.base
  /\ Has(w) \subseteq Has(r) /\ Has(r) \subseteq Has(w) \cup new
  /\ DOMAIN w.got \subseteq DOMAIN r.got
  /\ \A k \in DOMAIN r.got : k \in DOMAIN w.got \/ w.base <= k
  /\ \A k \in w.base..(r.base - 1) : k \in DOMAIN r.got \/ k < b

\* Advance follows a base that is less than Half ahead.
LEMMA AdvanceFollows ==
  ASSUME NEW w, NEW b \in Nat, Exact(w), Ahead(w, b), b - w.base < Half
  PROVE  Follows(w, Advance(w, b), b, {})
<1>1. w.base \in Nat /\ DOMAIN w.buf \subseteq Nat /\ DOMAIN w.got \subseteq Nat
  BY DEF Exact, IsWindow, IsMap
<1>2. /\ Half \in Nat /\ SeqMod = 2 * Half /\ Window \in Nat
      /\ MaxWindow \in Nat /\ 2 * MaxWindow <= Half /\ Window <= MaxWindow
      /\ Half > 0
  BY SequenceAssumption
<1>3. CASE b <= w.base
  <2>1. CASE b = w.base
    <3>1. Dist(b, w.base) = 0
      BY <1>1, <1>2, <2>1, DistAhead
    <3> QED BY <3>1, <1>1, <1>2, <1>3 DEF Advance, Follows, Has, Ahead
  <2>2. CASE b < w.base
    <3>1. w.base <= b + MaxWindow
      BY <1>1, <1>2 DEF Ahead
    <3>2. Dist(b, w.base) = b - w.base + SeqMod
      BY <1>1, <1>2, <2>2, <3>1, DistBehind
    <3>3. Dist(b, w.base) >= SeqMod - MaxWindow
      BY <1>1, <1>2, <3>1, <3>2
    <3>4. Advance(w, b) = w
      BY <3>3 DEF Advance
    <3> QED BY <3>4, <1>1, <1>2, <1>3 DEF Follows, Has, Ahead
  <2> QED BY <1>1, <1>3, <2>1, <2>2
<1>4. CASE w.base < b
  <2> DEFINE h == HandUp(w, b)
             r == Release(h)
  <2>1. Dist(b, w.base) = b - w.base
    BY <1>1, <1>2, <1>4, DistAhead
  <2>2. Advance(w, b) = r
    <3>1. Dist(b, w.base) # 0 /\ Dist(b, w.base) < SeqMod - MaxWindow
      BY <1>1, <1>2, <1>4, <2>1
    <3>2. w.base + Dist(b, w.base) = b
      BY <1>1, <2>1
    <3> QED BY <2>1, <3>1, <3>2, <1>1, <1>2 DEF Advance
  <2>3. /\ Exact(h) /\ h.base = b /\ h.known = w.known /\ h.epoch = w.epoch
        /\ DOMAIN h.buf = {k \in DOMAIN w.buf : b <= k}
        /\ DOMAIN h.got = DOMAIN w.got \cup {k \in DOMAIN w.buf : k < b}
    <3>1. w.base <= b
      BY <1>1, <1>4
    <3> QED BY <3>1, HandUpExact
  <2> HIDE DEF h
  <2>4. \A k \in DOMAIN h.buf : h.base <= k /\ k < b + Window
    BY <2>3 DEF Ahead
  <2>5. /\ Exact(r) /\ r.base \in b..(b + Window)
        /\ r.known = h.known /\ r.epoch = h.epoch
        /\ DOMAIN r.buf = {k \in DOMAIN h.buf : r.base < k}
        /\ DOMAIN r.got = DOMAIN h.got \cup {k \in DOMAIN h.buf : k < r.base}
        /\ \A k \in b..(r.base - 1) : k \in DOMAIN h.buf
    <3>1. b + Window \in Nat /\ h.base <= b + Window
             /\ b + Window <= h.base + SeqMod
      BY <1>2, <2>3
    <3>2. r.base \in h.base..(b + Window)
      BY <2>3, <2>4, <3>1, ReleaseExact
    <3> QED BY <2>3, <2>4, <3>1, <3>2, ReleaseExact
  <2>6. r.base \notin DOMAIN h.buf
    BY <2>3, <2>4, <1>2, ReleaseExact
  <2> HIDE DEF r
  <2>7. Ahead(r, b)
    BY <2>3, <2>5, <1>1, <1>2 DEF Ahead
  <2>8. Has(r) = Has(w)
    BY <2>3, <2>5, <2>6, <1>1 DEF Has
  <2>9. \A k \in DOMAIN r.got : k \in DOMAIN w.got \/ w.base <= k
    BY <2>3, <2>5, <1>1 DEF Ahead
  <2>10. \A k \in w.base..(r.base - 1) : k \in DOMAIN r.got \/ k < b
    BY <2>3, <2>5, <1>1
  <2> QED
    BY <2>2, <2>3, <2>5, <2>7, <2>8, <2>9, <2>10, <1>1, <1>4 DEF Follows
<1> QED BY <1>1, <1>3, <1>4

\* A number at most Window below or above b is new exactly when it is at or
\* above the base and not held.
LEMMA NewOrOld ==
  ASSUME NEW w, NEW b \in Nat, NEW n \in Nat, Exact(w), Ahead(w, b),
         b <= w.base, n < b + Window, b <= n + Window
  PROVE  /\ IsNew(w, n) <=> (w.base <= n /\ n \notin DOMAIN w.buf)
         /\ w.base <= n => w.base + Dist(n, w.base) = n
<1>1. w.base \in Nat
  BY DEF Exact, IsWindow
<1>2. /\ Half \in Nat /\ SeqMod = 2 * Half /\ Window \in Nat
      /\ 2 * Window <= Half /\ Half > 0
  BY SequenceAssumption
<1>3. w.base <= b + Window
  BY DEF Ahead
<1>4. CASE w.base <= n
  <2>1. Dist(n, w.base) = n - w.base /\ n - w.base < Half
    BY <1>1, <1>2, <1>4, DistAhead
  <2>2. w.base + Dist(n, w.base) = n
    BY <1>1, <2>1
  <2> QED BY <1>1, <1>4, <2>1, <2>2 DEF IsNew
<1>5. CASE n < w.base
  <2>0. w.base <= n + Half /\ w.base <= n + SeqMod
    BY <1>1, <1>2, <1>3
  <2>1. Dist(n, w.base) = n - w.base + SeqMod
    BY <1>1, <1>5, <2>0, DistBehind
  <2>2. ~ Dist(n, w.base) < Half
    BY <1>1, <1>2, <2>0, <2>1
  <2> QED BY <1>1, <1>5, <2>2 DEF IsNew
<1> QED BY <1>1, <1>4, <1>5

\* Accept follows, and ends up with number n or with a base above it.
LEMMA AcceptFollows ==
  ASSUME NEW w, NEW b \in Nat, NEW n \in Nat, Exact(w), Ahead(w, b),
         b <= w.base, n < b + Window, b <= n + Window
  PROVE  /\ Follows(w, Accept(w, n), b, {n})
         /\ n \in Has(Accept(w, n)) \/ n < w.base
<1>1. /\ w = [known |-> w.known, epoch |-> w.epoch, base |-> w.base,
               buf |-> w.buf, got |-> w.got]
      /\ w.known \in BOOLEAN /\ w.epoch \in Epochs /\ w.base \in Nat
      /\ DOMAIN w.buf \subseteq Nat /\ DOMAIN w.got \subseteq Nat
      /\ \A k \in DOMAIN w.buf : w.buf[k] = k
      /\ \A k \in DOMAIN w.got : w.got[k] = k /\ k < w.base
      /\ IsMap(w.got, Nat)
  BY DEF Exact, IsWindow, IsMap
<1>2. Window \in Nat /\ SeqMod \in Nat /\ Window <= SeqMod
  BY SequenceAssumption
<1>3. /\ IsNew(w, n) <=> (w.base <= n /\ n \notin DOMAIN w.buf)
      /\ w.base <= n => w.base + Dist(n, w.base) = n
  BY NewOrOld
<1>4. CASE ~ IsNew(w, n)
  <2>1. Accept(w, n) = w
    BY <1>4 DEF Accept
  <2>2. n \in DOMAIN w.buf \/ n < w.base
    BY <1>1, <1>3, <1>4
  <2> QED BY <2>1, <2>2, <1>1 DEF Follows, Has
<1>5. CASE IsNew(w, n)
  <2> DEFINE buf == [j \in DOMAIN w.buf \cup {n} |->
                       IF j = n THEN n ELSE w.buf[j]]
             h == Hold(w, n)
             r == Release(h)
  <2>1. h = [w EXCEPT !.buf = buf]
    BY <1>3, <1>5 DEF Hold
  <2>2. /\ DOMAIN buf = DOMAIN w.buf \cup {n}
        /\ \A k \in DOMAIN buf : buf[k] = k
        /\ buf = [k \in DOMAIN buf |-> buf[k]]
    BY <1>1
  <2>3. IsMap(buf, Nat)
    <3> HIDE DEF buf
    <3>1. DOMAIN buf \subseteq Nat
      BY <1>1, <2>2
    <3> QED BY <2>2, <3>1 DEF IsMap
  <2> HIDE DEF buf
  <2>4. h = [known |-> w.known, epoch |-> w.epoch, base |-> w.base,
             buf |-> buf, got |-> w.got]
    BY <1>1, <2>1
  <2>5. /\ Exact(h) /\ h.base = w.base /\ h.known = w.known
        /\ h.epoch = w.epoch /\ h.got = w.got
        /\ DOMAIN h.buf = DOMAIN w.buf \cup {n}
    BY <1>1, <2>2, <2>3, <2>4 DEF Exact, IsWindow
  <2> HIDE DEF h
  <2>6. \A k \in DOMAIN h.buf : h.base <= k /\ k < b + Window
    BY <1>1, <1>3, <1>5, <2>5 DEF Ahead
  <2>7. /\ b + Window \in Nat /\ h.base <= b + Window
        /\ b + Window <= h.base + SeqMod
    BY <1>1, <1>2, <2>5 DEF Ahead
  <2>8. /\ Exact(r) /\ r.base \in h.base..(b + Window)
        /\ r.base \notin DOMAIN h.buf
        /\ r.known = h.known /\ r.epoch = h.epoch
        /\ DOMAIN r.buf = {k \in DOMAIN h.buf : r.base < k}
        /\ DOMAIN r.got = DOMAIN h.got \cup {k \in DOMAIN h.buf : k < r.base}
        /\ \A k \in h.base..(r.base - 1) : k \in DOMAIN h.buf
    BY <2>5, <2>6, <2>7, ReleaseExact
  <2>9. Accept(w, n) = r
    BY <1>5 DEF Accept, h
  <2> HIDE DEF r
  <2>10. Ahead(r, b)
    BY <1>1, <2>6, <2>7, <2>8, <2>5 DEF Ahead
  <2>11. Has(r) = Has(w) \cup {n}
    BY <1>1, <2>5, <2>8 DEF Has
  <2>12. \A k \in DOMAIN r.got : k \in DOMAIN w.got \/ w.base <= k
    BY <1>1, <2>5, <2>6, <2>8
  <2>13. \A k \in w.base..(r.base - 1) : k \in DOMAIN r.got
    BY <1>1, <2>5, <2>8
  <2> QED
    BY <1>1, <2>5, <2>8, <2>9, <2>10, <2>11, <2>12, <2>13 DEF Follows
<1> QED BY <1>4, <1>5

\* Hearing a data frame follows the window before it: AdvanceFollows, then
\* AcceptFollows.
LEMMA ReceiveFollows ==
  ASSUME NEW w, NEW b \in Nat, NEW n \in Nat, Exact(w), Ahead(w, b),
         b - w.base < Half, n < b + Window, b <= n + Window
  PROVE  /\ Follows(w, Accept(Advance(w, b), n), b, {n})
         /\ Follows(w, Advance(w, b), b, {})
         /\ IsNew(Advance(w, b), n) \/ n \in Has(Advance(w, b))
              \/ n < Advance(w, b).base
<1> DEFINE m == Advance(w, b)
           r == Accept(m, n)
<1>1. Follows(w, m, b, {})
  BY AdvanceFollows
<1> HIDE DEF m
<1>2. Exact(m) /\ Ahead(m, b) /\ b <= m.base
  BY <1>1 DEF Follows
<1>3. Follows(m, r, b, {n}) /\ (IsNew(m, n) \/ n \in Has(m) \/ n < m.base)
  <2>1. m.base \in Nat
    BY <1>2 DEF Exact, IsWindow
  <2>2. Follows(m, r, b, {n})
    BY <1>2, AcceptFollows
  <2>3. IsNew(m, n) <=> (m.base <= n /\ n \notin DOMAIN m.buf)
    BY <1>2, NewOrOld
  <2> QED BY <2>1, <2>2, <2>3 DEF Has
<1> HIDE DEF r
<1>4. /\ w.base \in Nat /\ m.base \in Nat /\ r.base \in Nat
      /\ DOMAIN w.got \subseteq Nat /\ DOMAIN r.got \subseteq Nat
  BY <1>3, <1>2 DEF Follows, Exact, IsWindow, IsMap
<1>5. Follows(w, r, b, {n})
  <2>1. w.base <= r.base
    BY <1>1, <1>3, <1>4 DEF Follows
  <2>2. \A k \in DOMAIN r.got : k \in DOMAIN w.got \/ w.base <= k
    BY <1>1, <1>3, <1>4 DEF Follows
  <2>3. \A k \in w.base..(r.base - 1) : k \in DOMAIN r.got \/ k < b
    BY <1>1, <1>3, <1>4 DEF Follows
  <2> QED BY <1>1, <1>3, <2>1, <2>2, <2>3 DEF Follows
<1> QED BY <1>1, <1>3, <1>5 DEF m, r

----------------------------------------------------------------------------
(***************************************************************************)
(* The inductive invariant.  heard <= f.base <= Base for every frame f in  *)
(* the air, in the order sent: with a base at most Window behind heard's   *)
(* reach, no number A still owes can look old to B.  A SACK is dated by    *)
(* the base B heard before it, at most Base, so that no number above it    *)
(* can look acknowledged to A.                                             *)
(***************************************************************************)
Base == SendBase(DOMAIN outq, next)

\* B's window is that of the present engine of A.
Fresh == rx.known /\ rx.epoch = epoch

\* Every number of the present engine is outstanding, acknowledged or given
\* up, and only that; what was left of earlier engines was given up.
SenderInv ==
  /\ first <= next
  /\ \A n \in DOMAIN outq : first <= n /\ n < next
  /\ next <= Base + Window
  /\ \A n \in first..(next - 1) : n \in DOMAIN outq \cup acked \cup gaveUp
  /\ \A n \in acked : first <= n /\ n < next
  /\ \A n \in gaveUp : n < next
  /\ DOMAIN outq \cap acked = {}
  /\ DOMAIN outq \cap gaveUp = {}
  /\ acked \cap gaveUp = {}

\* A frame in the air: one below its own base was given up since.
Fits(f) ==
  /\ f.epoch = epoch /\ f.sent < clock
  /\ heard <= f.base /\ f.base <= Base
  /\ f.kind = "data" =>
       /\ first <= f.n /\ f.n < next
       /\ f.n < f.base + Window /\ f.base <= f.n + Window
       /\ f.base <= f.n \/ f.n \in gaveUp

\* Bases grow in the order the frames were sent.
AirInv ==
  /\ \A f \in air : Fits(f)
  /\ \A f, g \in air : Earlier(f, g) => f.base <= g.base

\* What B has: it passed over nothing but what lay below a base it heard, and
\* a window of an earlier engine holds nothing of this one.
ReceiverInv ==
  /\ first <= heard /\ heard <= Base
  /\ Exact(rx)
  /\ \A k \in Has(rx) : k < next
  /\ Fresh => /\ heard <= rx.base /\ Ahead(rx, heard)
              /\ \A k \in first..(rx.base - 1) : k \in DOMAIN rx.got \/ k < heard
  /\ ~ Fresh => rx.base <= first /\ \A k \in Has(rx) : k < first

\* A SACK tells what B has, no older than the base it is dated with.
TellsTruth(s) ==
  /\ s.heard <= s.base /\ s.base <= s.heard + Window
  /\ s.heard <= Base /\ s.base <= rx.base
  /\ \A d \in s.bits : s.base + d \in Has(rx)

SackInv == \A i \in 1..Len(sacks) : TellsTruth(sacks[i])

\* What A was told, unless B owed a SACK to the engine before: B has told this
\* engine nothing before it heard it, and the truth since.
TruthInv ==
  ~ stale => /\ acked \subseteq Has(rx)
             /\ ~ Fresh => sacks = << >> /\ ~ ackDue
             /\ SackInv

Inv == TypeOK /\ SenderInv /\ AirInv /\ ReceiverInv /\ TruthInv

----------------------------------------------------------------------------
\* The sender.

Entry == [tries : 1..(MaxRetries + 1), sent : Nat]

\* What the lemmas on A need to know of the constants and the types.
LEMMA ConstantTypes ==
  /\ Half \in Nat /\ SeqMod \in Nat /\ SeqMod = 2 * Half
  /\ Window \in Nat /\ 2 * Window <= Half /\ Window > 0
  /\ MaxRetries \in Nat /\ SyncCopies \in Nat /\ SyncCopies > 0
  /\ MaxLead \in Nat /\ MaxAckLag \in Nat
  /\ Counts \subseteq Nat
<1>1. /\ Half \in Nat /\ SeqMod = 2 * Half
      /\ Window \in Nat /\ 2 * Window <= Half /\ Window > 0
  BY SequenceAssumption
<1> QED BY <1>1, BoundAssumption DEF Counts

\* The types of what the sender's handlers read, from TypeOK.
LEMMA SenderTypes ==
  ASSUME Inv
  PROVE  /\ queue \in Nat /\ next \in Nat /\ clock \in Nat
         /\ DOMAIN outq \in SUBSET Nat
         /\ \A n \in DOMAIN outq : outq[n] \in Entry /\ first <= n /\ n < next
         /\ epoch \in Epochs /\ heard \in Nat /\ first \in Nat
         /\ \A f \in air : f \in Frame
         /\ Base \in Nat /\ Base <= next /\ \A n \in DOMAIN outq : Base <= n
         /\ next <= Base + Window /\ first <= heard /\ heard <= Base
<1>1. TypeOK /\ SenderInv /\ ReceiverInv
  BY DEF Inv
<1>2. /\ queue \in Nat /\ next \in Nat /\ clock \in Nat
      /\ IsMap(outq, Entry)
      /\ epoch \in Epochs /\ heard \in Nat /\ first \in Nat
      /\ \A f \in air : f \in Frame
  BY <1>1 DEF TypeOK, Entry
<1>3. DOMAIN outq \in SUBSET Nat /\ \A n \in DOMAIN outq : outq[n] \in Entry
  BY <1>2 DEF IsMap
<1>4. (\A n \in DOMAIN outq : first <= n /\ n < next) /\ next <= Base + Window
  BY <1>1 DEF SenderInv
<1>5. first <= heard /\ heard <= Base
  BY <1>1 DEF ReceiverInv
<1>6. Base \in Nat /\ Base <= next /\ \A n \in DOMAIN outq : Base <= n
  BY <1>2, <1>3, <1>4, SendBaseBounds DEF Base
<1> QED BY <1>2, <1>3, <1>4, <1>5, <1>6

\* The window and the new numbers after a handler run of A.
LEMMA TransmitWindow ==
  ASSUME Inv,
         NEW kept \in SUBSET DOMAIN outq, NEW dropped \in SUBSET DOMAIN outq,
         NEW resend \in SUBSET DOMAIN outq,
         \A n \in resend : outq[n].tries <= MaxRetries,
         NEW sync, NEW q \in Nat, NEW k \in Counts,
         Transmit(kept, dropped, resend, sync, q, k)
  PROVE  /\ queue' \in Nat /\ next' \in Nat /\ clock' \in Nat
         /\ clock <= clock'
         /\ IsMap(outq', Entry)
         /\ next' = next + k
         /\ DOMAIN outq' = kept \cup (next..(next' - 1))
         /\ \A n \in DOMAIN outq' : n < next'
         /\ Base' = SendBase(kept, next) /\ Base <= Base'
         /\ next' <= Base' + Window
<1> DEFINE fresh == next..(next + k - 1)
           b == SendBase(kept, next)
<1>1. /\ queue \in Nat /\ next \in Nat /\ clock \in Nat /\ k \in Nat
      /\ DOMAIN outq \in SUBSET Nat /\ \A n \in DOMAIN outq : n < next
      /\ \A n \in DOMAIN outq : outq[n] \in Entry
      /\ next <= Base + Window /\ Window \in Nat /\ MaxRetries \in Nat
  BY SenderTypes, ConstantTypes
<1>2. /\ k <= q /\ queue' = q - k
      /\ k = 0 \/ next + k <= b + Window
      /\ next' = next + k
      /\ clock' \in {clock, clock + 1}
      /\ outq' = [n \in kept \cup fresh |->
                    IF n \in fresh THEN [tries |-> 1, sent |-> clock]
                    ELSE IF n \in resend
                      THEN [tries |-> outq[n].tries + 1, sent |-> clock]
                    ELSE outq[n]]
  BY DEF Transmit
<1>3. /\ kept \in SUBSET Nat /\ \A n \in kept : n < next
      /\ b \in Nat /\ b <= next
  <2>1. kept \in SUBSET Nat /\ \A n \in kept : n < next
    BY <1>1
  <2> QED BY <1>1, <2>1, SendBaseBounds
<1>4. Base \in Nat /\ Base <= b
  <2>1. Base \in Nat
    BY SenderTypes
  <2>2. SendBase(DOMAIN outq, next) <= SendBase(kept, next)
    BY <1>1, SendBaseMonotone
  <2> QED BY <2>1, <2>2 DEF Base
<1>5. DOMAIN outq' = kept \cup (next..(next' - 1))
  <2>1. DOMAIN outq' = kept \cup fresh
    BY <1>2
  <2>2. next' = next + k
    BY <1>2
  <2> QED BY <1>1, <2>1, <2>2
<1>6. Base' = b
  <2>1. Base' = SendBase(kept \cup fresh, next + k)
    BY <1>2, <1>5 DEF Base
  <2> QED BY <1>1, <1>3, <2>1, SendBaseFresh
<1>7. IsMap(outq', Entry)
  <2>1. DOMAIN outq' \subseteq Nat
    BY <1>1, <1>2, <1>3, <1>5
  <2>2. ASSUME NEW n \in DOMAIN outq' PROVE outq'[n] \in Entry
    <3>1. CASE n \in fresh
      BY <1>1, <1>2, <3>1 DEF Entry
    <3>2. CASE n \notin fresh /\ n \in resend
      <4>1. outq'[n] = [tries |-> outq[n].tries + 1, sent |-> clock]
        BY <1>2, <3>2
      <4>2. outq[n].tries \in 1..MaxRetries
        BY <1>1, <3>2 DEF Entry
      <4> QED BY <1>1, <4>1, <4>2 DEF Entry
    <3>3. CASE n \notin fresh /\ n \notin resend
      BY <1>1, <1>2, <1>5, <3>3
    <3> QED BY <3>1, <3>2, <3>3
  <2>3. outq' = [n \in DOMAIN outq' |-> outq'[n]]
    BY <1>2
  <2> QED BY <2>1, <2>2, <2>3 DEF IsMap
<1>8. \A n \in DOMAIN outq' : n < next'
  BY <1>1, <1>2, <1>3, <1>5
<1>9. next' <= Base' + Window
  BY <1>1, <1>2, <1>3, <1>4, <1>6
<1> QED BY <1>1, <1>2, <1>4, <1>5, <1>6, <1>7, <1>8, <1>9

\* The frames in the air after a handler run of A.
LEMMA TransmitAir ==
  ASSUME Inv,
         NEW kept \in SUBSET DOMAIN outq, NEW dropped \in SUBSET DOMAIN outq,
         NEW resend \in SUBSET DOMAIN outq,
         \A n \in resend : outq[n].tries <= MaxRetries,
         \A n \in resend : n \in kept \/ n \in gaveUp', gaveUp \subseteq gaveUp',
         NEW sync, NEW q \in Nat, NEW k \in Counts,
         Transmit(kept, dropped, resend, sync, q, k),
         UNCHANGED <<epoch, heard, first>>
  PROVE  (\A f \in air' : f \in Frame) /\ AirInv'
<1> DEFINE b == SendBase(kept, next)
           Old(n) == SendBase(kept \cup {m \in dropped : m > n}, next)
           Copy(kind, n, base) ==
             [kind |-> kind, n |-> n, base |-> base, epoch |-> epoch,
              sent |-> clock]
<1>1. /\ next \in Nat /\ clock \in Nat /\ k \in Nat /\ heard \in Nat
      /\ first \in Nat /\ first <= next /\ \A n \in DOMAIN outq : first <= n
      /\ DOMAIN outq \in SUBSET Nat /\ \A n \in DOMAIN outq : n < next
      /\ next <= Base + Window /\ Window \in Nat /\ epoch \in Epochs
      /\ heard <= Base /\ \A f \in air : f \in Frame
  BY SenderTypes, ConstantTypes DEF Inv, SenderInv
<1>2. /\ next' = next + k /\ Base' = b /\ Base <= Base'
      /\ clock' \in Nat /\ clock <= clock'
  <2> HIDE DEF b
  <2>1. Base' = SendBase(kept, next) /\ Base <= Base' /\ next' = next + k
        /\ clock' \in Nat /\ clock <= clock'
    BY TransmitWindow
  <2> QED BY <2>1 DEF b
<1>3. k = 0 \/ next + k <= b + Window
  BY DEF Transmit
<1>4. /\ Base \in Nat /\ Base <= next /\ \A n \in DOMAIN outq : Base <= n
  BY <1>1, SendBaseBounds DEF Base
<1>5. b \in Nat /\ b <= next
  <2>1. \A n \in kept : n < next
    BY <1>1
  <2> QED BY <1>1, <2>1, SendBaseBounds
<1>6. ASSUME NEW n \in resend
      PROVE  /\ Old(n) \in Nat /\ Base <= Old(n) /\ Old(n) <= b
             /\ Old(n) <= n \/ n \in gaveUp'
  <2> DEFINE S == kept \cup {m \in dropped : m > n}
  <2>1. S \in SUBSET DOMAIN outq /\ S \in SUBSET Nat
        /\ (\A m \in S : m < next) /\ kept \in SUBSET S
    BY <1>1
  <2> HIDE DEF S
  <2>2. SendBase(S, next) \in Nat /\ \A m \in S : SendBase(S, next) <= m
    BY <1>1, <2>1, SendBaseBounds
  <2>5. SendBase(S, next) <= n \/ n \in gaveUp'
    BY <2>1, <2>2
  <2>3. SendBase(DOMAIN outq, next) <= SendBase(S, next)
    BY <1>1, <2>1, SendBaseMonotone
  <2>4. SendBase(S, next) <= SendBase(kept, next)
    BY <1>1, <2>1, SendBaseMonotone
  <2> QED BY <2>2, <2>3, <2>4, <2>5 DEF S, Base
<1>7. ASSUME NEW m \in resend, NEW n \in resend, m < n
      PROVE  Old(m) <= Old(n)
  <2> DEFINE S == kept \cup {j \in dropped : j > m}
             T == kept \cup {j \in dropped : j > n}
  <2>1. S \in SUBSET Nat /\ (\A j \in S : j < next) /\ T \in SUBSET S
    <3>1. m \in Nat /\ n \in Nat /\ dropped \in SUBSET Nat /\ kept \in SUBSET Nat
      BY <1>1
    <3>2. \A j \in dropped : j > n => j > m
      BY <3>1, <1>7
    <3> QED BY <1>1, <3>1, <3>2
  <2> HIDE DEF S, T
  <2>2. SendBase(S, next) <= SendBase(T, next)
    BY <1>1, <2>1, SendBaseMonotone
  <2> QED BY <2>2 DEF S, T
<1> DEFINE Again(f) == \E n \in resend : f = Copy("data", n, Old(n))
           Sync(f)  == f = Copy("sync", next, b)
           New(f)   == \E n \in next..(next + k - 1) : f = Copy("data", n, b)
<1>8. \A f \in air' : f \in air \/ Again(f) \/ Sync(f) \/ New(f)
  BY DEF Transmit, Newest
<1>9. ASSUME NEW f \in air', f \notin air PROVE clock' = clock + 1
  <2>1. resend # {} \/ sync \/ next..(next + k - 1) # {}
    BY <1>9 DEF Transmit, Newest
  <2> QED BY <2>1 DEF Transmit
<1> HIDE DEF Old, b
<1>10. ASSUME NEW f, Again(f) \/ Sync(f) \/ New(f)
       PROVE  /\ f \in Frame /\ f.epoch = epoch /\ f.sent = clock
              /\ Base <= f.base /\ f.base <= b
              /\ f.kind = "data" =>
                   /\ first <= f.n /\ f.n < next'
                   /\ f.n < f.base + Window /\ f.base <= f.n + Window
                   /\ f.base <= f.n \/ f.n \in gaveUp'
  <2>1. CASE Again(f)
    <3>1. PICK n \in resend : f = Copy("data", n, Old(n))
      BY <2>1
    <3>2. n \in Nat /\ first <= n /\ n < next /\ Base <= n
      BY <1>1, <1>4
    <3> QED BY <1>1, <1>2, <1>4, <1>5, <1>6, <3>1, <3>2 DEF Frame
  <2>2. CASE Sync(f)
    BY <1>1, <1>2, <1>4, <1>5, <2>2 DEF Frame
  <2>3. CASE New(f)
    BY <1>1, <1>2, <1>3, <1>4, <1>5, <2>3 DEF Frame
  <2> QED BY <1>10, <2>1, <2>2, <2>3
<1>11. ASSUME NEW f \in air' PROVE f \in Frame /\ Fits(f)'
  <2>1. CASE f \in air
    <3>1. f \in Frame /\ Fits(f)
      BY <1>1, <2>1 DEF Inv, AirInv
    <3> QED BY <1>1, <1>2, <1>4, <1>5, <3>1 DEF Fits, Frame
  <2>2. CASE f \notin air
    <3>1. clock' = clock + 1
      BY <1>9, <2>2
    <3>2. Again(f) \/ Sync(f) \/ New(f)
      BY <1>8, <2>2
    <3> QED BY <1>1, <1>2, <1>4, <1>5, <1>10, <3>1, <3>2 DEF Fits, Frame
  <2> QED BY <2>1, <2>2
<1>12. ASSUME NEW f \in air', NEW g \in air', Earlier(f, g)
       PROVE  f.base <= g.base
  <2>0. f \in Frame /\ g \in Frame
    BY <1>11
  <2>1. CASE f \in air /\ g \in air
    BY <1>12, <2>1 DEF Inv, AirInv
  <2>2. CASE f \in air /\ g \notin air
    <3>1. f.base <= Base
      BY <2>2 DEF Inv, AirInv, Fits
    <3>2. Base <= g.base
      BY <1>8, <1>10, <2>2
    <3> QED BY <2>0, <1>4, <3>1, <3>2 DEF Frame
  <2>3. CASE f \notin air /\ g \in air
    <3>1. g.sent < clock /\ f.sent = clock
      BY <1>8, <1>10, <2>3 DEF Inv, AirInv, Fits
    <3> QED BY <2>0, <1>1, <1>12, <3>1 DEF Earlier, SentBefore, Frame
  <2>4. CASE f \notin air /\ g \notin air
    <3>1. f.sent = g.sent /\ (f.n < g.n \/ (f.n = g.n /\ f.kind = "sync" /\ g.kind = "data"))
      BY <1>1, <1>8, <1>10, <1>12, <2>4 DEF Earlier, SentBefore
    <3>2. CASE Again(f) /\ Again(g)
      <4>1. PICK m \in resend : f = Copy("data", m, Old(m))
        BY <3>2
      <4>2. PICK n \in resend : g = Copy("data", n, Old(n))
        BY <3>2
      <4>3. m < n
        BY <3>1, <4>1, <4>2
      <4> QED BY <1>7, <4>1, <4>2, <4>3
    <3>3. CASE ~ Again(g)
      <4>1. g.base = b
        BY <1>8, <2>4, <3>3
      <4> QED BY <1>8, <1>10, <2>4, <4>1
    <3>4. CASE ~ Again(f) /\ Again(g)
      <4>1. f.n \in Nat /\ f.n >= next
        BY <1>1, <1>8, <2>4, <3>4
      <4>2. g.n \in Nat /\ g.n < next
        BY <1>1, <3>4
      <4> QED BY <1>1, <3>1, <4>1, <4>2
    <3> QED BY <3>2, <3>3, <3>4
  <2> QED BY <2>1, <2>2, <2>3, <2>4
<1> QED BY <1>11, <1>12 DEF AirInv

SackType == [base : Nat, heard : Nat, bits : SUBSET (1..(Half - 1))]

(***************************************************************************)
(* Every action of A is a run of the same shape: of the outstanding        *)
(* numbers, hits are acknowledged (and B has them), gone are given up, and *)
(* the rest is transmitted or stays.                                       *)
(***************************************************************************)
SenderRun(hits, gone) ==
  /\ hits \in SUBSET DOMAIN outq /\ gone \in SUBSET DOMAIN outq
  /\ hits \cap gone = {} /\ (~ stale => hits \subseteq Has(rx))
  /\ \E dropped, resend \in SUBSET DOMAIN outq, sync \in BOOLEAN, q \in Nat,
        k \in Counts :
       /\ \A n \in resend : outq[n].tries <= MaxRetries /\ n \notin hits
       /\ Transmit(DOMAIN outq \ (hits \cup gone), dropped, resend, sync, q, k)
  /\ acked' = acked \cup hits /\ gaveUp' = gaveUp \cup gone
  /\ syncLeft' \in 0..SyncCopies /\ submitted' \in Nat
  /\ sacks' \in Seq(SackType)
  /\ \A i \in 1..Len(sacks') : \E j \in 1..Len(sacks) : sacks'[i] = sacks[j]
  /\ sacks = << >> => sacks' = << >>
  /\ UNCHANGED <<epoch, receiver, first, stale, lives>>

\* What a SACK in time acknowledges, B has.
LEMMA HitsAreReceived ==
  ASSUME Inv, BoundedOutage, ~ stale, sacks # << >>,
         NEW s \in SackType, TellsTruth(s), Timely(s),
         NEW n \in DOMAIN outq, Acknowledges(s, n)
  PROVE  n \in Has(rx)
<1>0. Fresh
  BY DEF Inv, TruthInv
<1>1. /\ s.base \in Nat /\ s.heard \in Nat /\ s.heard <= s.base
      /\ s.base <= s.heard + Window /\ s.heard <= Base /\ s.base <= rx.base
      /\ \A d \in s.bits : s.base + d \in Has(rx)
  BY DEF TellsTruth, SackType
<1>2. /\ n \in Nat /\ Base \in Nat /\ Base <= n /\ next \in Nat /\ n < next
      /\ next <= Base + Window /\ first \in Nat /\ first <= n
      /\ heard \in Nat /\ heard <= Base
  BY SenderTypes
<1>3. Base - s.heard <= MaxAckLag
  BY DEF Timely, Base
<1>4. MaxAckLag + Window <= Half
  BY DEF BoundedOutage
<1>5. CASE n < s.base
  <2>1. rx.base \in Nat
    BY DEF Inv, ReceiverInv, Exact, IsWindow
  <2>2. n \in first..(rx.base - 1)
    BY <1>1, <1>2, <1>5, <2>1
  <2>3. n \in DOMAIN rx.got \/ n < heard
    BY <1>0, <2>2 DEF Inv, ReceiverInv
  <2> QED BY <1>2, <2>3 DEF Has
<1>6. CASE s.base <= n
  <2>1. n - s.base < Half /\ n < s.base + SeqMod
    BY SMTT(30), <1>1, <1>2, <1>3, <1>4, ConstantTypes
  <2>2. Dist(n, s.base) = n - s.base
    BY <1>1, <1>2, <1>6, <2>1, DistAhead
  <2>3. Dist(n, s.base) \in s.bits
    BY <2>1, <2>2, <1>1, <1>2, ConstantTypes DEF Acknowledges
  <2>4. s.base + (n - s.base) = n
    BY <1>1, <1>2
  <2> QED BY <1>1, <2>2, <2>3, <2>4
<1> QED BY <1>1, <1>2, <1>5, <1>6

\* A run of A preserves the invariant.
LEMMA SenderRunInv ==
  ASSUME Inv, NEW hits, NEW gone, SenderRun(hits, gone)
  PROVE  Inv'
<1> DEFINE kept == DOMAIN outq \ (hits \cup gone)
<1>1. PICK dropped \in SUBSET DOMAIN outq, resend \in SUBSET DOMAIN outq,
           sync \in BOOLEAN, q \in Nat, k \in Counts :
        /\ \A n \in resend : outq[n].tries <= MaxRetries /\ n \notin hits
        /\ Transmit(kept, dropped, resend, sync, q, k)
  BY DEF SenderRun
<1>2. /\ hits \in SUBSET DOMAIN outq /\ gone \in SUBSET DOMAIN outq
      /\ hits \cap gone = {} /\ (~ stale => hits \subseteq Has(rx))
      /\ acked' = acked \cup hits /\ gaveUp' = gaveUp \cup gone
      /\ syncLeft' \in 0..SyncCopies /\ submitted' \in Nat
      /\ sacks' \in Seq(SackType)
      /\ \A i \in 1..Len(sacks') : \E j \in 1..Len(sacks) : sacks'[i] = sacks[j]
      /\ sacks = << >> => sacks' = << >>
      /\ epoch' = epoch /\ rx' = rx /\ ackDue' = ackDue /\ heard' = heard
      /\ first' = first /\ stale' = stale /\ lives' = lives
  BY DEF SenderRun, receiver
<1>3. kept \in SUBSET DOMAIN outq
  OBVIOUS
<1>4. /\ queue' \in Nat /\ next' \in Nat /\ clock' \in Nat
      /\ IsMap(outq', Entry) /\ next' = next + k
      /\ DOMAIN outq' = kept \cup (next..(next' - 1))
      /\ \A n \in DOMAIN outq' : n < next'
      /\ Base <= Base' /\ next' <= Base' + Window /\ Base' = SendBase(kept, next)
  <2> HIDE DEF kept
  <2> QED BY <1>1, <1>3, TransmitWindow
<1>5. (\A f \in air' : f \in Frame) /\ AirInv'
  <2>1. (\A n \in resend : n \in kept \/ n \in gaveUp') /\ gaveUp \subseteq gaveUp'
    BY <1>1, <1>2
  <2> HIDE DEF kept
  <2> QED BY <1>1, <1>2, <1>3, <2>1, TransmitAir
<1>6. /\ next \in Nat /\ k \in Nat /\ Base \in Nat /\ heard \in Nat /\ Window \in Nat
      /\ first \in Nat /\ heard <= Base
      /\ \A n \in DOMAIN outq : n \in Nat /\ first <= n /\ n < next
  BY SenderTypes, ConstantTypes
<1>7. Base' \in Nat
  <2>1. kept \in SUBSET Nat /\ \A n \in kept : n < next
    BY <1>6
  <2> HIDE DEF kept
  <2> QED BY <1>4, <1>6, <2>1, SendBaseBounds
<1>8. SenderInv'
  <2>1. /\ first <= next
        /\ \A n \in first..(next - 1) : n \in DOMAIN outq \cup acked \cup gaveUp
        /\ \A n \in acked : first <= n /\ n < next
        /\ \A n \in gaveUp : n < next
        /\ DOMAIN outq \cap acked = {} /\ DOMAIN outq \cap gaveUp = {}
        /\ acked \cap gaveUp = {} /\ \A n \in acked \cup gaveUp : n \in Nat
    BY DEF Inv, SenderInv, TypeOK
  <2>2. \A n \in first..(next' - 1) : n \in DOMAIN outq' \cup acked' \cup gaveUp'
    <3> SUFFICES ASSUME NEW n \in first..(next' - 1)
                 PROVE  n \in DOMAIN outq' \cup acked' \cup gaveUp'
      OBVIOUS
    <3>1. n \in first..(next - 1) \/ n \in next..(next' - 1)
      BY <1>4, <1>6
    <3> QED BY <1>2, <1>4, <2>1, <3>1
  <2>3. /\ \A n \in acked' \cup gaveUp' : n \in Nat /\ n < next
        /\ \A n \in acked' : first <= n
    BY <1>2, <1>6, <2>1
  <2>4. \A n \in DOMAIN outq' : n \notin acked' /\ n \notin gaveUp'
    <3>1. \A n \in kept : n \notin acked' /\ n \notin gaveUp'
      BY <1>2, <2>1
    <3>2. \A n \in next..(next' - 1) : ~ (n < next)
      BY <1>4, <1>6
    <3> QED BY <1>4, <2>3, <3>1, <3>2
  <2>5. acked' \cap gaveUp' = {}
    BY <1>2, <2>1
  <2>6. /\ first' <= next' /\ \A n \in acked' \cup gaveUp' : n < next'
        /\ \A n \in DOMAIN outq' : first' <= n
    BY <1>2, <1>4, <1>6, <2>1, <2>3
  <2>7. \A n \in first'..(next' - 1) : n \in DOMAIN outq' \cup acked' \cup gaveUp'
    BY <1>2, <2>2
  <2> QED BY <1>2, <1>4, <2>3, <2>4, <2>5, <2>6, <2>7 DEF SenderInv
<1>9. ReceiverInv'
  <2>1. /\ ReceiverInv /\ Fresh' = Fresh /\ first' = first
        /\ heard' = heard /\ rx' = rx
    BY <1>2 DEF Inv, Fresh
  <2>2. heard' <= Base'
    BY <1>2, <1>4, <1>6, <1>7
  <2>3. \A n \in Has(rx) : n < next'
    <3>1. \A n \in Has(rx) : n \in Nat /\ n < next
      BY DEF Inv, ReceiverInv, Exact, IsWindow, IsMap, Has
    <3> QED BY <1>4, <1>6, <3>1
  <2>4. Exact(rx)' <=> Exact(rx)
    BY <1>2 DEF Exact, IsWindow, IsMap
  <2>5. Has(rx)' = Has(rx)
    BY <1>2 DEF Has
  <2>6. Ahead(rx, heard)' <=> Ahead(rx, heard)
    BY <1>2 DEF Ahead
  <2> QED BY <2>1, <2>2, <2>3, <2>4, <2>5, <2>6 DEF ReceiverInv
<1>10. TruthInv'
  <2> SUFFICES ASSUME ~ stale PROVE TruthInv'
    BY <1>2 DEF TruthInv
  <2>0. /\ Fresh' = Fresh /\ Has(rx)' = Has(rx) /\ stale' = stale
        /\ acked' \subseteq Has(rx)
        /\ ~ Fresh => sacks' = << >> /\ ~ ackDue'
    BY <1>2 DEF Inv, TruthInv, Fresh, Has
  <2>1. ASSUME NEW i \in 1..Len(sacks') PROVE TellsTruth(sacks[i])'
    <3>1. PICK j \in 1..Len(sacks) : sacks'[i] = sacks[j]
      BY <1>2
    <3>2. TellsTruth(sacks[j])
      BY DEF Inv, TruthInv, SackInv
    <3>3. sacks[j] \in SackType
      <4>1. sacks \in Seq(SackType)
        BY DEF Inv, TypeOK, SackType
      <4> QED BY <4>1, ElementOfSeq
    <3>4. sacks'[i].heard <= Base'
      BY SMTT(30), <1>4, <1>6, <1>7, <3>1, <3>2, <3>3 DEF TellsTruth, SackType
    <3> QED BY <1>2, <3>1, <3>2, <3>4 DEF TellsTruth, Has
  <2> QED BY <2>0, <2>1 DEF TruthInv, SackInv
<1>11. TypeOK'
  <2>1. TypeOK
    BY DEF Inv
  <2>2. \A n \in acked' \cup gaveUp' : n \in Nat
    BY <1>2, <1>6, <2>1 DEF TypeOK
  <2>3. IsWindow(rx)'
    BY <1>2, <2>1 DEF TypeOK, IsWindow, IsMap
  <2> QED BY <1>2, <1>4, <1>5, <2>1, <2>2, <2>3 DEF TypeOK, Entry, SackType
<1> QED BY <1>5, <1>8, <1>9, <1>10, <1>11 DEF Inv

\* A run of A that acknowledges nothing and retransmits nothing.
LEMMA PlainRun ==
  ASSUME NEW gone \in SUBSET DOMAIN outq, NEW q \in Nat, NEW k \in Counts,
         Transmit(DOMAIN outq \ gone, {}, {}, FALSE, q, k),
         acked' = acked, gaveUp' = gaveUp \cup gone,
         syncLeft' \in 0..SyncCopies, submitted' \in Nat,
         sacks \in Seq(SackType), sacks' = sacks,
         UNCHANGED <<epoch, receiver, first, stale, lives>>
  PROVE  SenderRun({}, gone)
<1>1. {} \in SUBSET DOMAIN outq /\ {} \cap gone = {} /\ {} \subseteq Has(rx)
  OBVIOUS
<1>2. DOMAIN outq \ gone = DOMAIN outq \ ({} \cup gone)
  OBVIOUS
<1>3. \E dropped, resend \in SUBSET DOMAIN outq, sync \in BOOLEAN, p \in Nat,
        j \in Counts :
        /\ \A n \in resend : outq[n].tries <= MaxRetries /\ n \notin {}
        /\ Transmit(DOMAIN outq \ ({} \cup gone), dropped, resend, sync, p, j)
  <2>1. \A n \in {} : outq[n].tries <= MaxRetries /\ n \notin {}
    OBVIOUS
  <2>2. Transmit(DOMAIN outq \ ({} \cup gone), {}, {}, FALSE, q, k)
    BY <1>2
  <2>3. WITNESS {} \in SUBSET DOMAIN outq, {} \in SUBSET DOMAIN outq,
                FALSE \in BOOLEAN, q \in Nat, k \in Counts
  <2> QED BY <2>1, <2>2
<1>4. acked' = acked \cup {}
  OBVIOUS
<1> QED BY <1>1, <1>3, <1>4 DEF SenderRun

\* Every action of A is a run.
LEMMA SenderActsInRuns ==
  ASSUME Inv, BoundedOutage, SenderNext
  PROVE  \E hits, gone \in SUBSET DOMAIN outq : SenderRun(hits, gone)
<1>1. /\ queue \in Nat /\ submitted \in Nat /\ syncLeft \in 0..SyncCopies
      /\ sacks \in Seq(SackType) /\ Len(sacks) \in Nat
      /\ \A n \in DOMAIN outq : outq[n].tries \in Nat
      /\ SyncCopies \in Nat /\ SyncCopies > 0 /\ MaxRetries \in Nat
  <2>1. /\ queue \in Nat /\ submitted \in Nat /\ syncLeft \in 0..SyncCopies
        /\ sacks \in Seq(SackType)
    BY DEF Inv, TypeOK, SackType
  <2>2. Len(sacks) \in Nat
    BY <2>1, LenProperties
  <2>3. \A n \in DOMAIN outq : outq[n].tries \in Nat
    BY SenderTypes, ConstantTypes DEF Entry
  <2> QED BY <2>1, <2>2, <2>3, ConstantTypes
<1>2. DOMAIN outq = DOMAIN outq \ {}
  OBVIOUS
<1>3. ASSUME NEW k \in Counts, SendData(k) PROVE SenderRun({}, {})
  <2>1. Transmit(DOMAIN outq \ {}, {}, {}, FALSE, queue + 1, k)
    BY <1>2, <1>3 DEF SendData
  <2>2. /\ acked' = acked /\ gaveUp' = gaveUp \cup {} /\ syncLeft' = syncLeft
        /\ submitted' = submitted + 1 /\ sacks' = sacks
        /\ UNCHANGED <<epoch, receiver, first, stale, lives>>
    BY <1>3 DEF SendData
  <2>3. queue + 1 \in Nat /\ submitted + 1 \in Nat /\ {} \in SUBSET DOMAIN outq
    BY <1>1
  <2> QED BY <1>1, <2>1, <2>2, <2>3, PlainRun
<1>4. ASSUME NEW E \in SUBSET DOMAIN outq, NEW S \in SUBSET DOMAIN outq,
             NEW sync \in BOOLEAN, NEW k \in Counts, Tick(E, S, sync, k)
      PROVE  SenderRun({}, Exhausted(E) \cup S)
  <2> DEFINE gone == Exhausted(E) \cup S
             resend == E \ (Exhausted(E) \cup S)
  <2>1. Exhausted(E) \in SUBSET DOMAIN outq /\ gone \in SUBSET DOMAIN outq
        /\ resend \in SUBSET DOMAIN outq
    BY DEF Exhausted
  <2>2. \A n \in resend : outq[n].tries <= MaxRetries
    BY <1>1 DEF Exhausted
  <2>3. DOMAIN outq \ gone = DOMAIN outq \ ({} \cup gone)
    OBVIOUS
  <2>4. Transmit(DOMAIN outq \ ({} \cup gone), Exhausted(E), resend, sync,
                 queue, k)
    BY <1>4, <2>3 DEF Tick
  <2>5. /\ acked' = acked /\ gaveUp' = gaveUp \cup gone
        /\ submitted' = submitted /\ sacks' = sacks
        /\ UNCHANGED <<epoch, receiver, first, stale, lives>>
    BY <1>4 DEF Tick
  <2>6. syncLeft' \in 0..SyncCopies
    <3> DEFINE left == IF Exhausted(E) # {} THEN SyncCopies ELSE syncLeft
    <3>1. (sync => left > 0) /\ syncLeft' = IF sync THEN left - 1 ELSE left
      BY <1>4 DEF Tick
    <3>2. left \in 0..SyncCopies
      BY <1>1
    <3> HIDE DEF left
    <3> QED BY <1>1, <3>1, <3>2
  <2> HIDE DEF gone, resend
  <2>7. SenderRun({}, gone)
    BY <1>1, <2>1, <2>2, <2>4, <2>5, <2>6 DEF SenderRun
  <2> QED BY <2>7 DEF gone
<1>5. ASSUME NEW E \in SUBSET DOMAIN outq, TickHeld(E) PROVE SenderRun({}, E)
  <2>2. Transmit(DOMAIN outq \ E, {}, {}, FALSE, queue, 0)
    BY <1>5 DEF TickHeld
  <2>3. /\ acked' = acked /\ gaveUp' = gaveUp \cup E /\ syncLeft' = SyncCopies
        /\ submitted' = submitted /\ sacks' = sacks
        /\ UNCHANGED <<epoch, receiver, first, stale, lives>>
    BY <1>5 DEF TickHeld
  <2>4. 0 \in Counts
    BY ConstantTypes DEF Counts
  <2>5. /\ syncLeft' \in 0..SyncCopies /\ submitted' \in Nat /\ queue \in Nat
        /\ sacks \in Seq(SackType)
    BY <1>1, <2>3
  <2> QED BY <2>2, <2>3, <2>4, <2>5, PlainRun
<1>6. ASSUME NEW S \in SUBSET DOMAIN outq, NEW q \in 0..queue,
             NEW k \in Counts, PurgeFile(S, q, k)
      PROVE  SenderRun({}, S)
  <2>2. Transmit(DOMAIN outq \ S, {}, {}, FALSE, queue - q, k)
    BY <1>6 DEF PurgeFile
  <2>3. /\ acked' = acked /\ gaveUp' = gaveUp \cup S
        /\ syncLeft' \in {SyncCopies, syncLeft}
        /\ submitted' = submitted /\ sacks' = sacks
        /\ UNCHANGED <<epoch, receiver, first, stale, lives>>
    BY <1>6 DEF PurgeFile
  <2>4. queue - q \in Nat
    BY <1>1
  <2>5. /\ syncLeft' \in 0..SyncCopies /\ submitted' \in Nat
        /\ sacks \in Seq(SackType)
    BY <1>1, <2>3
  <2> QED BY <2>2, <2>3, <2>4, <2>5, PlainRun
<1>7. ASSUME NEW i \in DOMAIN sacks, NEW ready \in BOOLEAN,
             NEW S \in SUBSET DOMAIN outq, NEW k \in Counts,
             RecvSack(i, ready, S, k)
      PROVE  \E hits, gone \in SUBSET DOMAIN outq : SenderRun(hits, gone)
  <2> DEFINE s == sacks[i]
             hits == {n \in DOMAIN outq : Acknowledges(s, n)}
             lost == {n \in DOMAIN outq \ hits :
                        \E m \in hits : SentBefore(outq[n], n, outq[m], m)}
             dropped == IF ready THEN Exhausted(lost) ELSE {}
             resend == IF ready THEN lost \ dropped ELSE {}
             gone == dropped \cup S
  <2>1. /\ Timely(s) /\ S \cap hits = {}
        /\ sacks' = SubSeq(sacks, i + 1, Len(sacks))
        /\ Transmit(DOMAIN outq \ (hits \cup dropped \cup S), dropped, resend,
                    FALSE, queue, k)
        /\ syncLeft' \in {SyncCopies, syncLeft}
        /\ acked' = acked \cup hits /\ gaveUp' = gaveUp \cup dropped \cup S
        /\ UNCHANGED <<epoch, receiver, first, stale, submitted, lives>>
    BY <1>7 DEF RecvSack
  <2>2. i \in 1..Len(sacks) /\ s \in SackType /\ (~ stale => TellsTruth(s))
    <3>1. i \in 1..Len(sacks)
      BY <1>1
    <3> QED BY <1>1, <3>1, ElementOfSeq DEF Inv, TruthInv, SackInv
  <2>3. ASSUME ~ stale PROVE hits \subseteq Has(rx)
    <3> HIDE DEF s
    <3>0. TellsTruth(s)
      BY <2>2, <2>3
    <3>1. sacks # << >>
      BY <2>2
    <3> QED BY <2>1, <2>2, <2>3, <3>0, <3>1, HitsAreReceived
  <2>4. /\ lost \in SUBSET DOMAIN outq /\ lost \cap hits = {}
        /\ dropped \in SUBSET lost /\ resend \in SUBSET lost
    BY DEF Exhausted
  <2>5. \A n \in resend : outq[n].tries <= MaxRetries /\ n \notin hits
    BY <1>1, <2>4 DEF Exhausted
  <2>6. sacks' \in Seq(SackType) /\ Len(sacks') = Len(sacks) - i
        /\ \A j \in 1..(Len(sacks) - i) : sacks'[j] = sacks[j + i]
    <3>1. \A j \in (i + 1)..Len(sacks) : sacks[j] \in SackType
      BY <1>1, <2>2, ElementOfSeq
    <3>2. /\ SubSeq(sacks, i + 1, Len(sacks)) \in Seq(SackType)
          /\ Len(SubSeq(sacks, i + 1, Len(sacks)))
               = IF i + 1 <= Len(sacks) THEN Len(sacks) - (i + 1) + 1 ELSE 0
          /\ \A j \in 1..(Len(sacks) - (i + 1) + 1) :
               SubSeq(sacks, i + 1, Len(sacks))[j] = sacks[i + 1 + j - 1]
      BY <1>1, <2>2, <3>1, SubSeqProperties
    <3> QED BY <1>1, <2>1, <2>2, <3>2
  <2>7. /\ \A j \in 1..Len(sacks') : \E l \in 1..Len(sacks) : sacks'[j] = sacks[l]
        /\ sacks # << >>
    <3>1. ASSUME NEW j \in 1..Len(sacks')
          PROVE  \E l \in 1..Len(sacks) : sacks'[j] = sacks[l]
      <4>1. j + i \in 1..Len(sacks) /\ sacks'[j] = sacks[j + i]
        BY <1>1, <2>2, <2>6
      <4> QED BY <4>1
    <3>2. sacks # << >>
      BY <2>2
    <3> QED BY <3>1, <3>2
  <2> HIDE DEF s, lost, dropped, resend
  <2>8. hits \in SUBSET DOMAIN outq
    OBVIOUS
  <2> HIDE DEF hits
  <2>9. /\ gone \in SUBSET DOMAIN outq /\ hits \cap gone = {}
        /\ gaveUp' = gaveUp \cup gone
        /\ DOMAIN outq \ (hits \cup dropped \cup S)
             = DOMAIN outq \ (hits \cup gone)
    BY <2>1, <2>4
  <2>10. Transmit(DOMAIN outq \ (hits \cup gone), dropped, resend, FALSE,
                  queue, k)
    BY <2>1, <2>9
  <2>11. dropped \in SUBSET DOMAIN outq /\ resend \in SUBSET DOMAIN outq
    BY <2>4
  <2>12. syncLeft' \in 0..SyncCopies /\ submitted' \in Nat
    BY <1>1, <2>1
  <2> HIDE DEF gone
  <2>13. SenderRun(hits, gone)
    BY <1>1, <2>1, <2>3, <2>5, <2>6, <2>7, <2>8, <2>9, <2>10, <2>11, <2>12
       DEF SenderRun
  <2> QED BY <2>8, <2>9, <2>13
<1> DEFINE Goal == \E hits, gone \in SUBSET DOMAIN outq : SenderRun(hits, gone)
<1>8. ASSUME NEW gone \in SUBSET DOMAIN outq, SenderRun({}, gone) PROVE Goal
  <2>1. {} \in SUBSET DOMAIN outq
    OBVIOUS
  <2> QED BY <1>8, <2>1
<1> HIDE DEF Goal
<1>9. CASE \E k \in Counts : SendData(k)
  BY <1>3, <1>8, <1>9
<1>10. CASE \E E, S \in SUBSET DOMAIN outq, sync \in BOOLEAN, k \in Counts :
              Tick(E, S, sync, k)
  <2>1. PICK E \in SUBSET DOMAIN outq, S \in SUBSET DOMAIN outq,
             sync \in BOOLEAN, k \in Counts : Tick(E, S, sync, k)
    BY <1>10
  <2>2. SenderRun({}, Exhausted(E) \cup S)
    BY <1>4, <2>1
  <2>3. Exhausted(E) \cup S \in SUBSET DOMAIN outq
    BY DEF Exhausted
  <2> QED BY <1>8, <2>2, <2>3
<1>11. CASE \E E \in SUBSET DOMAIN outq : TickHeld(E)
  BY <1>5, <1>8, <1>11
<1>12. CASE \E i \in DOMAIN sacks, ready \in BOOLEAN, S \in SUBSET DOMAIN outq,
              k \in Counts : RecvSack(i, ready, S, k)
  <2>1. PICK i \in DOMAIN sacks, ready \in BOOLEAN, S \in SUBSET DOMAIN outq,
             k \in Counts : RecvSack(i, ready, S, k)
    BY <1>12
  <2> QED BY <1>7, <2>1 DEF Goal
<1>13. CASE \E S \in SUBSET DOMAIN outq, q \in 0..queue, k \in Counts :
              PurgeFile(S, q, k)
  <2>1. PICK S \in SUBSET DOMAIN outq, q \in 0..queue, k \in Counts :
          PurgeFile(S, q, k)
    BY <1>13
  <2>2. SenderRun({}, S)
    BY <1>6, <2>1
  <2> QED BY <1>8, <2>2
<1> QED BY <1>9, <1>10, <1>11, <1>12, <1>13 DEF SenderNext

----------------------------------------------------------------------------
\* The receiver.

\* What the SACK channel holds after one more SACK.
LEMMA SendKeeps ==
  ASSUME sacks \in Seq(SackType), NEW s \in SackType
  PROVE  /\ Send(s) \in Seq(SackType)
         /\ \A i \in 1..Len(Send(s)) :
              Send(s)[i] = s \/ \E j \in 1..Len(sacks) : Send(s)[i] = sacks[j]
<1>1. Len(sacks) \in Nat /\ MaxSacks \in Nat /\ MaxSacks > 0
  BY LenProperties, BoundAssumption
<1>2. CASE Len(sacks) = MaxSacks
  <2> DEFINE t == Tail(sacks)
  <2>1. sacks # << >>
    BY <1>1, <1>2
  <2>2. /\ t \in Seq(SackType) /\ Len(t) = Len(sacks) - 1
        /\ \A i \in 1..Len(t) : t[i] = sacks[i + 1]
    BY <2>1, HeadTailProperties
  <2> HIDE DEF t
  <2>3. /\ Append(t, s) \in Seq(SackType) /\ Len(Append(t, s)) = Len(t) + 1
        /\ \A i \in 1..Len(t) : Append(t, s)[i] = t[i]
        /\ Append(t, s)[Len(t) + 1] = s
    BY <2>2, AppendProperties
  <2>4. Send(s) = Append(t, s)
    BY <1>2 DEF Send, t
  <2>5. ASSUME NEW i \in 1..Len(Append(t, s))
        PROVE  Append(t, s)[i] = s
                 \/ \E j \in 1..Len(sacks) : Append(t, s)[i] = sacks[j]
    <3>1. CASE i = Len(t) + 1
      BY <2>3, <3>1
    <3>2. CASE i # Len(t) + 1
      <4>1. i \in 1..Len(t) /\ i + 1 \in 1..Len(sacks)
        BY <1>1, <2>2, <2>3, <3>2
      <4>2. Append(t, s)[i] = sacks[i + 1]
        BY <2>2, <2>3, <4>1
      <4> QED BY <4>1, <4>2
    <3> QED BY <3>1, <3>2
  <2> QED BY <2>3, <2>4, <2>5
<1>3. CASE Len(sacks) # MaxSacks
  <2>1. /\ Append(sacks, s) \in Seq(SackType)
        /\ Len(Append(sacks, s)) = Len(sacks) + 1
        /\ \A i \in 1..Len(sacks) : Append(sacks, s)[i] = sacks[i]
        /\ Append(sacks, s)[Len(sacks) + 1] = s
    BY AppendProperties
  <2>2. Send(s) = Append(sacks, s)
    BY <1>3 DEF Send
  <2>3. ASSUME NEW i \in 1..Len(Append(sacks, s))
        PROVE  Append(sacks, s)[i] = s
                 \/ \E j \in 1..Len(sacks) : Append(sacks, s)[i] = sacks[j]
    <3>1. CASE i = Len(sacks) + 1
      BY <2>1, <3>1
    <3>2. CASE i # Len(sacks) + 1
      <4>1. i \in 1..Len(sacks)
        BY <1>1, <2>1, <3>2
      <4> QED BY <2>1, <4>1
    <3> QED BY <3>1, <3>2
  <2> QED BY <2>1, <2>2, <2>3
<1> QED BY <1>2, <1>3

\* A SACK is true of the window it is made from.
LEMMA SackTellsTruth ==
  ASSUME NEW w, Exact(w), NEW b \in Nat
  PROVE  /\ Sack(w, b) \in SackType
         /\ Sack(w, b).base = w.base /\ Sack(w, b).heard = b
         /\ \A d \in Sack(w, b).bits : w.base + d \in Has(w)
<1>1. w.base \in Nat /\ DOMAIN w.buf \subseteq Nat
  BY DEF Exact, IsWindow, IsMap
<1> DEFINE bits == {k - w.base : k \in DOMAIN w.buf} \cap 1..(Half - 1)
<1>2. Sack(w, b) = [base |-> w.base, heard |-> b, bits |-> bits]
  BY DEF Sack
<1>3. bits \in SUBSET (1..(Half - 1))
  OBVIOUS
<1>4. ASSUME NEW d \in bits PROVE w.base + d \in Has(w)
  <2>1. PICK k \in DOMAIN w.buf : d = k - w.base
    OBVIOUS
  <2>2. w.base + d = k
    BY <1>1, <2>1
  <2> QED BY <2>2 DEF Has
<1> HIDE DEF bits
<1> QED BY <1>1, <1>2, <1>3, <1>4 DEF SackType

\* What this engine of A no longer keeps was acknowledged or given up.
LEMMA BelowBase ==
  ASSUME Inv, NEW k \in Nat, first <= k, k < Base
  PROVE  k < next /\ (k \in acked \/ k \in gaveUp)
<1>1. /\ next \in Nat /\ Base \in Nat /\ Base <= next /\ first \in Nat
      /\ \A n \in DOMAIN outq : n \in Nat /\ Base <= n
  BY SenderTypes
<1>2. k \in first..(next - 1) /\ k \notin DOMAIN outq
  BY <1>1
<1>3. k \in DOMAIN outq \cup acked \cup gaveUp
  BY <1>2 DEF Inv, SenderInv
<1> QED BY <1>1, <1>2, <1>3

\* The window a frame meets, when A has not run too far ahead: that of this
\* engine of A, or a new one, which forgets what an earlier engine's held.
LEMMA WindowMet ==
  ASSUME Inv, BoundedOutage, NEW f \in air, Hears(f)
  PROVE  LET w == CheckEpoch(WindowFor(f), f) IN
         /\ Exact(w) /\ Ahead(w, f.base) /\ f.base - w.base < Half
         /\ w.known /\ w.epoch = epoch
         /\ Has(w) \subseteq Has(rx) /\ (Fresh => Has(w) = Has(rx))
         /\ ~ stale => acked \subseteq Has(w)
         /\ DOMAIN w.got = DOMAIN rx.got /\ rx.base <= w.base
         /\ \A k \in first..(w.base - 1) : k \in DOMAIN w.got \/ k < f.base
<1>1. /\ f \in Frame /\ f.base \in Nat /\ heard \in Nat /\ f.epoch = epoch
      /\ heard <= f.base /\ f.base <= Base /\ f.epoch \in Epochs
      /\ first \in Nat /\ first <= heard
  BY SenderTypes DEF Inv, AirInv, Fits, Frame
<1>2. Exact(rx) /\ rx.base \in Nat /\ (~ stale => acked \subseteq Has(rx))
  BY DEF Inv, ReceiverInv, TruthInv, Exact, IsWindow
<1>3. MaxLead \in Nat /\ MaxLead < Half /\ Window \in Nat /\ Half \in Nat
  BY ConstantTypes DEF BoundedOutage
<1>4. CASE Fresh
  <2>0. /\ rx.known /\ rx.epoch = epoch /\ heard <= rx.base /\ Ahead(rx, heard)
        /\ \A k \in first..(rx.base - 1) : k \in DOMAIN rx.got \/ k < heard
    BY <1>4 DEF Inv, ReceiverInv, Fresh
  <2>1. CheckEpoch(WindowFor(f), f) = rx
    BY <1>1, <2>0 DEF CheckEpoch, WindowFor
  <2>2. f.base - rx.base < Half
    <3>1. f.base - heard <= MaxLead
      BY <1>1, <2>0 DEF Hears
    <3> QED BY <1>1, <1>2, <1>3, <2>0, <3>1
  <2>3. Ahead(rx, f.base)
    <3>1. DOMAIN rx.buf \subseteq Nat
      BY <1>2 DEF Exact, IsWindow, IsMap
    <3> QED BY <1>1, <1>2, <1>3, <2>0, <3>1 DEF Ahead
  <2>4. \A k \in first..(rx.base - 1) : k \in DOMAIN rx.got \/ k < f.base
    BY <1>1, <1>2, <2>0
  <2> QED BY <1>2, <2>0, <2>1, <2>2, <2>3, <2>4
<1>5. CASE ~ Fresh
  <2> DEFINE w == [known |-> TRUE, epoch |-> epoch, base |-> f.base,
                   buf |-> Empty, got |-> rx.got]
  <2>1. rx = [known |-> rx.known, epoch |-> rx.epoch, base |-> rx.base,
              buf |-> rx.buf, got |-> rx.got]
    BY <1>2 DEF Exact, IsWindow
  <2>2. CheckEpoch(WindowFor(f), f) = w
    <3>1. CASE ~ rx.known
      <4>1. WindowFor(f) = w
        BY <1>1, <2>1, <3>1 DEF WindowFor
      <4> QED BY <1>1, <4>1 DEF CheckEpoch
    <3>2. CASE rx.known
      <4>1. WindowFor(f) = rx /\ f.epoch # rx.epoch /\ rx.known = TRUE
        BY <1>1, <1>2, <1>5, <3>2 DEF WindowFor, Fresh, Exact, IsWindow
      <4> QED BY <1>1, <2>1, <4>1 DEF CheckEpoch
    <3> QED BY <3>1, <3>2
  <2>3. rx.base <= first /\ \A k \in Has(rx) : k \in Nat /\ k < first
    BY <1>5 DEF Inv, ReceiverInv, Exact, IsWindow, IsMap, Has
  <2>4. /\ ~ stale => acked = {}
        /\ \A k \in DOMAIN rx.got : rx.got[k] = k /\ k < f.base
    <3>1. ~ stale => acked = {}
      <4>1. \A n \in acked : n \in Nat /\ first <= n
        BY DEF Inv, TypeOK, SenderInv
      <4> QED BY <1>1, <1>2, <2>3, <4>1
    <3>2. \A k \in DOMAIN rx.got : rx.got[k] = k /\ k \in Nat /\ k < first
      BY <1>2, <2>3 DEF Exact, Has
    <3> QED BY <1>1, <3>1, <3>2
  <2>5. DOMAIN Empty = {} /\ IsMap(Empty, Nat)
    BY DEF Empty, IsMap
  <2>6. Exact(w)
    <3>1. IsMap(rx.got, Nat) /\ epoch \in Epochs
      BY <1>1, <1>2 DEF Exact, IsWindow
    <3> HIDE DEF w
    <3>2. /\ w = [known |-> TRUE, epoch |-> epoch, base |-> f.base,
                   buf |-> Empty, got |-> rx.got]
          /\ w.known = TRUE /\ w.epoch = epoch /\ w.base = f.base
          /\ w.buf = Empty /\ w.got = rx.got
      BY DEF w
    <3> QED BY <1>1, <2>4, <2>5, <3>1, <3>2 DEF Exact, IsWindow
  <2>7. Ahead(w, f.base)
    BY <1>1, <1>3, <2>5 DEF Ahead
  <2>8. \A k \in first..(w.base - 1) : k < f.base
    BY <1>1
  <2>9. Has(w) \subseteq Has(rx) /\ (~ stale => acked \subseteq Has(w))
    BY <2>4, <2>5 DEF Has
  <2>10. /\ w.known /\ w.epoch = epoch /\ w.base = f.base
         /\ DOMAIN w.got = DOMAIN rx.got
    OBVIOUS
  <2> HIDE DEF w
  <2>11. f.base - w.base < Half /\ rx.base <= w.base
    BY <1>1, <1>2, <1>3, <2>3, <2>10
  <2> QED BY <1>5, <2>2, <2>6, <2>7, <2>8, <2>9, <2>10, <2>11
<1> QED BY <1>4, <1>5

\* What hearing frame f leaves of A's side and of the air.
LEMMA HearAir ==
  ASSUME Inv, NEW f \in air, air' = {g \in air : Earlier(f, g)},
         heard' = f.base, UNCHANGED <<sender, history>>
  PROVE  SenderInv' /\ AirInv' /\ Base' = Base /\ heard' \in Nat
         /\ heard' <= Base' /\ \A g \in air' : g \in Frame
<1>1. /\ next' = next /\ outq' = outq /\ epoch' = epoch /\ clock' = clock
      /\ acked' = acked /\ gaveUp' = gaveUp /\ first' = first /\ stale' = stale
  BY DEF sender, history
<1>2. Base' = Base
  BY <1>1 DEF Base
<1>3. SenderInv'
  BY <1>1, <1>2 DEF Inv, SenderInv
<1>4. f \in Frame /\ f.base <= Base
  BY SenderTypes DEF Inv, AirInv, Fits
<1>5. \A g \in air' : g \in air /\ f.base <= g.base /\ g \in Frame
  BY SenderTypes DEF Inv, AirInv
<1>6. \A g \in air' : Fits(g)'
  BY <1>1, <1>2, <1>5 DEF Inv, AirInv, Fits
<1>7. AirInv'
  BY <1>5, <1>6 DEF Inv, AirInv
<1> QED BY <1>2, <1>3, <1>4, <1>5, <1>7 DEF Frame

\* A window that follows the one B met lacks, below its base, only what lies
\* below the base B heard.
LEMMA PassedOver ==
  ASSUME Inv, BoundedOutage, NEW f \in air, Hears(f), NEW new, NEW r,
         Follows(CheckEpoch(WindowFor(f), f), r, f.base, new)
  PROVE  \A k \in first..(r.base - 1) : k \in DOMAIN r.got \/ k < f.base
<1> DEFINE w == CheckEpoch(WindowFor(f), f)
<1>1. /\ Exact(w)
      /\ \A k \in first..(w.base - 1) : k \in DOMAIN w.got \/ k < f.base
  BY WindowMet
<1> HIDE DEF w
<1>2. /\ Exact(r) /\ DOMAIN w.got \subseteq DOMAIN r.got
      /\ \A k \in w.base..(r.base - 1) : k \in DOMAIN r.got \/ k < f.base
  BY <1>1 DEF Follows, w
<1>3. w.base \in Nat /\ r.base \in Nat /\ first \in Nat
  BY <1>1, <1>2, SenderTypes DEF Exact, IsWindow
<1> QED BY <1>1, <1>2, <1>3

\* B hears frame f and its window becomes r.
LEMMA HearInv ==
  ASSUME Inv, BoundedOutage, NEW f \in air, Hears(f),
         NEW new \in SUBSET {f.n}, new = {} \/ f.kind = "data",
         NEW r, Follows(CheckEpoch(WindowFor(f), f), r, f.base, new),
         rx' = r, heard' = f.base, ackDue' \in BOOLEAN,
         air' = {g \in air : Earlier(f, g)},
         sacks' \in Seq(SackType),
         \A i \in 1..Len(sacks') :
           sacks'[i] = Sack(r, f.base)
             \/ \E j \in 1..Len(sacks) : sacks'[i] = sacks[j],
         UNCHANGED <<sender, history>>
  PROVE  Inv'
<1> DEFINE w == CheckEpoch(WindowFor(f), f)
<1>1. /\ Exact(w) /\ w.known /\ w.epoch = epoch
      /\ Has(w) \subseteq Has(rx) /\ (Fresh => Has(w) = Has(rx))
      /\ (~ stale => acked \subseteq Has(w)) /\ rx.base <= w.base
  BY WindowMet
<1> HIDE DEF w
<1>2. /\ Exact(r) /\ Ahead(r, f.base) /\ r.known /\ r.epoch = epoch
      /\ w.base <= r.base /\ f.base <= r.base
      /\ (~ stale => acked \subseteq Has(r)) /\ (Fresh => Has(rx) \subseteq Has(r))
      /\ Has(r) \subseteq Has(rx) \cup new
      /\ DOMAIN w.got \subseteq DOMAIN r.got
      /\ \A k \in w.base..(r.base - 1) : k \in DOMAIN r.got \/ k < f.base
  BY <1>1 DEF Follows, w
<1>3. /\ SenderInv' /\ AirInv' /\ Base' = Base /\ heard' \in Nat
      /\ heard' <= Base' /\ \A g \in air' : g \in Frame
  BY HearAir
<1>4. /\ queue' = queue /\ next' = next /\ outq' = outq /\ epoch' = epoch
      /\ clock' = clock /\ syncLeft' = syncLeft /\ acked' = acked
      /\ gaveUp' = gaveUp /\ first' = first /\ stale' = stale
      /\ submitted' = submitted /\ lives' = lives
  BY DEF sender, history
<1>5. /\ w.base \in Nat /\ r.base \in Nat /\ rx.base \in Nat /\ rx.base <= r.base
      /\ DOMAIN r.buf \subseteq Nat /\ DOMAIN r.got \subseteq Nat
      /\ \A k \in DOMAIN r.buf : r.base < k
  <2>1. rx.base \in Nat
    BY DEF Inv, ReceiverInv, Exact, IsWindow
  <2> QED BY <1>1, <1>2, <2>1 DEF Exact, IsWindow, IsMap, Ahead
<1>6. /\ f \in Frame /\ f.base \in Nat /\ f.base <= Base /\ Base \in Nat
      /\ first \in Nat /\ heard \in Nat /\ first <= heard /\ heard <= f.base
      /\ f.kind = "data" => f.n < next
  BY SenderTypes DEF Inv, AirInv, Fits, Frame
<1>7. ReceiverInv'
  <2>1. \A k \in Has(r) : k < next
    BY <1>2, <1>6 DEF Inv, ReceiverInv
  <2>2. Fresh' /\ first' <= heard'
    BY <1>2, <1>4, <1>6 DEF Fresh
  <2>3. \A k \in first..(r.base - 1) : k \in DOMAIN r.got \/ k < f.base
    BY PassedOver
  <2>4. Exact(rx)' <=> Exact(r)
    BY DEF Exact, IsWindow, IsMap
  <2>5. Has(rx)' = Has(r)
    BY DEF Has
  <2>6. Ahead(rx, heard)' <=> Ahead(r, f.base)
    BY DEF Ahead
  <2> QED
    BY <1>2, <1>3, <1>4, <2>1, <2>2, <2>3, <2>4, <2>5, <2>6 DEF ReceiverInv
<1>8. TruthInv'
  <2> SUFFICES ASSUME ~ stale PROVE TruthInv'
    BY <1>4 DEF TruthInv
  <2>0. Fresh' /\ acked' \subseteq Has(rx)' /\ stale' = stale
    BY <1>2, <1>4 DEF Fresh, Has
  <2>1. ASSUME NEW i \in 1..Len(sacks') PROVE TellsTruth(sacks[i])'
    <3>1. CASE sacks'[i] = Sack(r, f.base)
      <4>1. /\ sacks'[i].base = r.base /\ sacks'[i].heard = f.base
            /\ \A d \in sacks'[i].bits : r.base + d \in Has(r)
        BY <1>2, <1>6, <3>1, SackTellsTruth
      <4>2. r.base <= f.base + Window
        BY <1>2 DEF Ahead
      <4> QED BY <1>2, <1>3, <1>5, <1>6, <4>1, <4>2 DEF TellsTruth, Has
    <3>2. CASE \E j \in 1..Len(sacks) : sacks'[i] = sacks[j]
      <4>1. PICK j \in 1..Len(sacks) : sacks'[i] = sacks[j]
        BY <3>2
      <4>2. TellsTruth(sacks[j])
        BY DEF Inv, TruthInv, SackInv
      <4>3. sacks[j] \in SackType
        <5>1. sacks \in Seq(SackType)
          BY DEF Inv, TypeOK, SackType
        <5> QED BY <5>1, ElementOfSeq
      <4>5. Has(rx) \subseteq Has(r)
        <5>1. sacks # << >>
          OBVIOUS
        <5> QED BY <1>2, <5>1 DEF Inv, TruthInv
      <4>4. /\ sacks[j].base <= r.base
            /\ \A d \in sacks[j].bits : sacks[j].base + d \in Has(r)
        BY SMTT(30), <4>5, <1>5, <4>2, <4>3 DEF TellsTruth, SackType
      <4> QED BY <1>3, <4>1, <4>2, <4>4 DEF TellsTruth, Has
    <3> QED BY <3>1, <3>2
  <2> QED BY <2>0, <2>1 DEF TruthInv, SackInv
<1>9. TypeOK'
  <2>1. TypeOK
    BY DEF Inv
  <2>2. IsWindow(rx)'
    <3>1. IsWindow(r)
      BY <1>2 DEF Exact
    <3> QED BY <3>1 DEF IsWindow, IsMap
  <2> QED BY <1>3, <1>4, <2>1, <2>2 DEF TypeOK, SackType, IsMap
<1> QED BY <1>3, <1>7, <1>8, <1>9 DEF Inv

\* How the window of B moves, whatever B does: what it has handed up stays so,
\* and what it holds is kept as long as the engine that sent it lives.
Keeps ==
  /\ DOMAIN rx.got \subseteq DOMAIN rx'.got
  /\ Fresh => Has(rx) \subseteq Has(rx')
  /\ \A k \in DOMAIN rx'.got : k \in DOMAIN rx.got \/ rx.base <= k
  /\ UNCHANGED <<sender, history>>

\* A window that follows the one B met keeps what B had.
LEMMA FollowsKeeps ==
  ASSUME Inv, BoundedOutage, NEW f \in air, Hears(f), NEW new,
         Follows(CheckEpoch(WindowFor(f), f), rx', f.base, new),
         UNCHANGED <<sender, history>>
  PROVE  Keeps
<1> DEFINE w == CheckEpoch(WindowFor(f), f)
<1>1. /\ Exact(w) /\ (Fresh => Has(w) = Has(rx)) /\ DOMAIN w.got = DOMAIN rx.got
      /\ rx.base <= w.base
  BY WindowMet
<1> HIDE DEF w
<1>2. /\ Exact(rx') /\ Has(w) \subseteq Has(rx')
      /\ DOMAIN w.got \subseteq DOMAIN rx'.got
      /\ \A k \in DOMAIN rx'.got : k \in DOMAIN w.got \/ w.base <= k
  BY DEF Follows, w
<1>3. rx.base \in Nat /\ w.base \in Nat /\ DOMAIN rx'.got \subseteq Nat
  BY <1>1, <1>2 DEF Inv, ReceiverInv, Exact, IsWindow, IsMap
<1> QED BY <1>1, <1>2, <1>3 DEF Keeps

\* Every action of B preserves the invariant and keeps what B had.
LEMMA ReceiverStepInv ==
  ASSUME Inv, BoundedOutage, ReceiverNext
  PROVE  Inv' /\ Keeps
<1>1. sacks \in Seq(SackType) /\ Exact(rx) /\ heard \in Nat /\ ackDue \in BOOLEAN
  BY DEF Inv, TypeOK, ReceiverInv, SackType
<1>2. \A i \in 1..Len(sacks) : \E j \in 1..Len(sacks) : sacks[i] = sacks[j]
  OBVIOUS
<1>3. ASSUME NEW f \in air, NEW flush \in BOOLEAN, RecvData(f, flush)
      PROVE  Inv' /\ Keeps
  <2> DEFINE w == CheckEpoch(WindowFor(f), f)
             r == Accept(Advance(w, f.base), f.n)
  <2>1. /\ f.kind = "data" /\ Hears(f) /\ air' = {g \in air : Earlier(f, g)}
        /\ rx' = r /\ ackDue' \in BOOLEAN /\ heard' = f.base
        /\ sacks' = IF flush THEN Send(Sack(rx', f.base)) ELSE sacks
        /\ UNCHANGED <<sender, history>>
    BY <1>3 DEF RecvData
  <2>2. /\ f.n \in Nat /\ f.base \in Nat
        /\ f.n < f.base + Window /\ f.base <= f.n + Window
    BY <2>1, SenderTypes DEF Inv, AirInv, Fits, Frame
  <2>3. Exact(w) /\ Ahead(w, f.base) /\ f.base - w.base < Half
    BY <2>1, WindowMet
  <2>4. Follows(w, r, f.base, {f.n})
    <3> HIDE DEF w
    <3> QED BY <2>2, <2>3, ReceiveFollows
  <2> HIDE DEF r
  <2>5. Exact(r) /\ Ahead(r, f.base) /\ f.base <= r.base
    BY <2>4 DEF Follows
  <2>6. /\ sacks' \in Seq(SackType)
        /\ \A i \in 1..Len(sacks') :
             sacks'[i] = Sack(r, f.base)
               \/ \E j \in 1..Len(sacks) : sacks'[i] = sacks[j]
    <3>1. CASE flush
      <4>1. Sack(r, f.base) \in SackType
        BY <2>2, <2>5, SackTellsTruth
      <4>2. sacks' = Send(Sack(r, f.base))
        BY <2>1, <3>1
      <4> QED BY <1>1, <4>1, <4>2, SendKeeps
    <3>2. CASE ~ flush
      BY <1>1, <1>2, <2>1, <3>2
    <3> QED BY <3>1, <3>2
  <2>7. Inv'
    BY <2>1, <2>4, <2>6, HearInv
  <2>8. Keeps
    BY <2>1, <2>4, FollowsKeeps
  <2> QED BY <2>7, <2>8
<1>4. ASSUME NEW f \in air, RecvSync(f) PROVE Inv' /\ Keeps
  <2>1. /\ Hears(f) /\ air' = {g \in air : Earlier(f, g)}
        /\ heard' = f.base /\ ackDue' = ackDue /\ sacks' = sacks
        /\ UNCHANGED <<sender, history>>
    BY <1>4 DEF RecvSync
  <2>2. CASE rx.known
    <3> DEFINE w == CheckEpoch(WindowFor(f), f)
               r == Advance(w, f.base)
    <3>1. rx' = r
      BY <1>4, <2>2 DEF RecvSync, WindowFor
    <3>2. f.base \in Nat /\ Exact(w) /\ Ahead(w, f.base) /\ f.base - w.base < Half
      BY <2>1, SenderTypes, WindowMet DEF Frame
    <3>3. Follows(w, r, f.base, {})
      <4> HIDE DEF w
      <4> QED BY <3>2, AdvanceFollows
    <3> HIDE DEF r
    <3>4. {} \in SUBSET {f.n}
      OBVIOUS
    <3>5. Inv'
      BY <1>1, <1>2, <2>1, <3>1, <3>3, <3>4, HearInv
    <3>6. Keeps
      BY <2>1, <3>1, <3>3, FollowsKeeps
    <3> QED BY <3>5, <3>6
  <2>3. CASE ~ rx.known
    <3>1. rx' = rx
      BY <1>4, <2>3 DEF RecvSync
    <3>2. /\ SenderInv' /\ AirInv' /\ Base' = Base /\ heard' \in Nat
          /\ heard' <= Base' /\ \A g \in air' : g \in Frame
      BY <2>1, HearAir
    <3>3. ReceiverInv'
      <4>1. Exact(rx)' <=> Exact(rx)
        BY <3>1 DEF Exact, IsWindow, IsMap
      <4>2. Has(rx)' = Has(rx)
        BY <3>1 DEF Has
      <4>3. ~ Fresh /\ ~ Fresh'
        BY <2>3, <3>1 DEF Fresh
      <4>4. first' <= heard'
        BY <2>1, SenderTypes DEF Inv, AirInv, Fits, Frame, history
      <4> QED BY <2>1, <3>1, <3>2, <4>1, <4>2, <4>3, <4>4
              DEF Inv, ReceiverInv, sender, history
    <3>4. TruthInv'
      <4>1. Has(rx)' = Has(rx) /\ ~ Fresh /\ stale' = stale /\ acked' = acked
        BY <2>1, <2>3, <3>1 DEF Has, Fresh, history
      <4>2. ~ stale => Len(sacks') = 0 /\ sacks' = << >> /\ ~ ackDue'
        BY <2>1, <4>1 DEF Inv, TruthInv
      <4> QED BY <4>1, <4>2 DEF Inv, TruthInv, SackInv
    <3>5. TypeOK'
      <4>1. IsWindow(rx)'
        BY <1>1, <3>1 DEF Exact, IsWindow, IsMap
      <4> QED BY <2>1, <3>2, <4>1
              DEF Inv, TypeOK, sender, history, IsMap
    <3>6. Keeps
      BY <2>1, <3>1 DEF Keeps
    <3> QED BY <3>2, <3>3, <3>4, <3>5, <3>6 DEF Inv
  <2> QED BY <2>2, <2>3
<1>5. ASSUME FlushAck PROVE Inv' /\ Keeps
  <2>1. /\ ackDue /\ sacks' = Send(Sack(rx, heard)) /\ ackDue' = FALSE
        /\ rx' = rx /\ heard' = heard /\ air' = air /\ UNCHANGED <<sender, history>>
    BY <1>5 DEF FlushAck
  <2>2. /\ ~ stale => Fresh
        /\ Fresh => heard <= rx.base /\ Ahead(rx, heard) /\ heard <= Base
    BY <2>1 DEF Inv, ReceiverInv, TruthInv
  <2>3. /\ Sack(rx, heard) \in SackType
        /\ Sack(rx, heard).base = rx.base /\ Sack(rx, heard).heard = heard
        /\ \A d \in Sack(rx, heard).bits : rx.base + d \in Has(rx)
    BY <1>1, SackTellsTruth
  <2>4. Base' = Base
    BY <2>1 DEF Base, sender
  <2>5. ~ stale => TellsTruth(Sack(rx, heard))
    BY <1>1, <2>2, <2>3 DEF TellsTruth, Ahead, Exact, IsWindow
  <2>6. /\ sacks' \in Seq(SackType)
        /\ \A i \in 1..Len(sacks') :
             sacks'[i] = Sack(rx, heard)
               \/ \E j \in 1..Len(sacks) : sacks'[i] = sacks[j]
    BY <1>1, <2>1, <2>3, SendKeeps
  <2>7. TruthInv'
    <3> SUFFICES ASSUME ~ stale PROVE TruthInv'
      BY <2>1 DEF TruthInv, history
    <3>0. Fresh' /\ acked' \subseteq Has(rx)'
      BY <2>1, <2>2 DEF Inv, TruthInv, Fresh, Has, sender, history
    <3>1. ASSUME NEW i \in 1..Len(sacks') PROVE TellsTruth(sacks[i])'
      <4>1. TellsTruth(sacks'[i])
        BY <2>5, <2>6 DEF Inv, TruthInv, SackInv
      <4> QED BY <2>1, <2>4, <4>1 DEF TellsTruth, Has
    <3> QED BY <3>0, <3>1 DEF TruthInv, SackInv
  <2>8. SenderInv' /\ AirInv'
    BY <2>1, <2>4 DEF Inv, SenderInv, AirInv, Fits, sender, history
  <2>9. ReceiverInv'
    <3>1. (Exact(rx)' <=> Exact(rx)) /\ (Ahead(rx, heard)' <=> Ahead(rx, heard))
          /\ Has(rx)' = Has(rx)
      BY <2>1 DEF Exact, IsWindow, IsMap, Ahead, Has
    <3>2. Fresh' = Fresh
      BY <2>1 DEF Fresh, sender
    <3> QED BY <2>1, <2>4, <3>1, <3>2 DEF Inv, ReceiverInv, sender, history
  <2>10. TypeOK'
    <3>1. IsWindow(rx)'
      BY <1>1, <2>1 DEF Exact, IsWindow, IsMap
    <3> QED BY <2>1, <2>6, <3>1 DEF Inv, TypeOK, SackType, sender, history, IsMap
  <2>11. Keeps
    BY <2>1 DEF Keeps
  <2> QED BY <2>7, <2>8, <2>9, <2>10, <2>11 DEF Inv
<1> QED BY <1>3, <1>4, <1>5 DEF ReceiverNext

----------------------------------------------------------------------------
\* The theorems.  All of them suppose BoundedOutage.

\* The initial state satisfies the invariant.
LEMMA InitInv == Init => Inv
<1> SUFFICES ASSUME Init PROVE Inv
  OBVIOUS
<1>1. DOMAIN Empty = {} /\ IsMap(Empty, Nat) /\ IsMap(Empty, Entry)
  BY DEF Empty, IsMap
<1>2. /\ queue = 0 /\ next = 0 /\ outq = Empty /\ epoch \in Epochs
      /\ syncLeft = 0 /\ clock = 0 /\ ackDue = FALSE /\ heard = 0
      /\ rx = [known |-> FALSE, epoch |-> epoch, base |-> 0, buf |-> Empty,
               got |-> Empty]
      /\ air = {} /\ sacks = << >> /\ acked = {} /\ gaveUp = {}
      /\ first = 0 /\ stale = FALSE /\ submitted = 0 /\ lives = 1
  BY DEF Init
<1>3. IsWindow(rx)
  BY <1>1, <1>2 DEF IsWindow
<1>4. Exact(rx) /\ Has(rx) = {}
  BY <1>1, <1>2, <1>3 DEF Exact, Has
<1>5. Base = 0
  BY <1>1, <1>2 DEF Base, SendBase
<1>6. TypeOK
  <2>1. sacks \in Seq(SackType)
    BY <1>2, EmptySeq
  <2>2. ackDue \in BOOLEAN
    BY <1>2
  <2>3. syncLeft \in 0..SyncCopies /\ \A n \in acked \cup gaveUp : n \in Nat
    BY <1>2, ConstantTypes
  <2>4. IsMap(outq, Entry) /\ \A f \in air : f \in Frame
    BY <1>1, <1>2
  <2>5. /\ queue \in Nat /\ next \in Nat /\ clock \in Nat /\ heard \in Nat
        /\ epoch \in Epochs /\ first \in Nat /\ submitted \in Nat /\ lives \in Nat
        /\ stale \in BOOLEAN
    BY <1>2
  <2> QED BY <1>3, <2>1, <2>2, <2>3, <2>4, <2>5 DEF TypeOK, Entry, SackType
<1>7. SenderInv
  <2>1. 0..(0 - 1) = {}
    OBVIOUS
  <2> QED BY <1>1, <1>2, <1>5, <2>1, ConstantTypes DEF SenderInv
<1>8. AirInv /\ TruthInv
  BY <1>2 DEF AirInv, SackInv, TruthInv
<1>9. ReceiverInv
  <2>1. ~ Fresh /\ rx.base = first
    BY <1>2 DEF Fresh
  <2>2. first <= heard
    BY <1>2
  <2>3. heard <= Base
    BY <1>2, <1>5
  <2>5. \A k \in Has(rx) : k < next /\ k < first
    BY <1>4
  <2>6. rx.base <= first
    BY <1>2
  <2> QED BY <1>4, <2>1, <2>2, <2>3, <2>5, <2>6 DEF ReceiverInv
<1> QED BY <1>6, <1>7, <1>8, <1>9 DEF Inv

\* A step that changes nothing preserves the invariant.
LEMMA StutterInv == Inv /\ UNCHANGED vars => Inv'
<1> SUFFICES ASSUME Inv, UNCHANGED vars PROVE Inv'
  OBVIOUS
<1>1. /\ queue' = queue /\ next' = next /\ outq' = outq /\ epoch' = epoch
      /\ syncLeft' = syncLeft /\ clock' = clock /\ rx' = rx
      /\ ackDue' = ackDue /\ heard' = heard /\ air' = air /\ sacks' = sacks
      /\ acked' = acked /\ gaveUp' = gaveUp /\ first' = first
      /\ stale' = stale /\ submitted' = submitted /\ lives' = lives
  BY DEF vars, sender, receiver, history
<1>2. TypeOK'
  BY <1>1 DEF Inv, TypeOK, IsMap, IsWindow
<1>3. Base' = Base
  BY <1>1 DEF Base
<1>4. SenderInv' /\ AirInv'
  BY <1>1, <1>3 DEF Inv, SenderInv, AirInv, Fits
<1>5. ReceiverInv' /\ TruthInv'
  BY <1>1, <1>3
     DEF Inv, ReceiverInv, TruthInv, SackInv, TellsTruth, Exact, IsWindow, IsMap,
         Has, Ahead, Fresh
<1> QED BY <1>2, <1>4, <1>5 DEF Inv

\* A number of sequence number 0 is at hand within SeqMod numbers.
LEMMA NextStart ==
  ASSUME NEW nx \in Nat
  PROVE  (CHOOSE n \in nx..(nx + SeqMod - 1) : n % SeqMod = 0)
           \in nx..(nx + SeqMod - 1)
<1>1. SeqMod \in Nat /\ SeqMod > 0
  BY SequenceAssumption
<1> DEFINE r == nx % SeqMod
           n == IF r = 0 THEN nx ELSE nx + SeqMod - r
<1>2. r \in 0..(SeqMod - 1) /\ nx = SeqMod * (nx \div SeqMod) + r
  BY <1>1
<1>3. nx \div SeqMod \in Int
  BY <1>1
<1>4. n \in nx..(nx + SeqMod - 1)
  BY <1>1, <1>2
<1>5. n % SeqMod = 0
  <2>1. \A q \in Int : (SeqMod * q) % SeqMod = 0
    BY <1>1
  <2>2. CASE r = 0
    BY <2>2
  <2>3. CASE r # 0
    <3>1. n = SeqMod * (nx \div SeqMod + 1)
      BY <1>1, <1>2, <1>3, <2>3
    <3> QED BY <1>3, <2>1, <3>1
  <2> QED BY <2>2, <2>3
<1> HIDE DEF n
<1> QED BY <1>4, <1>5

\* B's window is nowhere ahead of A.
LEMMA BaseBelowNext ==
  ASSUME Inv
  PROVE  rx.base \in Nat /\ rx.base <= next
<1>1. /\ next \in Nat /\ first \in Nat /\ first <= next
      /\ rx.base \in Nat /\ DOMAIN rx.got \subseteq Nat
  BY SenderTypes DEF Inv, SenderInv, ReceiverInv, Exact, IsWindow, IsMap
<1>2. CASE Fresh
  <2> SUFFICES ASSUME next < rx.base PROVE FALSE
    BY <1>1
  <2>1. next \in first..(rx.base - 1)
    BY <1>1
  <2>2. next \in DOMAIN rx.got \/ next < heard
    BY <1>2, <2>1 DEF Inv, ReceiverInv
  <2>3. next \in DOMAIN rx.got => next < next
    BY DEF Inv, ReceiverInv, Has
  <2>4. heard \in Nat /\ Base \in Nat /\ heard <= Base /\ Base <= next
    BY SenderTypes
  <2> QED BY <1>1, <2>2, <2>3, <2>4
<1>3. CASE ~ Fresh
  BY <1>1, <1>3 DEF Inv, ReceiverInv
<1> QED BY <1>1, <1>2, <1>3

\* A new engine preserves the invariant if B's window, which keeps what it
\* had, is not taken for that of the new engine, and if an owed SACK is stale.
LEMMA RestartInv ==
  ASSUME Inv, NEW e \in Epochs, NewEngine(e), Quiet,
         rx' = rx \/ rx' = [rx EXCEPT !.known = FALSE], ~ Fresh',
         ackDue' \in BOOLEAN, stale' = ackDue'
  PROVE  Inv'
<1>1. /\ lives' = lives + 1 /\ epoch' = e /\ outq' = Empty /\ queue' = 0
      /\ syncLeft' = 0 /\ first' = next' /\ heard' = next'
      /\ gaveUp' = gaveUp \cup DOMAIN outq /\ acked' = {}
      /\ clock' = clock /\ submitted' = submitted
      /\ air' = {} /\ sacks' = << >>
  BY DEF NewEngine, Quiet
<1>2. next' \in Nat /\ next <= next'
  <2>1. next \in Nat /\ SeqMod \in Nat
    BY SenderTypes, ConstantTypes
  <2>2. next' \in next..(next + SeqMod - 1)
    BY <2>1, NextStart DEF NewEngine
  <2> QED BY <2>1, <2>2
<1>3. /\ TypeOK /\ next \in Nat /\ DOMAIN outq \in SUBSET Nat
      /\ \A n \in DOMAIN outq : n < next
      /\ \A n \in gaveUp : n \in Nat /\ n < next
  BY SenderTypes DEF Inv, SenderInv, TypeOK
<1>4. DOMAIN Empty = {} /\ IsMap(Empty, Entry)
  BY DEF Empty, IsMap
<1>5. Base' = next'
  BY <1>1, <1>4 DEF Base, SendBase
<1>6. /\ Exact(rx) /\ Exact(rx') /\ rx'.base = rx.base
      /\ rx'.got = rx.got /\ rx'.buf = rx.buf
  <2>1. Exact(rx)
    BY DEF Inv, ReceiverInv
  <2>2. /\ rx = [known |-> rx.known, epoch |-> rx.epoch, base |-> rx.base,
                 buf |-> rx.buf, got |-> rx.got]
        /\ rx.epoch \in Epochs
    BY <2>1 DEF Exact, IsWindow
  <2>3. CASE rx' = rx
    BY <2>1, <2>3
  <2>4. CASE rx' = [rx EXCEPT !.known = FALSE]
    <3>1. rx' = [known |-> FALSE, epoch |-> rx.epoch, base |-> rx.base,
                 buf |-> rx.buf, got |-> rx.got]
      BY <2>2, <2>4
    <3> QED BY <2>1, <3>1 DEF Exact, IsWindow
  <2> QED BY <2>3, <2>4
<1>7. TypeOK'
  <2>1. sacks' \in Seq(SackType)
    BY <1>1, EmptySeq
  <2>2. /\ syncLeft' \in 0..SyncCopies /\ queue' \in Nat
        /\ lives' \in Nat /\ submitted' \in Nat /\ clock' \in Nat
    <3>1. lives \in Nat /\ submitted \in Nat /\ clock \in Nat
      BY <1>3 DEF TypeOK
    <3>2. SyncCopies \in Nat
      BY ConstantTypes
    <3> QED BY <1>1, <3>1, <3>2
  <2>3. IsWindow(rx)'
    BY <1>6 DEF Exact, IsWindow, IsMap
  <2>4. \A n \in acked' \cup gaveUp' : n \in Nat
    BY <1>1, <1>3
  <2>5. IsMap(outq, Entry)' /\ \A f \in air' : f \in Frame
    BY <1>1, <1>4 DEF IsMap
  <2>6. /\ ackDue' \in BOOLEAN /\ stale' \in BOOLEAN
        /\ epoch' \in Epochs /\ first' \in Nat /\ heard' \in Nat
    BY <1>1, <1>2
  <2> QED BY <1>2, <2>1, <2>2, <2>3, <2>4, <2>5, <2>6 DEF TypeOK, Entry, SackType
<1>8. SenderInv'
  <2>1. DOMAIN outq' = {} /\ acked' = {}
    BY <1>1, <1>4
  <2>2. first'..(next' - 1) = {}
    BY <1>1, <1>2
  <2>3. \A n \in gaveUp' : n < next'
    <3>1. \A n \in gaveUp' : n \in Nat /\ n < next
      BY <1>1, <1>3
    <3> QED BY <1>2, <1>3, <3>1
  <2>4. first' <= next' /\ next' <= Base' + Window
    BY <1>1, <1>2, <1>5, ConstantTypes
  <2> QED BY <2>1, <2>2, <2>3, <2>4 DEF SenderInv
<1>9. AirInv' /\ TruthInv'
  BY <1>1 DEF AirInv, SackInv, TruthInv
<1>10. ReceiverInv'
  <2>1. Has(rx)' = Has(rx)
    BY <1>6 DEF Has
  <2>2. \A k \in Has(rx) : k < next'
    <3>1. \A k \in Has(rx) : k \in Nat /\ k < next
      BY DEF Inv, ReceiverInv, Exact, IsWindow, IsMap, Has
    <3> QED BY <1>2, <1>3, <3>1
  <2>3. rx'.base <= first'
    BY <1>1, <1>2, <1>3, <1>6, BaseBelowNext
  <2>4. Exact(rx)'
    BY <1>1, <1>6 DEF Exact, IsWindow, IsMap
  <2>5. first' <= heard' /\ heard' <= Base'
    BY <1>1, <1>2, <1>5
  <2> QED BY <1>1, <2>1, <2>2, <2>3, <2>4, <2>5 DEF ReceiverInv
<1> QED BY <1>7, <1>8, <1>9, <1>10 DEF Inv

\* Every restart preserves the invariant: without encryption B does not hold
\* the new epoch, with encryption it has forgotten the window.
LEMMA RestartStepInv ==
  ASSUME Inv, RestartNext
  PROVE  Inv'
<1>1. PICK e \in Epochs : RestartPlain(e) \/ RestartSecure(e)
  BY DEF RestartNext
<1>2. CASE RestartPlain(e)
  <2>1. /\ NewEngine(e) /\ Quiet /\ rx' = rx /\ ~ Fresh'
        /\ ackDue' = ackDue /\ stale' = ackDue
    BY <1>2 DEF RestartPlain, NewEngine, Fresh, Unnoticed
  <2>2. ackDue \in BOOLEAN
    BY DEF Inv, TypeOK
  <2> QED BY <2>1, <2>2, RestartInv
<1>3. CASE RestartSecure(e)
  <2>1. /\ NewEngine(e) /\ Quiet /\ rx' = [rx EXCEPT !.known = FALSE]
        /\ ackDue' = FALSE /\ stale' = FALSE
    BY <1>3 DEF RestartSecure
  <2>2. ~ rx'.known
    BY <2>1 DEF Inv, ReceiverInv, Exact, IsWindow
  <2>3. ~ Fresh'
    BY <2>2 DEF Fresh
  <2> QED BY <2>1, <2>3, RestartInv
<1> QED BY <1>1, <1>2, <1>3

\* The invariant holds in every state the link reaches, restarts of A included.
THEOREM Invariance == ASSUME BoundedOutage PROVE RestartSpec => []Inv
<1>1. Inv /\ [Next \/ RestartNext]_vars => Inv'
  <2> SUFFICES ASSUME Inv, [Next \/ RestartNext]_vars PROVE Inv'
    OBVIOUS
  <2>1. CASE SenderNext
    BY <2>1, SenderActsInRuns, SenderRunInv
  <2>2. CASE ReceiverNext
    BY <2>2, ReceiverStepInv
  <2>3. CASE UNCHANGED vars
    BY <2>3, StutterInv
  <2>4. CASE RestartNext
    BY <2>4, RestartStepInv
  <2> QED BY <2>1, <2>2, <2>3, <2>4 DEF Next
<1> QED BY InitInv, <1>1, PTL DEF RestartSpec

\* Every variable keeps its type, on A's side and on B's.
THEOREM TypeCorrect == ASSUME BoundedOutage PROVE RestartSpec => []TypeOK
<1>1. Inv => TypeOK
  BY DEF Inv
<1> QED BY <1>1, Invariance, PTL

\* In an exact window the payloads are the numbers they are filed under.
LEMMA ImagesAreDomains ==
  ASSUME NEW w, Exact(w)
  PROVE  ImageOf(w.got) = DOMAIN w.got /\ ImageOf(w.buf) = DOMAIN w.buf
BY DEF Exact, ImageOf

\* Whatever is lost, delayed or repeated, A reports no payload as acknowledged
\* that B does not have, unless B owed a SACK to A's engine before it when A
\* restarted without encryption (_flush_acks pays it to the new engine).
THEOREM AckedReachesB ==
  ASSUME BoundedOutage PROVE RestartSpec => []AckedIsReceived
<1>1. Inv => AckedIsReceived
  BY ImagesAreDomains DEF Inv, ReceiverInv, TruthInv, AckedIsReceived, Has
<1> QED BY <1>1, Invariance, PTL

\* B hands payloads up in A's order, none of them twice, from one engine of A
\* to the next.
THEOREM InOrder == ASSUME BoundedOutage PROVE RestartSpec => []HandedUpInOrder
<1>1. Inv => HandedUpInOrder
  BY DEF Inv, ReceiverInv, HandedUpInOrder, Exact
<1> QED BY <1>1, Invariance, PTL

\* B passes over a payload of this engine only after A gave it up, with the
\* exception of AckedReachesB.
THEOREM SkipsOnlyGivenUp ==
  ASSUME BoundedOutage PROVE RestartSpec => []OnlyGivenUpIsSkipped
<1>1. Inv => OnlyGivenUpIsSkipped
  <2> SUFFICES ASSUME Inv, ~ stale, NEW m \in ImageOf(rx.got), NEW n \in first..(m - 1)
               PROVE  n \in ImageOf(rx.got) \/ n \in gaveUp
    BY DEF OnlyGivenUpIsSkipped
  <2>1. Exact(rx) /\ rx.base \in Nat /\ first \in Nat
    BY SenderTypes DEF Inv, ReceiverInv, Exact, IsWindow
  <2>2. ImageOf(rx.got) = DOMAIN rx.got
    BY <2>1, ImagesAreDomains
  <2>3. m \in Nat /\ m < rx.base /\ m \in Has(rx)
    BY <2>1, <2>2 DEF Exact, IsWindow, IsMap, Has
  <2>4. first < m + 1
    BY <2>1, <2>3
  <2>5. Fresh
    BY <2>1, <2>3, <2>4 DEF Inv, ReceiverInv
  <2>6. n \in first..(rx.base - 1)
    BY <2>1, <2>3
  <2>7. CASE n < heard
    <3>1. heard \in Nat /\ Base \in Nat /\ heard <= Base
      BY SenderTypes
    <3>2. n \in Nat /\ first <= n /\ n < Base
      BY <2>1, <2>6, <2>7, <3>1
    <3>3. n \in acked \/ n \in gaveUp
      BY <3>2, BelowBase
    <3>4. acked \subseteq Has(rx)
      BY DEF Inv, TruthInv
    <3>5. \A k \in DOMAIN rx.buf : k \in Nat /\ rx.base < k
      BY <2>5 DEF Inv, ReceiverInv, Ahead, Exact, IsWindow, IsMap
    <3>6. n \notin DOMAIN rx.buf
      BY <2>1, <2>6, <3>5
    <3> QED BY <2>2, <3>3, <3>4, <3>6 DEF Has
  <2> QED BY <2>2, <2>5, <2>6, <2>7 DEF Inv, ReceiverInv
<1> QED BY <1>1, Invariance, PTL

\* The modular comparison never takes a payload B still lacks, and A still
\* owes, for a repetition.
THEOREM OldWasReceived ==
  ASSUME BoundedOutage PROVE RestartSpec => []OldIsReceived
<1>1. Inv => OldIsReceived
  <2> DEFINE Met(f) == CheckEpoch(WindowFor(f), f)
             After(f) == Advance(Met(f), f.base)
             Known(f) == ImageOf(After(f).got) \cup ImageOf(After(f).buf)
  <2>0. OldIsReceived <=>
          \A f \in air : f.kind = "data" /\ Hears(f) /\ ~ IsNew(After(f), f.n)
                         => f.n \in Known(f) \cup gaveUp
    BY DEF OldIsReceived
  <2> SUFFICES ASSUME Inv, NEW f \in air, f.kind = "data", Hears(f),
                      ~ IsNew(After(f), f.n)
               PROVE  f.n \in Known(f) \cup gaveUp
    <3> HIDE DEF After, Known
    <3> QED BY <2>0
  <2> DEFINE w == Met(f)
             m == After(f)
  <2>1. /\ f.n \in Nat /\ f.base \in Nat /\ first \in Nat /\ first <= f.n
        /\ f.n < f.base + Window /\ f.base <= f.n + Window
        /\ f.base <= f.n \/ f.n \in gaveUp
    <3>1. f \in Frame /\ Fits(f) /\ first \in Nat
      BY SenderTypes DEF Inv, AirInv
    <3> QED BY <3>1 DEF Fits, Frame
  <2>2. Exact(w) /\ Ahead(w, f.base) /\ f.base - w.base < Half
    BY WindowMet
  <2>3. /\ Follows(w, m, f.base, {})
        /\ IsNew(m, f.n) \/ f.n \in Has(m) \/ f.n < m.base
    <3> HIDE DEF Met
    <3> QED BY <2>1, <2>2, ReceiveFollows
  <2>4. \A k \in first..(m.base - 1) : k \in DOMAIN m.got \/ k < f.base
    BY <2>3, PassedOver
  <2> HIDE DEF m
  <2>5. Exact(m) /\ m.base \in Nat
    BY <2>3 DEF Follows, Exact, IsWindow
  <2>6. f.n \in Has(m) \/ f.n \in gaveUp
    <3>1. f.n < m.base => f.n \in first..(m.base - 1)
      BY <2>1, <2>5
    <3>2. ~ IsNew(m, f.n)
      BY DEF m
    <3>3. f.n < f.base => f.n \in gaveUp
      BY <2>1
    <3> QED BY <2>3, <2>4, <3>1, <3>2, <3>3 DEF Has
  <2>7. f.n \in ImageOf(m.got) \cup ImageOf(m.buf) \cup gaveUp
    BY <2>5, <2>6, ImagesAreDomains DEF Has
  <2> QED BY <2>7 DEF m
<1> QED BY <1>1, Invariance, PTL

\* A has had one engine only: its numbers start at 0, and nobody owes anything
\* to an engine before it.
FirstEngine == first = 0 /\ ~ stale

\* A run of A is a step of the sending end of the service.
LEMMA SenderRunServes ==
  ASSUME Inv, Inv', FirstEngine, NEW hits, NEW gone, SenderRun(hits, gone)
  PROVE  Service!SenderStep
<1>1. /\ hits \in SUBSET DOMAIN outq /\ gone \in SUBSET DOMAIN outq
      /\ hits \cap gone = {} /\ hits \subseteq Has(rx)
      /\ acked' = acked \cup hits /\ gaveUp' = gaveUp \cup gone /\ rx' = rx
  BY DEF SenderRun, receiver, FirstEngine
<1>2. PICK dropped \in SUBSET DOMAIN outq, resend \in SUBSET DOMAIN outq,
           sync \in BOOLEAN, q \in Nat, k \in Counts :
        /\ \A n \in resend : outq[n].tries <= MaxRetries
        /\ Transmit(DOMAIN outq \ (hits \cup gone), dropped, resend, sync, q, k)
  BY DEF SenderRun
<1>3. next' \in Nat /\ next <= next'
  <2>1. next' = next + k
    BY <1>2 DEF Transmit
  <2> QED BY <2>1, SenderTypes, ConstantTypes
<1>4. \A n \in DOMAIN outq : n < next
  BY DEF Inv, SenderInv
<1>5. acked' \cap gaveUp' = {}
  BY DEF Inv, SenderInv
<1>6. Has(rx) = ImageOf(rx.buf) \cup ImageOf(rx.got)
  BY ImagesAreDomains DEF Inv, ReceiverInv, Has
<1>7. ASSUME NEW n \in acked' \ acked
      PROVE  n < next /\ n \notin gaveUp' /\ n \in ImageOf(rx.buf) \cup ImageOf(rx.got)
  BY <1>1, <1>4, <1>5, <1>6
<1>8. ASSUME NEW n \in gaveUp' \ gaveUp PROVE n < next /\ n \notin acked'
  BY <1>1, <1>4, <1>5
<1>9. ImageOf(rx.buf)' = ImageOf(rx.buf) /\ ImageOf(rx.got)' = ImageOf(rx.got)
  BY <1>1 DEF ImageOf
<1> QED BY <1>1, <1>3, <1>7, <1>8, <1>9 DEF Service!SenderStep

\* A step of B is a step of the receiving end of the service, as long as A has
\* had one engine only.
LEMMA ReceiverServes ==
  ASSUME Inv, Inv', Keeps, FirstEngine
  PROVE  Service!ReceiverStep
<1> DEFINE got == DOMAIN rx.got
           buf == DOMAIN rx.buf
<1>1. /\ ImageOf(rx.got) = got /\ ImageOf(rx.buf) = buf
      /\ ImageOf(rx.got)' = got' /\ ImageOf(rx.buf)' = buf'
  <2>1. Exact(rx) /\ Exact(rx')
    BY DEF Inv, ReceiverInv, Exact, IsWindow, IsMap
  <2>2. ImageOf(rx.got)' = ImageOf(rx'.got) /\ ImageOf(rx.buf)' = ImageOf(rx'.buf)
    BY DEF ImageOf
  <2> QED BY <2>1, <2>2, ImagesAreDomains
<1>2. /\ got \subseteq got' /\ got \cup buf \subseteq got' \cup buf'
      /\ \A n \in got' : n \in got \/ rx.base <= n
      /\ next' = next /\ acked' = acked /\ gaveUp' = gaveUp
  <2>1. CASE Fresh
    BY <2>1 DEF Keeps, Has, sender, history
  <2>2. CASE ~ Fresh
    <3>1. \A n \in Has(rx) : n \in Nat /\ n < 0
      BY <2>2 DEF Inv, ReceiverInv, Exact, IsWindow, IsMap, Has, FirstEngine
    <3>2. Has(rx) = {}
      BY <3>1
    <3> QED BY <3>2 DEF Keeps, Has, sender, history
  <2> QED BY <2>1, <2>2
<1>3. /\ rx.base \in Nat /\ \A n \in got : n \in Nat /\ n < rx.base
  BY DEF Inv, ReceiverInv, Exact, IsWindow, IsMap
<1>4. /\ rx'.base \in Nat
      /\ \A n \in got' : n \in Nat /\ n < rx'.base
      /\ \A n \in buf' : n \in Nat
      /\ \A n \in got' \cup buf' : n < next'
  BY DEF Inv, ReceiverInv, Exact, IsWindow, IsMap, Has
<1>5. /\ \A n \in buf' : rx'.base < n
      /\ got' # {} => \A n \in 0..(rx'.base - 1) : n \in got' \/ n \in gaveUp'
  <2>0. /\ first = 0 /\ first' = 0 /\ ~ stale' /\ outq' = outq /\ next' = next
        /\ acked' = acked /\ gaveUp' = gaveUp
    BY DEF Keeps, sender, history, FirstEngine
  <2>1. CASE Fresh'
    <3>1. /\ \A n \in buf' : rx'.base < n
          /\ \A n \in 0..(rx'.base - 1) : n \in got' \/ n < heard'
          /\ heard' <= Base' /\ heard' \in Nat
      BY <2>0, <2>1 DEF Inv, TypeOK, ReceiverInv, Ahead
    <3>2. ASSUME NEW n \in 0..(rx'.base - 1), n \notin got' PROVE n \in gaveUp'
      <4>1. Base' = Base /\ Base \in Nat
        BY <2>0, SenderTypes DEF Base
      <4>2. n \in Nat /\ first <= n /\ n < Base
        BY <1>4, <2>0, <3>1, <3>2, <4>1
      <4>3. n \in acked \/ n \in gaveUp
        BY <4>2, BelowBase
      <4>4. n \notin buf'
        BY <1>4, <3>1
      <4>5. acked' \subseteq got' \cup buf'
        BY <2>0 DEF Inv, TruthInv, Has
      <4> QED BY <2>0, <3>2, <4>3, <4>4, <4>5
    <3> QED BY <3>1, <3>2
  <2>2. CASE ~ Fresh'
    <3>1. \A n \in got' \cup buf' : n < 0
      BY <2>0, <2>2 DEF Inv, ReceiverInv, Has
    <3> QED BY <1>4, <3>1
  <2> QED BY <2>1, <2>2
<1> HIDE DEF got, buf
<1>6. ASSUME NEW n \in got' \ got
      PROVE  /\ \A m \in got : m < n
             /\ \A m \in 0..(n - 1) : m \in got' \cup gaveUp
  <2>1. \A m \in got : m < n
    BY <1>2, <1>3, <1>4
  <2>2. ASSUME NEW m \in 0..(n - 1) PROVE m \in got' \cup gaveUp
    <3>1. m \in 0..(rx'.base - 1)
      BY <1>4
    <3> QED BY <1>2, <1>5, <3>1
  <2> QED BY <2>1, <2>2
<1>7. \A n \in got' \cup buf' : n \in Nat /\ n < next
  BY <1>2, <1>4
<1>8. \A n \in buf' : \A m \in got' : m < n
  BY <1>4, <1>5
<1>9. buf' \cap got' = {}
  <2> SUFFICES ASSUME NEW n \in buf', n \in got' PROVE FALSE
    OBVIOUS
  <2>1. n < n /\ n \in Nat
    BY <1>4, <1>8
  <2> QED BY <2>1
<1> QED
  BY <1>1, <1>2, <1>6, <1>7, <1>8, <1>9 DEF Service!ReceiverStep

\* Without restarts A has one engine only.
LEMMA OneEngine == ASSUME BoundedOutage PROVE Spec => [](Inv /\ FirstEngine)
<1>1. Init => FirstEngine
  BY DEF Init, FirstEngine
<1>2. Inv /\ FirstEngine /\ [Next]_vars => FirstEngine'
  <2> SUFFICES ASSUME Inv, [Next]_vars PROVE first' = first /\ stale' = stale
    BY DEF FirstEngine
  <2>1. CASE SenderNext
    BY <2>1, SenderActsInRuns DEF SenderRun
  <2>2. CASE ReceiverNext
    BY <2>2, ReceiverStepInv DEF Keeps, history
  <2>3. CASE UNCHANGED vars
    BY <2>3 DEF vars, history
  <2> QED BY <2>1, <2>2, <2>3 DEF Next
<1>3. [Next]_vars => [Next \/ RestartNext]_vars
  OBVIOUS
<1>4. Spec => RestartSpec
  BY <1>3, PTL DEF Spec, RestartSpec
<1> QED BY <1>1, <1>2, <1>4, Invariance, PTL DEF Spec

\* The link implements the delivery service: every step of A or B is one of
\* its steps, or changes nothing it speaks of.  (A restart is not: the service
\* has one engine of A.)
THEOREM ImplementsService == ASSUME BoundedOutage PROVE Spec => ServiceKept
<1>1. Init => Service!Init
  <2> SUFFICES ASSUME Init PROVE Service!Init
    OBVIOUS
  <2>1. DOMAIN Empty = {}
    BY DEF Empty
  <2>2. ImageOf(rx.buf) = {} /\ ImageOf(rx.got) = {}
    BY <2>1 DEF Init, ImageOf
  <2> QED BY <2>2 DEF Init, Service!Init
<1>2. Inv /\ FirstEngine /\ Inv' /\ [Next]_vars
        => [Service!Next]_(Service!vars)
  <2> SUFFICES ASSUME Inv, FirstEngine, Inv', [Next]_vars
               PROVE  [Service!Next]_(Service!vars)
    OBVIOUS
  <2>1. CASE SenderNext
    <3>1. PICK hits, gone \in SUBSET DOMAIN outq : SenderRun(hits, gone)
      BY <2>1, SenderActsInRuns
    <3>2. Service!SenderStep
      BY <3>1, SenderRunServes
    <3> QED BY <3>2 DEF Service!Next
  <2>2. CASE ReceiverNext
    <3>1. Keeps
      BY <2>2, ReceiverStepInv
    <3>2. Service!ReceiverStep
      BY <3>1, ReceiverServes
    <3> QED BY <3>2 DEF Service!Next
  <2>3. CASE UNCHANGED vars
    <3>1. next' = next /\ acked' = acked /\ gaveUp' = gaveUp /\ rx' = rx
      BY <2>3 DEF vars, sender, receiver, history
    <3>2. ImageOf(rx.buf)' = ImageOf(rx.buf) /\ ImageOf(rx.got)' = ImageOf(rx.got)
      BY <3>1 DEF ImageOf
    <3> QED BY <3>1, <3>2 DEF Service!vars
  <2> QED BY <2>1, <2>2, <2>3 DEF Next
<1> QED BY <1>1, <1>2, OneEngine, PTL DEF Spec, ServiceKept, Service!Spec

=============================================================================
