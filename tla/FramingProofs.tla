--------------------------- MODULE FramingProofs ---------------------------
(***************************************************************************)
(* Proofs about Framing for every value of the constants, along two        *)
(* inductive invariants.  Deframed: what the deframer has returned, keeps  *)
(* pending and holds of the stream is determined by the stream, not by the *)
(* chunks it came in.  Sending: of every frame begun, the bits that have   *)
(* arrived are the frame's, but for those next to an inverted symbol.      *)
(* Together they give that a frame received well enough is returned.       *)
(***************************************************************************)
EXTENDS Framing, TLAPS, SequenceTheorems, FiniteSetTheorems,
        FunctionTheorems, WellFoundedInduction

----------------------------------------------------------------------------
\* Sequences and their parts.

IsSeq(q) == q \in Seq(Range(q))

\* The l elements of q that follow the first k.
Cut(q, k, l) == SubSeq(q, k + 1, k + l)

LEMMA CutElements ==
  ASSUME NEW S, NEW q \in Seq(S), NEW k \in Nat, NEW l \in Nat, k + l <= Len(q)
  PROVE  /\ Cut(q, k, l) \in Seq(S) /\ Len(Cut(q, k, l)) = l
         /\ \A i \in 1..l : Cut(q, k, l)[i] = q[k + i]
<1>1. Len(q) \in Nat /\ \A i \in 1..Len(q) : q[i] \in S
  BY LenProperties, ElementOfSeq
<1>2. \A i \in (k + 1)..(k + l) : q[i] \in S
  BY <1>1
<1>3. /\ SubSeq(q, k + 1, k + l) \in Seq(S)
      /\ Len(SubSeq(q, k + 1, k + l)) = IF k + 1 <= k + l THEN k + l - (k + 1) + 1 ELSE 0
      /\ \A i \in 1..(k + l - (k + 1) + 1) : SubSeq(q, k + 1, k + l)[i] = q[k + 1 + i - 1]
  BY <1>2, SubSeqProperties
<1>4. k + l - (k + 1) + 1 = l /\ (~(k + 1 <= k + l) => l = 0)
  OBVIOUS
<1>5. \A i \in 1..l : k + 1 + i - 1 = k + i
  OBVIOUS
<1> QED BY <1>3, <1>4, <1>5 DEF Cut

\* A part of a part.
LEMMA CutOfCut ==
  ASSUME NEW S, NEW q \in Seq(S), NEW b \in Nat, NEW m \in Nat, b + m <= Len(q),
         NEW k \in Nat, NEW l \in Nat, k + l <= m
  PROVE  Cut(Cut(q, b, m), k, l) = Cut(q, b + k, l)
<1>0. /\ Cut(q, b, m) \in Seq(S) /\ Len(Cut(q, b, m)) = m
      /\ \A i \in 1..m : Cut(q, b, m)[i] = q[b + i]
  <2>1. Cut(q, b, m) \in Seq(S) /\ Len(Cut(q, b, m)) = m
    BY CutElements
  <2>2. \A i \in 1..m : Cut(q, b, m)[i] = q[b + i]
    BY CutElements
  <2> QED BY <2>1, <2>2
<1> DEFINE p == Cut(q, b, m)
<1>1. Len(q) \in Nat
  BY LenProperties
<1>2. p \in Seq(S) /\ Len(p) = m /\ \A i \in 1..m : p[i] = q[b + i]
  BY <1>0
<1> HIDE DEF p
<1>3. b + k \in Nat /\ b + k + l <= Len(q)
  BY <1>1
<1>4. /\ Cut(p, k, l) \in Seq(S) /\ Len(Cut(p, k, l)) = l
      /\ \A i \in 1..l : Cut(p, k, l)[i] = p[k + i]
  BY SMTT(30), <1>2, CutElements
<1>5. /\ Cut(q, b + k, l) \in Seq(S) /\ Len(Cut(q, b + k, l)) = l
      /\ \A i \in 1..l : Cut(q, b + k, l)[i] = q[b + k + i]
  BY <1>3, CutElements
<1>6. \A i \in 1..l : k + i \in 1..m /\ b + (k + i) = b + k + i
  OBVIOUS
<1>7. \A i \in 1..l : Cut(p, k, l)[i] = Cut(q, b + k, l)[i]
  BY <1>2, <1>4, <1>5, <1>6
<1>8. Cut(p, k, l) = Cut(q, b + k, l)
  BY <1>4, <1>5, <1>7, SeqEqual
<1> QED BY <1>8 DEF p

\* What is behind does not matter.
LEMMA CutOfConcat ==
  ASSUME NEW S, NEW q \in Seq(S), NEW r \in Seq(S),
         NEW k \in Nat, NEW l \in Nat, k + l <= Len(q)
  PROVE  Cut(q \o r, k, l) = Cut(q, k, l)
<1> DEFINE t == q \o r
<1>1. /\ t \in Seq(S) /\ Len(t) = Len(q) + Len(r)
      /\ Len(q) \in Nat /\ Len(r) \in Nat
      /\ \A i \in 1..Len(q) : t[i] = q[i]
  BY ConcatProperties, LenProperties
<1> HIDE DEF t
<1>2. /\ Cut(q, k, l) \in Seq(S) /\ Len(Cut(q, k, l)) = l
      /\ \A i \in 1..l : Cut(q, k, l)[i] = q[k + i]
  BY CutElements
<1>3. t \in Seq(S) /\ k + l <= Len(t)
  BY <1>1
<1>4. /\ Cut(t, k, l) \in Seq(S) /\ Len(Cut(t, k, l)) = l
      /\ \A i \in 1..l : Cut(t, k, l)[i] = t[k + i]
  BY <1>3, CutElements
<1>5. \A i \in 1..l : k + i \in 1..Len(q)
  BY <1>1
<1>6. \A i \in 1..l : Cut(t, k, l)[i] = Cut(q, k, l)[i]
  BY <1>1, <1>2, <1>4, <1>5
<1>7. Cut(t, k, l) = Cut(q, k, l)
  BY <1>2, <1>4, <1>6, SeqEqual
<1> QED BY <1>7 DEF t

\* The end of q, followed by r.
LEMMA EndConcat ==
  ASSUME NEW S, NEW q \in Seq(S), NEW r \in Seq(S), NEW b \in Nat, b <= Len(q)
  PROVE  Cut(q, b, Len(q) - b) \o r = Cut(q \o r, b, Len(q \o r) - b)
<1> DEFINE t == q \o r
           e == Cut(q, b, Len(q) - b)
           f == Cut(t, b, Len(t) - b)
<1>1. /\ t \in Seq(S) /\ Len(t) = Len(q) + Len(r)
      /\ Len(q) \in Nat /\ Len(r) \in Nat
      /\ \A i \in 1..(Len(q) + Len(r)) :
           t[i] = IF i <= Len(q) THEN q[i] ELSE r[i - Len(q)]
  BY ConcatProperties, LenProperties
<1> HIDE DEF t
<1>2. Len(q) - b \in Nat /\ b + (Len(q) - b) <= Len(q)
  BY <1>1
<1>3. /\ e \in Seq(S) /\ Len(e) = Len(q) - b
      /\ \A i \in 1..(Len(q) - b) : e[i] = q[b + i]
  BY <1>2, CutElements
<1>4. t \in Seq(S) /\ Len(t) - b \in Nat /\ b + (Len(t) - b) <= Len(t)
  BY <1>1
<1>5. /\ f \in Seq(S) /\ Len(f) = Len(t) - b
      /\ \A i \in 1..(Len(t) - b) : f[i] = t[b + i]
  BY <1>4, CutElements
<1> HIDE DEF e, f
<1>6. /\ e \o r \in Seq(S) /\ Len(e \o r) = Len(e) + Len(r)
      /\ \A i \in 1..(Len(e) + Len(r)) :
           (e \o r)[i] = IF i <= Len(e) THEN e[i] ELSE r[i - Len(e)]
  BY <1>3, ConcatProperties
<1>7. Len(e \o r) = Len(f)
  BY <1>1, <1>3, <1>5, <1>6
<1>8. ASSUME NEW i \in 1..Len(f)
      PROVE  (e \o r)[i] = f[i]
  <2>1. i \in Nat /\ i \in 1..(Len(t) - b) /\ i \in 1..(Len(e) + Len(r))
    BY <1>1, <1>3, <1>5
  <2>2. f[i] = t[b + i] /\ b + i \in 1..(Len(q) + Len(r))
    BY <1>1, <1>5, <2>1
  <2>3. CASE i <= Len(q) - b
    <3>1. i \in 1..(Len(q) - b) /\ b + i <= Len(q) /\ i <= Len(e)
      BY <1>1, <1>3, <2>1, <2>3
    <3> QED BY <1>1, <1>3, <1>6, <2>1, <2>2, <3>1
  <2>4. CASE ~(i <= Len(q) - b)
    <3>1. ~(b + i <= Len(q)) /\ ~(i <= Len(e)) /\ i - Len(e) = b + i - Len(q)
      BY <1>1, <1>3, <2>1, <2>4
    <3>2. t[b + i] = r[b + i - Len(q)]
      BY SMTT(30), <1>1, <2>2, <3>1
    <3>3. (e \o r)[i] = r[i - Len(e)]
      BY <1>6, <2>1, <3>1
    <3> QED BY <2>2, <3>1, <3>2, <3>3
  <2> QED BY <2>3, <2>4
<1>9. e \o r = f
  BY <1>5, <1>6, <1>7, <1>8, SeqEqual
<1> QED BY <1>9 DEF e, f, t

----------------------------------------------------------------------------
\* Frames in the order of their starts: each once, and no others.
LEMMA Listing ==
  ASSUME NEW D, IsFiniteSet(D), \A x \in D : x.at \in Nat,
         \A x, y \in D : x.at = y.at => x = y
  PROVE  /\ IsSeq(ByStart(D)) /\ Range(ByStart(D)) = D
         /\ \A i, j \in 1..Len(ByStart(D)) : ByStart(D)[i] = ByStart(D)[j] => i = j
<1> DEFINE c == Cardinality(D)
           B(x) == {y \in D : y.at < x.at}
           f == [x \in D |-> Cardinality(B(x))]
           q == ByStart(D)
<1>1. /\ c \in Nat
      /\ \A x : /\ B(x) \subseteq D /\ IsFiniteSet(B(x))
                /\ Cardinality(B(x)) \in Nat /\ Cardinality(B(x)) <= c
                /\ Cardinality(B(x)) = c => B(x) = D
  BY FS_Subset, FS_CardinalityType
<1>2. ASSUME NEW x \in D
      PROVE  Cardinality(B(x)) \in 0..(c - 1)
  <2>1. x \notin B(x)
    <3>1. ~(x.at < x.at)
      OBVIOUS
    <3> QED BY <3>1
  <2>2. \A a, b \in Nat : a <= b /\ a # b => a \in 0..(b - 1)
    OBVIOUS
  <2> HIDE DEF B, c
  <2> QED BY <1>1, <2>1, <2>2
<1>3. ASSUME NEW x \in D, NEW y \in D, x.at < y.at
      PROVE  Cardinality(B(x)) # Cardinality(B(y))
  <2>1. \A a, b, d \in Nat : a < b /\ b < d => a < d
    OBVIOUS
  <2>2. \A z \in D : z.at < x.at => z.at < y.at
    BY <1>3, <2>1
  <2>3. ~(x.at < x.at)
    OBVIOUS
  <2>4. B(x) \in SUBSET B(y) /\ x \in B(y) /\ x \notin B(x)
    BY <1>3, <2>2, <2>3
  <2> HIDE DEF B, c
  <2> QED BY <1>1, <2>4, FS_Subset
<1>4. \A x, y \in D : x # y => x.at < y.at \/ y.at < x.at
  OBVIOUS
<1>5. f \in [D -> 0..(c - 1)] /\ \A x, y \in D : f[x] = f[y] => x = y
  <2> HIDE DEF B, c
  <2> QED BY <1>2, <1>3, <1>4
<1>6. IsFiniteSet(0..(c - 1)) /\ Cardinality(0..(c - 1)) = c
  <2> HIDE DEF c
  <2>1. 0 \in Int /\ c - 1 \in Int /\ (0 > c - 1 => c = 0) /\ c - 1 - 0 + 1 = c
    BY <1>1
  <2> QED BY <2>1, FS_Interval
<1>7. f \in Surjection(D, 0..(c - 1))
  <2> HIDE DEF f
  <2>1. f \in Injection(D, 0..(c - 1))
    BY <1>5, Fun_IsInj
  <2> QED BY <1>6, <2>1, FS_Injection
<1>8. \A r \in 0..(c - 1) : \E x \in D : f[x] = r
  <2> HIDE DEF f, c
  <2> QED BY <1>7, Fun_SurjectionProperties
<1>9. \A x \in D : f[x] = Cardinality({y \in D : y.at < x.at})
  OBVIOUS
<1>10. /\ DOMAIN q = 1..c /\ q = [i \in 1..c |-> q[i]]
       /\ \A i \in 1..c : q[i] = CHOOSE x \in D : Cardinality({y \in D : y.at < x.at}) = i - 1
  <2> DEFINE nth(i) == CHOOSE x \in D : Cardinality({y \in D : y.at < x.at}) = i - 1
  <2>1. q = [i \in 1..c |-> nth(i)]
    BY DEF ByStart
  <2> HIDE DEF q, c, nth
  <2>2. /\ DOMAIN q = 1..c /\ q = [i \in 1..c |-> q[i]]
        /\ \A i \in 1..c : q[i] = nth(i)
    BY <2>1
  <2> QED BY <2>2 DEF nth
<1> HIDE DEF q, f, c
<1>11. ASSUME NEW i \in 1..c
       PROVE  q[i] \in D /\ f[q[i]] = i - 1
  <2>1. i - 1 \in 0..(c - 1)
    BY <1>1
  <2>2. \E x \in D : Cardinality({y \in D : y.at < x.at}) = i - 1
    BY <1>8, <1>9, <2>1
  <2> QED BY <1>9, <1>10, <2>2
<1>12. \A x \in D : \E i \in 1..c : q[i] = x
  <2> SUFFICES ASSUME NEW x \in D PROVE \E i \in 1..c : q[i] = x
    OBVIOUS
  <2>1. f[x] \in 0..(c - 1)
    BY <1>5
  <2>2. f[x] + 1 \in 1..c /\ f[x] + 1 - 1 = f[x]
    BY <1>1, <2>1
  <2> QED BY <1>5, <1>11, <2>2
<1>13. Range(q) = D
  BY <1>10, <1>11, <1>12 DEF Range
<1>14. q \in [1..c -> D]
  BY <1>10, <1>11
<1>15. q \in Seq(D) /\ Len(q) = c
  BY <1>1, <1>14, SeqDef
<1>16. \A i, j \in 1..c : q[i] = q[j] => i = j
  BY <1>1, <1>11
<1>17. /\ IsSeq(q) /\ Range(q) = D
       /\ \A i, j \in 1..Len(q) : q[i] = q[j] => i = j
  BY <1>13, <1>15, <1>16 DEF IsSeq
<1> QED BY <1>17 DEF q

\* A list, and another that has nothing in common with it.
LEMMA ListsConcat ==
  ASSUME NEW p, IsSeq(p), \A i, j \in 1..Len(p) : p[i] = p[j] => i = j,
         NEW q, IsSeq(q), \A i, j \in 1..Len(q) : q[i] = q[j] => i = j,
         Range(p) \cap Range(q) = {}
  PROVE  /\ IsSeq(p \o q) /\ Range(p \o q) = Range(p) \cup Range(q)
         /\ \A i, j \in 1..Len(p \o q) : (p \o q)[i] = (p \o q)[j] => i = j
<1> DEFINE S == Range(p) \cup Range(q)
           t == p \o q
<1>1. p \in Seq(S) /\ q \in Seq(S)
  BY SeqMonotonic DEF IsSeq
<1>2. Range(t) = S /\ t \in Seq(S)
  BY <1>1, RangeConcatenation, ConcatProperties
<1>3. /\ Len(p) \in Nat /\ Len(q) \in Nat /\ Len(t) = Len(p) + Len(q)
      /\ \A i \in 1..(Len(p) + Len(q)) :
           t[i] = IF i <= Len(p) THEN p[i] ELSE q[i - Len(p)]
      /\ DOMAIN p = 1..Len(p) /\ DOMAIN q = 1..Len(q)
  BY <1>1, ConcatProperties, LenProperties
<1> HIDE DEF t
<1>4. \A i \in 1..Len(t) :
        \/ i \in 1..Len(p) /\ t[i] = p[i] /\ t[i] \in Range(p)
        \/ /\ i - Len(p) \in 1..Len(q) /\ t[i] = q[i - Len(p)]
           /\ t[i] \in Range(q)
  <2> SUFFICES ASSUME NEW i \in 1..Len(t)
               PROVE  \/ i \in 1..Len(p) /\ t[i] = p[i] /\ t[i] \in Range(p)
                      \/ /\ i - Len(p) \in 1..Len(q) /\ t[i] = q[i - Len(p)]
                         /\ t[i] \in Range(q)
    OBVIOUS
  <2>1. CASE i <= Len(p)
    <3>1. i \in 1..Len(p) /\ t[i] = p[i]
      BY <1>3, <2>1
    <3> QED BY <1>3, <3>1 DEF Range
  <2>2. CASE ~(i <= Len(p))
    <3>1. i - Len(p) \in 1..Len(q) /\ t[i] = q[i - Len(p)]
      BY <1>3, <2>2
    <3> QED BY <1>3, <3>1 DEF Range
  <2> QED BY <2>1, <2>2
<1>5. ASSUME NEW i \in 1..Len(t), NEW j \in 1..Len(t), t[i] = t[j]
      PROVE  i = j
  <2>1. \/ i \in 1..Len(p) /\ j \in 1..Len(p) /\ p[i] = p[j]
        \/ /\ i - Len(p) \in 1..Len(q) /\ j - Len(p) \in 1..Len(q)
           /\ q[i - Len(p)] = q[j - Len(p)]
    BY <1>4, <1>5
  <2>2. i - Len(p) = j - Len(p) => i = j
    BY <1>3
  <2> QED BY <2>1, <2>2
<1>6. IsSeq(t) /\ Range(t) = Range(p) \cup Range(q)
  BY <1>2 DEF IsSeq
<1> QED BY <1>5, <1>6 DEF t

----------------------------------------------------------------------------
\* The frames of a stream q, position by position.
CodeAt(q, s) == Cardinality(Errors(Cut(q, s, Len(Code)))) <= Threshold

FieldAt(q, k) == Number(Cut(q, k, LenBits))

LengthAt(q, s) == FieldAt(q, s + Len(Code))

Plausible(q, s) ==
  /\ FieldAt(q, s + Len(Code)) = FieldAt(q, s + Len(Code) + LenBits)
  /\ LengthAt(q, s) \in MinLen..MaxLen

EndAt(q, s) == s + Header + Byte * LengthAt(q, s)

DataAt(q, s) == Cut(q, s + Header, Byte * LengthAt(q, s))

\* Where the code is; and where its header, or the rest of its frame, is still
\* to come, or is complete.
Hits(q) == {s \in Nat : s + Len(Code) <= Len(q) /\ CodeAt(q, s)}
Early(q) == {s \in Hits(q) : s + Header > Len(q)}
Good(q)  == {s \in Hits(q) : s + Header <= Len(q) /\ Plausible(q, s)}
Open(q)  == {s \in Good(q) : EndAt(q, s) > Len(q)}
Full(q)  == {s \in Good(q) : EndAt(q, s) <= Len(q)}

\* What the deframer has pending after q, and what it has returned.
Unread(s) == [start |-> s, length |-> None]
Begun(q, s) == [start |-> s, length |-> LengthAt(q, s)]
FrameAt(q, s) == [at |-> s, data |-> DataAt(q, s)]

Waiting(q) == {Unread(s) : s \in Early(q)} \cup {Begun(q, s) : s \in Open(q)}

Frames(q) == {FrameAt(q, s) : s \in Full(q)}

\* What a constant is.
LEMMA Sizes ==
  /\ Code \in Seq(Bits) /\ Len(Code) \in Nat \ {0}
  /\ LenBits \in Nat /\ Byte \in Nat \ {0} /\ MinLen \in Nat /\ MaxLen \in Nat
  /\ Header \in Nat /\ Header >= Len(Code) /\ Header = Len(Code) + LenBits + LenBits
  /\ \A l \in MinLen..MaxLen : l \in Nat /\ l # None /\ Byte * l \in Nat
<1>1. /\ Code \in Seq(Bits) /\ Code # << >> /\ LenBits \in Nat
      /\ Byte \in Nat \ {0} /\ MinLen \in Nat /\ MaxLen \in Nat
  BY FramingAssumption
<1>2. Len(Code) \in Nat \ {0}
  BY <1>1, EmptySeq
<1>3. Header \in Nat /\ Header >= Len(Code) /\ Header = Len(Code) + LenBits + LenBits
  BY <1>1, <1>2 DEF Header
<1>4. \A l \in MinLen..MaxLen : l \in Nat /\ l # None
  BY <1>1 DEF None
<1>5. \A a, b \in Nat : a * b \in Nat
  OBVIOUS
<1> QED BY <1>1, <1>2, <1>3, <1>4, <1>5

\* One of the parts of the code is intact if there are few errors in it, and so
\* the search for a part misses nothing.
LEMMA PartIntact ==
  ASSUME NEW s, NEW w
  PROVE  IsCode(s, w) <=> Cardinality(Errors(w)) <= Threshold
<1> DEFINE E == Errors(w)
<1>1. /\ Len(Code) \in Nat /\ UNION Parts = 0..(Len(Code) - 1)
      /\ Cardinality(Parts) > Threshold /\ Threshold \in Nat
      /\ \A P, Q \in Parts : P # Q => P \cap Q = {}
  BY Sizes, FramingAssumption
<1>2. IsFiniteSet(0..(Len(Code) - 1))
  BY <1>1, FS_Interval
<1>3. IsFiniteSet(E)
  BY <1>2, FS_Subset DEF Errors
<1>4. IsFiniteSet(Parts)
  <2>1. Parts \subseteq SUBSET (0..(Len(Code) - 1))
    BY <1>1
  <2>2. IsFiniteSet(SUBSET (0..(Len(Code) - 1)))
    BY <1>2, FS_SUBSET
  <2> QED BY <2>1, <2>2, FS_Subset
<1> HIDE DEF E
<1>5. ASSUME Cardinality(E) <= Threshold, \A P \in Parts : E \cap P # {}
      PROVE  FALSE
  <2> DEFINE f == [P \in Parts |-> CHOOSE i : i \in E \cap P]
  <2>1. \A P \in Parts : f[P] \in E \cap P
    BY <1>5
  <2>2. f \in [Parts -> E]
    BY <2>1
  <2>3. Cardinality(E) < Cardinality(Parts)
    <3>1. Cardinality(E) \in Nat /\ Cardinality(Parts) \in Nat
      BY <1>3, <1>4, FS_CardinalityType
    <3> QED BY <1>1, <1>5, <3>1
  <2> HIDE DEF f
  <2>4. \E P, Q \in Parts : P # Q /\ f[P] = f[Q]
    BY <1>3, <1>4, <2>2, <2>3, FS_PigeonHole
  <2> QED BY <1>1, <2>1, <2>4
<1> QED BY <1>5 DEF IsCode, E

\* The reference of the property is this.
LEMMA ReferenceIs ==
  ASSUME NEW S, stream \in Seq(S)
  PROVE  Reference = Frames(stream)
<1> DEFINE q == stream
           good(s) ==
             /\ CodeAt(q, s) /\ Plausible(q, s) /\ EndAt(q, s) <= Len(q)
<1>1. Reference = {FrameAt(q, s) : s \in {s \in 0..(Len(q) - Header) : good(s)}}
  BY DEF Reference, CodeAt, Plausible, EndAt, LengthAt, FieldAt, Cut, FrameAt, DataAt
<1>2. Len(q) \in Nat /\ Header \in Nat /\ Len(Code) \in Nat /\ Header >= Len(Code)
  BY LenProperties, Sizes
<1>3. \A s \in Nat : EndAt(q, s) <= Len(q) /\ Plausible(q, s)
                       => s + Header <= Len(q) /\ s + Len(Code) <= Len(q)
  <2> SUFFICES ASSUME NEW s \in Nat, EndAt(q, s) <= Len(q), Plausible(q, s)
               PROVE  s + Header <= Len(q) /\ s + Len(Code) <= Len(q)
    OBVIOUS
  <2>1. Byte * LengthAt(q, s) \in Nat
    BY Sizes DEF Plausible
  <2> QED BY <1>2, <2>1 DEF EndAt
<1>4. {s \in 0..(Len(q) - Header) : good(s)} = Full(q)
  <2>1. \A s : s \in 0..(Len(q) - Header) <=> s \in Nat /\ s + Header <= Len(q)
    BY <1>2
  <2> HIDE DEF q
  <2> QED BY <1>3, <2>1 DEF Full, Good, Hits
<1> QED BY <1>1, <1>4 DEF Frames

\* What q grows by does not change what has been read.
LEMMA Growth ==
  ASSUME NEW S, NEW q \in Seq(S), NEW r \in Seq(S)
  PROVE  /\ Hits(q) = {s \in Hits(q \o r) : s + Len(Code) <= Len(q)}
         /\ \A s \in Hits(q) : s + Header <= Len(q) =>
              /\ Plausible(q \o r, s) <=> Plausible(q, s)
              /\ LengthAt(q \o r, s) = LengthAt(q, s)
         /\ \A s \in Full(q) : DataAt(q \o r, s) = DataAt(q, s)
<1> DEFINE t == q \o r
<1>1. /\ t \in Seq(S) /\ Len(q) \in Nat /\ Len(t) \in Nat /\ Len(q) <= Len(t)
  <2>1. /\ t \in Seq(S) /\ Len(t) = Len(q) + Len(r)
        /\ Len(q) \in Nat /\ Len(r) \in Nat
    BY ConcatProperties, LenProperties
  <2> QED BY <2>1
<1>2. \A k, l \in Nat : k + l <= Len(q) => Cut(t, k, l) = Cut(q, k, l)
  BY CutOfConcat
<1> HIDE DEF t
<1>3. /\ Len(Code) \in Nat /\ LenBits \in Nat
      /\ Header = Len(Code) + LenBits + LenBits
  BY Sizes
<1>4. \A s \in Nat : s + Len(Code) <= Len(q) => (CodeAt(t, s) <=> CodeAt(q, s))
  BY <1>2, <1>3 DEF CodeAt
<1>5. Hits(q) = {s \in Hits(t) : s + Len(Code) <= Len(q)}
  <2>1. \A s \in Nat : s + Len(Code) <= Len(q) => s + Len(Code) <= Len(t)
    BY <1>1, <1>3
  <2> QED BY <1>4, <2>1 DEF Hits
<1>6. ASSUME NEW s \in Nat, s + Header <= Len(q)
      PROVE  (Plausible(t, s) <=> Plausible(q, s)) /\ LengthAt(t, s) = LengthAt(q, s)
  <2>1. /\ s + Len(Code) \in Nat /\ s + Len(Code) + LenBits \in Nat
        /\ s + Len(Code) + LenBits <= Len(q)
        /\ s + Len(Code) + LenBits + LenBits <= Len(q)
    BY <1>1, <1>3, <1>6
  <2>2. FieldAt(t, s + Len(Code)) = FieldAt(q, s + Len(Code))
    BY <1>2, <1>3, <2>1 DEF FieldAt
  <2>3. FieldAt(t, s + Len(Code) + LenBits) = FieldAt(q, s + Len(Code) + LenBits)
    BY <1>2, <1>3, <2>1 DEF FieldAt
  <2> QED BY <2>2, <2>3 DEF Plausible, LengthAt
<1>7. ASSUME NEW s \in Full(q)
      PROVE  DataAt(t, s) = DataAt(q, s)
  <2>1. /\ s \in Nat /\ s + Header <= Len(q) /\ Plausible(q, s)
        /\ s + Header + Byte * LengthAt(q, s) <= Len(q)
    BY DEF Full, Good, Hits, EndAt
  <2>2. Byte * LengthAt(q, s) \in Nat /\ s + Header \in Nat
    BY SMTT(30), <2>1, Sizes DEF Plausible
  <2>3. LengthAt(t, s) = LengthAt(q, s)
    BY <1>6, <2>1
  <2> QED BY <1>2, <2>1, <2>2, <2>3 DEF DataAt
<1>8. \A s \in Hits(q) : s \in Nat
  BY DEF Hits
<1> QED BY <1>5, <1>6, <1>7, <1>8 DEF t

\* How the positions move on when q grows to t.
Fresh(q, t) == {s \in Hits(t) : ~(s + Len(Code) <= Len(q))}

MovesOn(q, t) ==
  /\ Early(t) = {s \in Early(q) \cup Fresh(q, t) : s + Header > Len(t)}
  /\ Good(t) \ Full(q) =
       Open(q) \cup {s \in (Early(q) \cup Fresh(q, t)) \ Early(t) : Plausible(t, s)}
  /\ Full(q) \subseteq Full(t)
  /\ \A s \in Good(q) : LengthAt(t, s) = LengthAt(q, s)
  /\ \A s \in Full(q) : DataAt(t, s) = DataAt(q, s)

LEMMA Progress ==
  ASSUME NEW S, NEW q \in Seq(S), NEW r \in Seq(S)
  PROVE  MovesOn(q, q \o r)
<1> DEFINE t == q \o r
           N == Fresh(q, t)
<1>1. /\ Len(q) \in Nat /\ Len(t) \in Nat /\ Len(q) <= Len(t)
  <2>1. /\ Len(t) = Len(q) + Len(r) /\ Len(q) \in Nat /\ Len(r) \in Nat
    BY ConcatProperties, LenProperties
  <2> QED BY <2>1
<1>2. /\ Hits(q) = {s \in Hits(t) : s + Len(Code) <= Len(q)}
      /\ \A s \in Hits(q) : s + Header <= Len(q) =>
              /\ Plausible(t, s) <=> Plausible(q, s)
              /\ LengthAt(t, s) = LengthAt(q, s)
      /\ \A s \in Full(q) : DataAt(t, s) = DataAt(q, s)
  BY Growth
<1>3. N = {s \in Hits(t) : ~(s + Len(Code) <= Len(q))}
  BY DEF Fresh
<1> HIDE DEF t, N
<1>4. /\ Len(Code) \in Nat /\ Header \in Nat /\ Header >= Len(Code)
      /\ Hits(t) = Hits(q) \cup N /\ Hits(t) \subseteq Nat
  BY <1>2, <1>3, Sizes DEF Hits
<1>5. \A s \in Nat : /\ s + Header <= Len(q) => s + Header <= Len(t)
                     /\ s + Header > Len(t) => s + Header > Len(q)
                     /\ s + Header > Len(t) <=> ~(s + Header <= Len(t))
                     /\ s + Header > Len(q) <=> ~(s + Header <= Len(q))
                     /\ ~(s + Len(Code) <= Len(q)) => ~(s + Header <= Len(q))
  BY <1>1, <1>4
<1>6. Early(t) = {s \in Early(q) \cup N : s + Header > Len(t)}
  BY <1>4, <1>5 DEF Early
<1>7. \A s \in Good(q) : LengthAt(t, s) = LengthAt(q, s) /\ s \in Good(t)
  BY <1>2, <1>4, <1>5 DEF Good
<1>8. \A s \in Good(q) : EndAt(t, s) = EndAt(q, s)
  BY <1>7 DEF EndAt
<1>9. \A s \in Good(q) : LengthAt(q, s) \in MinLen..MaxLen /\ EndAt(q, s) \in Nat
  <2>1. \A s \in Good(q) : LengthAt(q, s) \in MinLen..MaxLen /\ s \in Nat
    BY DEF Good, Plausible, Hits
  <2>2. \A s \in Good(q) : Byte * LengthAt(q, s) \in Nat
    BY <2>1, Sizes
  <2>3. \A a, b, c \in Nat : a + b + c \in Nat
    OBVIOUS
  <2> QED BY <1>4, <2>1, <2>2, <2>3 DEF EndAt
<1>10. Full(q) \subseteq Full(t)
  <2>1. \A a \in Nat : a <= Len(q) => a <= Len(t)
    BY <1>1
  <2> QED BY <1>7, <1>8, <1>9, <2>1 DEF Full
<1>11. \A s \in Good(q) : s \in Open(q) <=> s \notin Full(q)
  BY <1>1, <1>9 DEF Open, Full
<1>12. \A s \in Good(t) : s \in Good(q) \/ s \in (Early(q) \cup N) \ Early(t)
  BY <1>2, <1>4, <1>5 DEF Good, Early
<1>13. Good(t) \ Full(q) =
         Open(q) \cup {s \in (Early(q) \cup N) \ Early(t) : Plausible(t, s)}
  <2>1. \A s \in (Early(q) \cup N) \ Early(t) : Plausible(t, s) => s \in Good(t)
    BY <1>4, <1>5, <1>6 DEF Good, Early
  <2>2. \A s \in Early(q) \cup N : s \notin Good(q)
    BY <1>3, <1>4, <1>5 DEF Good, Early
  <2>3. \A s \in Good(t) : Plausible(t, s)
    BY DEF Good
  <2>4. Full(q) \subseteq Good(q) /\ Open(q) \subseteq Good(q)
    BY DEF Full, Open
  <2> QED BY <1>7, <1>11, <1>12, <2>1, <2>2, <2>3, <2>4
<1> HIDE DEF t
<1>14. MovesOn(q, t)
  BY <1>2, <1>6, <1>7, <1>10, <1>13 DEF MovesOn, N
<1> QED BY <1>14 DEF t

\* A set of natural numbers that is not empty has a least one.
LEMMA LeastNumber ==
  ASSUME NEW T, T \subseteq Nat, T # {}
  PROVE  \E k \in T : \A j \in T : k <= j
<1> DEFINE less == {p \in Nat \X Nat : p[1] < p[2]}
<1>1. IsWellFoundedOn(less, Nat)
  BY NatLessThanWellFounded DEF OpToRel
<1> HIDE DEF less
<1>2. PICK k \in T : \A j \in T : ~(<<j, k>> \in less)
  BY <1>1, WFMin
<1>3. ASSUME NEW j \in T, ~(k <= j)
      PROVE  FALSE
  <2>1. j \in Nat /\ k \in Nat /\ j < k
    BY <1>3
  <2>2. <<j, k>> \in less
    BY <2>1 DEF less
  <2> QED BY <1>2, <2>2
<1> QED BY <1>3

----------------------------------------------------------------------------
(***************************************************************************)
(* The invariant.  What the deframer has pending and has returned is what  *)
(* the stream so far determines; its buffer is the end of the stream, and  *)
(* reaches back to whatever is still to be read or searched, no further.   *)
(***************************************************************************)
\* The first position that has not been searched.
Searched(q) == IF Len(q) < Len(Code) THEN 0 ELSE Len(q) - Len(Code) + 1

Buffer ==
  /\ IsSeq(wire) /\ IsSeq(stream)
  /\ rx.base \in Nat /\ rx.base <= Len(stream)
  /\ rx.buf = Cut(stream, rx.base, Len(stream) - rx.base)
  /\ rx.scanned = Searched(stream) /\ rx.base <= rx.scanned
  /\ \A p \in rx.pending : rx.base <= p.start
  /\ rx.base \in {p.start : p \in rx.pending} \cup {rx.scanned}

Returned ==
  /\ IsSeq(found) /\ Range(found) = Frames(stream)
  /\ \A i, j \in 1..Len(found) : found[i] = found[j] => i = j

Deframed == Buffer /\ rx.pending = Waiting(stream) /\ Returned

LEMMA FeedDeframes ==
  ASSUME Deframed, NEW n \in Chunks, Feed(n)
  PROVE  Deframed'
<1> DEFINE r     == SubSeq(wire, 1, n)
           t     == stream \o r
           buf   == rx.buf \o r
           end   == rx.base + Len(buf)
           cut(k, l) == SubSeq(buf, k - rx.base + 1, k - rx.base + l)
           hi    == end - Len(Code) + 1
           hits  == {s \in rx.scanned..(hi - 1) : IsCode(s, cut(s, Len(Code)))}
           all   == rx.pending \cup {[start |-> s, length |-> None] : s \in hits}
           len0(p) == Number(cut(p.start + Len(Code), LenBits))
           len1(p) == Number(cut(p.start + Len(Code) + LenBits, LenBits))
           early == {p \in all : p.length = None /\ p.start + Header > end}
           known == {p \in all : p.length # None}
                      \cup {[start |-> p.start, length |-> len0(p)] :
                              p \in {p \in all \ early :
                                       /\ p.length = None /\ len0(p) = len1(p)
                                       /\ len0(p) \in MinLen..MaxLen}}
           done  == {p \in known : Stop(p) <= end}
           keep  == early \cup (known \ done)
           scanned == IF hi > rx.scanned THEN hi ELSE rx.scanned
           from  == Min({p.start : p \in keep} \cup {scanned})
           base  == IF from > rx.base THEN from ELSE rx.base
           frame(p) == [at |-> p.start, data |-> cut(p.start + Header, Byte * p.length)]
<1>1. /\ n <= Len(wire) /\ wire' = SubSeq(wire, n + 1, Len(wire))
      /\ stream' = t
      /\ found' = found \o ByStart({frame(p) : p \in done})
      /\ rx' = [buf |-> SubSeq(buf, base - rx.base + 1, Len(buf)), base |-> base,
                scanned |-> scanned, pending |-> keep]
  BY DEF Feed
<1>2. PICK S : stream \in Seq(S) /\ wire \in Seq(S)
  <2>1. /\ stream \in Seq(Range(stream) \cup Range(wire))
        /\ wire \in Seq(Range(stream) \cup Range(wire))
    BY SeqMonotonic DEF Deframed, Buffer, IsSeq
  <2> QED BY <2>1
<1>3. n \in Nat /\ Len(wire) \in Nat /\ Len(stream) \in Nat
  BY <1>2, LenProperties, FramingAssumption
<1>4. r \in Seq(S) /\ IsSeq(wire')
  <2>1. \A i \in 1..Len(wire) : wire[i] \in S
    BY <1>2, ElementOfSeq
  <2>2. r \in Seq(S)
    <3>1. \A i \in 1..n : wire[i] \in S
      <4>1. n <= Len(wire)
        BY <1>1
      <4> QED BY <1>3, <2>1, <4>1
    <3> QED BY <1>3, <3>1, SubSeqProperties
  <2>3. SubSeq(wire, n + 1, Len(wire)) \in Seq(S)
    <3>1. \A i \in (n + 1)..Len(wire) : wire[i] \in S
      BY <1>3, <2>1
    <3>2. n + 1 \in Int /\ Len(wire) \in Int
      BY <1>3
    <3> QED BY <3>1, <3>2, SubSeqProperties
  <2>4. \A q \in Seq(S) : IsSeq(q)
    BY SeqOfRange DEF IsSeq
  <2>5. wire' \in Seq(S)
    BY <1>1, <2>3
  <2> QED BY <2>2, <2>4, <2>5
<1> HIDE DEF r
<1>5. /\ t \in Seq(S) /\ Len(t) \in Nat /\ Len(stream) <= Len(t) /\ IsSeq(t)
  <2>1. /\ t \in Seq(S) /\ Len(t) = Len(stream) + Len(r)
        /\ Len(stream) \in Nat /\ Len(r) \in Nat
    BY <1>2, <1>4, ConcatProperties, LenProperties
  <2>2. IsSeq(t)
    BY <2>1, SeqOfRange DEF IsSeq
  <2> QED BY <2>1, <2>2
<1> DEFINE b == rx.base
<1>6. /\ b \in Nat /\ b <= Len(stream) /\ b <= rx.scanned
      /\ rx.scanned = Searched(stream) /\ rx.pending = Waiting(stream)
      /\ \A p \in rx.pending : b <= p.start
  BY DEF Deframed, Buffer
<1>7. buf = Cut(t, b, Len(t) - b)
  <2>1. rx.buf = Cut(stream, b, Len(stream) - b)
    BY DEF Deframed, Buffer
  <2>2. Cut(stream, b, Len(stream) - b) \o r = Cut(t, b, Len(t) - b)
    BY <1>2, <1>4, <1>6, EndConcat
  <2> QED BY <2>1, <2>2
<1> HIDE DEF t, buf
<1>8. Len(t) - b \in Nat /\ b + (Len(t) - b) <= Len(t)
  BY <1>3, <1>5, <1>6
<1>9. buf \in Seq(S) /\ Len(buf) = Len(t) - b /\ end = Len(t)
  <2>1. buf \in Seq(S) /\ Len(buf) = Len(t) - b
    BY <1>5, <1>6, <1>7, <1>8, CutElements
  <2>2. b + (Len(t) - b) = Len(t)
    BY <1>5, <1>6
  <2> QED BY <2>1, <2>2
<1>10. \A k, l \in Nat : b <= k /\ k + l <= Len(t) => cut(k, l) = Cut(t, k, l)
  <2> SUFFICES ASSUME NEW k \in Nat, NEW l \in Nat, b <= k, k + l <= Len(t)
               PROVE  cut(k, l) = Cut(t, k, l)
    OBVIOUS
  <2> DEFINE j == k - b
             m == Len(t) - b
  <2>1. j \in Nat /\ j + l <= m /\ b + j = k /\ m \in Nat /\ b + m <= Len(t)
    <3>1. \A x, y, u, v \in Nat : x <= u /\ u + v <= y =>
             /\ u - x \in Nat /\ u - x + v <= y - x /\ x + (u - x) = u
             /\ y - x \in Nat /\ x + (y - x) <= y
      OBVIOUS
    <3>2. Len(t) \in Nat /\ b \in Nat
      BY <1>5, <1>6
    <3> HIDE DEF b
    <3> QED BY <3>1, <3>2
  <2>2. cut(k, l) = Cut(buf, j, l) /\ buf = Cut(t, b, m)
    BY <1>7 DEF Cut
  <2> HIDE DEF j, m
  <2>3. Cut(Cut(t, b, m), j, l) = Cut(t, b + j, l)
    <3> DEFINE T == Len(t)
    <3>1. T = Len(t) /\ t \in Seq(S) /\ b \in Nat
      BY <1>5, <1>6
    <3> HIDE DEF T, b
    <3> QED BY <2>1, <3>1, CutOfCut
  <2> QED BY <2>1, <2>2, <2>3
<1> HIDE DEF end, cut, b
<1>11. /\ Len(Code) \in Nat \ {0} /\ LenBits \in Nat /\ Header \in Nat
       /\ Header = Len(Code) + LenBits + LenBits /\ Header >= Len(Code)
  BY Sizes
<1> DEFINE N == Fresh(stream, t)
           F == Full(t) \ Full(stream)
\* The search.
<1>12. hits = N
  <2>1. ASSUME NEW s \in Nat
        PROVE  /\ s >= rx.scanned <=> ~(s + Len(Code) <= Len(stream))
               /\ s <= hi - 1 <=> s + Len(Code) <= Len(t)
    <3>1. s <= hi - 1 <=> s + Len(Code) <= Len(t)
      BY <1>5, <1>9, <1>11
    <3>2. s >= rx.scanned <=> ~(s + Len(Code) <= Len(stream))
      BY <1>3, <1>6, <1>11 DEF Searched
    <3> QED BY <3>1, <3>2
  <2>2. rx.scanned \in Nat /\ hi - 1 \in Int
    BY <1>3, <1>5, <1>6, <1>9, <1>11 DEF Searched
  <2>3. \A s : s \in rx.scanned..(hi - 1) <=>
                 /\ s \in Nat /\ s + Len(Code) <= Len(t)
                 /\ ~(s + Len(Code) <= Len(stream))
    <3>1. \A x \in Nat, y \in Int : \A s :
            s \in x..y <=> s \in Nat /\ s >= x /\ s <= y
      OBVIOUS
    <3>2. \A s : s \in rx.scanned..(hi - 1) <=>
                   s \in Nat /\ s >= rx.scanned /\ s <= hi - 1
      BY <2>2, <3>1
    <3> HIDE DEF hi
    <3> QED BY <2>1, <3>2
  <2>4. ASSUME NEW s \in rx.scanned..(hi - 1)
        PROVE  IsCode(s, cut(s, Len(Code))) <=> CodeAt(t, s)
    <3>1. s \in Nat /\ b <= s /\ s + Len(Code) <= Len(t)
      <4>1. s \in Nat /\ s + Len(Code) <= Len(t) /\ s >= rx.scanned
        BY <2>2, <2>3, <2>4
      <4> QED BY <1>6, <2>2, <4>1
    <3>2. cut(s, Len(Code)) = Cut(t, s, Len(Code))
      BY <1>10, <1>11, <3>1
    <3> QED BY <3>2, PartIntact DEF CodeAt
  <2> QED BY <2>3, <2>4 DEF Hits, Fresh
<1> HIDE DEF hits, hi
\* What is pending, old and new.
<1>13. all = {Unread(s) : s \in Early(stream) \cup N}
              \cup {Begun(stream, s) : s \in Open(stream)}
  BY <1>6, <1>12 DEF Waiting, Unread
<1>14. \A s \in Early(stream) \cup N \cup Open(stream) : s \in Nat /\ b <= s
  <2>1. \A s \in Early(stream) \cup N \cup Open(stream) : s \in Nat
    BY DEF Early, Open, Good, Hits, Fresh
  <2>2. \A s \in Early(stream) : Unread(s) \in rx.pending /\ Unread(s).start = s
    BY <1>6 DEF Waiting, Unread
  <2>3. \A s \in Open(stream) : Begun(stream, s) \in rx.pending /\ Begun(stream, s).start = s
    BY <1>6 DEF Waiting, Begun
  <2>4. \A s \in N : b <= s
    <3>1. \A s \in N : s >= Searched(stream)
      BY <1>3, <1>11 DEF Searched, Fresh, Hits
    <3>2. Searched(stream) \in Nat
      BY <1>3, <1>11 DEF Searched
    <3>3. \A x, y, z \in Nat : x <= y /\ z >= y => x <= z
      OBVIOUS
    <3> QED BY <1>6, <2>1, <3>1, <3>2, <3>3
  <2> QED BY <1>6, <2>1, <2>2, <2>3, <2>4
<1>15. /\ Early(t) = {s \in Early(stream) \cup N : s + Header > Len(t)}
       /\ Good(t) \ Full(stream) =
             Open(stream) \cup {s \in (Early(stream) \cup N) \ Early(t) : Plausible(t, s)}
       /\ Full(stream) \subseteq Full(t)
       /\ \A s \in Good(stream) : LengthAt(t, s) = LengthAt(stream, s)
       /\ \A s \in Full(stream) : DataAt(t, s) = DataAt(stream, s)
  <2>1. MovesOn(stream, stream \o r)
    BY <1>2, <1>4, Progress
  <2>2. MovesOn(stream, t)
    BY <2>1 DEF t
  <2> HIDE DEF N
  <2> QED BY <2>2 DEF MovesOn, N
<1>16. \A s \in Open(stream) : /\ Begun(stream, s) = Begun(t, s)
                               /\ Begun(t, s).length # None
  <2>1. \A s \in Open(stream) : /\ LengthAt(t, s) = LengthAt(stream, s)
                                /\ LengthAt(t, s) # None
    BY <1>15, Sizes DEF Open, Good, Plausible
  <2> QED BY <2>1 DEF Begun
<1> HIDE DEF N, all
<1>17. early = {Unread(s) : s \in Early(t)}
  <2>1. \A p \in all : p.length = None <=> \E s \in Early(stream) \cup N : p = Unread(s)
    BY <1>13, <1>16 DEF Unread
  <2>2. \A s : Unread(s) \in all <=> s \in Early(stream) \cup N
    BY <1>13, <1>16, <2>1 DEF Unread
  <2> QED BY <1>9, <1>15, <2>1, <2>2 DEF Unread
<1>18. known = {Begun(t, s) : s \in Good(t) \ Full(stream)}
  <2> DEFINE A == (Early(stream) \cup N) \ Early(t)
             read == {p \in all \ early : /\ p.length = None /\ len0(p) = len1(p)
                                          /\ len0(p) \in MinLen..MaxLen}
  <2>1. {p \in all : p.length # None} = {Begun(t, s) : s \in Open(stream)}
    <3>1. \A s : Unread(s).length = None
      BY DEF Unread
    <3> QED BY <1>13, <1>16, <3>1
  <2>2. ASSUME NEW s \in A
        PROVE  /\ len0(Unread(s)) = LengthAt(t, s)
               /\ len1(Unread(s)) = FieldAt(t, s + Len(Code) + LenBits)
               /\ Unread(s).start = s /\ Unread(s).length = None
    <3>1. /\ s \in Nat /\ b <= s /\ s + Header <= Len(t)
      BY <1>5, <1>11, <1>14, <1>15
    <3>2. /\ s + Len(Code) \in Nat /\ b <= s + Len(Code)
          /\ s + Len(Code) + LenBits \in Nat /\ b <= s + Len(Code) + LenBits
          /\ s + Len(Code) + LenBits <= Len(t)
          /\ s + Len(Code) + LenBits + LenBits <= Len(t)
      BY <1>5, <1>6, <1>11, <3>1
    <3>3. cut(s + Len(Code), LenBits) = Cut(t, s + Len(Code), LenBits)
      BY <1>10, <1>11, <3>2
    <3>4. cut(s + Len(Code) + LenBits, LenBits) = Cut(t, s + Len(Code) + LenBits, LenBits)
      BY <1>10, <1>11, <3>2
    <3>5. Unread(s).start = s /\ Unread(s).length = None
      BY DEF Unread
    <3> QED BY <3>3, <3>4, <3>5 DEF LengthAt, FieldAt
  <2>3. {p \in all \ early : p.length = None} = {Unread(s) : s \in A}
    <3>1. \A s : Unread(s).start = s /\ Unread(s).length = None
      BY DEF Unread
    <3>2. \A s \in Open(stream) : Begun(stream, s).length # None
      BY <1>16
    <3> HIDE DEF early
    <3> QED BY <1>13, <1>17, <3>1, <3>2
  <2>4. read = {Unread(s) : s \in {s \in A : Plausible(t, s)}}
    <3>1. \A s \in A : Plausible(t, s) <=>
            /\ len0(Unread(s)) = len1(Unread(s))
            /\ len0(Unread(s)) \in MinLen..MaxLen
      BY <2>2 DEF Plausible, LengthAt
    <3> HIDE DEF len0, len1, early, A
    <3> QED BY <2>3, <3>1
  <2>5. {[start |-> p.start, length |-> len0(p)] : p \in read}
          = {Begun(t, s) : s \in {s \in A : Plausible(t, s)}}
    <3> HIDE DEF len0, len1, read, A
    <3>1. \A s \in A : [start |-> Unread(s).start, length |-> len0(Unread(s))] = Begun(t, s)
      BY <2>2 DEF Begun
    <3> QED BY <2>4, <3>1
  <2> HIDE DEF read, A, len0, len1, early
  <2>6. known = {Begun(t, s) : s \in Open(stream)}
                  \cup {Begun(t, s) : s \in {s \in A : Plausible(t, s)}}
    BY <2>1, <2>5 DEF read
  <2> HIDE DEF known
  <2> QED BY <1>15, <2>6 DEF A
<1> HIDE DEF early, known
\* What is complete now, and what stays pending.
<1>19. \A s : Begun(t, s).start = s /\ Begun(t, s).length = LengthAt(t, s)
  BY DEF Begun
<1>20. \A s : Stop(Begun(t, s)) = EndAt(t, s)
  BY <1>19 DEF Stop, EndAt
<1>21. Full(t) = {s \in Good(t) : EndAt(t, s) <= Len(t)} /\ Full(t) \subseteq Good(t)
  BY DEF Full
<1>22. \A s \in Good(t) : EndAt(t, s) \in Nat /\ s \in Nat
  <2>1. \A s \in Good(t) : LengthAt(t, s) \in MinLen..MaxLen /\ s \in Nat
    BY DEF Good, Plausible, Hits
  <2>2. \A s \in Good(t) : Byte * LengthAt(t, s) \in Nat
    BY <2>1, Sizes
  <2>3. \A x, y, z \in Nat : x + y + z \in Nat
    OBVIOUS
  <2> QED BY <1>11, <2>1, <2>2, <2>3 DEF EndAt
<1>23. done = {Begun(t, s) : s \in F}
  BY <1>9, <1>15, <1>18, <1>20, <1>21
<1>24. known \ done = {Begun(t, s) : s \in Open(t)}
  <2>1. Open(t) = {s \in Good(t) : ~(EndAt(t, s) <= Len(t))}
    BY <1>5, <1>22 DEF Open
  <2>2. Full(stream) \cap Open(t) = {}
    BY <1>15, <1>21, <2>1
  <2> QED BY <1>9, <1>18, <1>20, <2>1, <2>2
<1> HIDE DEF done
<1>25. keep = Waiting(t)
  BY <1>17, <1>24 DEF Waiting
\* What is returned.
<1>26. {frame(p) : p \in done} = {FrameAt(t, s) : s \in F}
  <2>1. ASSUME NEW s \in F
        PROVE  frame(Begun(t, s)) = FrameAt(t, s)
    <3>1. s \in Good(t) /\ s \notin Full(stream) /\ EndAt(t, s) <= Len(t)
      BY <1>21, <2>1
    <3>2. s \in Open(stream) \cup (Early(stream) \cup N)
      BY <1>15, <3>1
    <3>3. s \in Nat /\ b <= s /\ s + Header \in Nat /\ b <= s + Header
      BY <1>6, <1>11, <1>14, <3>2
    <3>4. Byte * LengthAt(t, s) \in Nat
      BY <3>1, Sizes DEF Good, Plausible
    <3>5. cut(s + Header, Byte * LengthAt(t, s)) = DataAt(t, s)
      BY <1>10, <3>1, <3>3, <3>4 DEF EndAt, DataAt
    <3> QED BY <1>19, <3>5 DEF FrameAt
  <2> HIDE DEF frame, F
  <2> QED BY <1>23, <2>1
<1> HIDE DEF keep, scanned, frame
<1> DEFINE D == {FrameAt(t, s) : s \in F}
           l == ByStart(D)
<1>27. \A s : FrameAt(t, s).at = s
  BY DEF FrameAt
<1>28. IsFiniteSet(D)
  <2>1. IsFiniteSet(0..Len(t))
    BY <1>5, FS_Interval
  <2>2. F \subseteq 0..Len(t)
    BY <1>5, <1>11 DEF Full, Good, Hits
  <2>3. IsFiniteSet(F)
    BY <2>1, <2>2, FS_Subset
  <2> DEFINE g == [s \in F |-> FrameAt(t, s)]
  <2>4. g \in Surjection(F, D)
    <3>1. g \in [F -> D] /\ \A d \in D : \E s \in F : g[s] = d
      BY <1>27
    <3> QED BY <3>1, Fun_IsSurj
  <2> HIDE DEF g, D, F
  <2> QED BY <2>3, <2>4, FS_Surjection
<1>29. /\ \A x \in D : x.at \in Nat
       /\ \A x, y \in D : x.at = y.at => x = y
  BY <1>21, <1>22, <1>27
<1>30. Frames(t) = Frames(stream) \cup D /\ Frames(stream) \cap D = {}
  <2>1. \A s \in Full(stream) : FrameAt(t, s) = FrameAt(stream, s)
    BY <1>15 DEF FrameAt
  <2>2. Frames(stream) = {FrameAt(t, s) : s \in Full(stream)}
    BY <2>1 DEF Frames
  <2>3. Full(t) = Full(stream) \cup F /\ Full(stream) \cap F = {}
    BY <1>15
  <2>4. \A x, y : FrameAt(t, x) = FrameAt(t, y) => x = y
    BY <1>27
  <2> HIDE DEF F
  <2>5. Frames(t) = {FrameAt(t, s) : s \in Full(t)}
    BY DEF Frames
  <2> QED BY <2>2, <2>3, <2>4, <2>5
<1>31. found' = found \o l
  BY <1>1, <1>26
<1> HIDE DEF D
<1>32. Returned'
  <2>1. /\ IsSeq(l) /\ Range(l) = D
        /\ \A i, j \in 1..Len(l) : l[i] = l[j] => i = j
    BY <1>28, <1>29, Listing
  <2> HIDE DEF l
  <2>2. /\ IsSeq(found) /\ Range(found) = Frames(stream)
        /\ \A i, j \in 1..Len(found) : found[i] = found[j] => i = j
    BY DEF Deframed, Returned
  <2>3. /\ IsSeq(found \o l) /\ Range(found \o l) = Range(found) \cup Range(l)
        /\ \A i, j \in 1..Len(found \o l) :
             (found \o l)[i] = (found \o l)[j] => i = j
    BY <1>30, <2>1, <2>2, ListsConcat
  <2>4. Range(found') = Frames(t) /\ stream' = t
    BY <1>1, <1>30, <1>31, <2>1, <2>2, <2>3
  <2>5. IsSeq(found') /\ \A i, j \in 1..Len(found') : found'[i] = found'[j] => i = j
    BY <1>31, <2>3
  <2> QED BY <2>4, <2>5 DEF Returned, IsSeq
\* What the buffer keeps.
<1> DEFINE starts == {p.start : p \in keep}
<1>33. starts \subseteq Nat
  <2>1. \A s \in Early(t) \cup Open(t) : s \in Nat
    BY DEF Early, Open, Good, Hits
  <2>2. \A p \in keep : p.start \in Early(t) \cup Open(t)
    BY <1>19, <1>25 DEF Waiting, Unread
  <2> QED BY <2>1, <2>2
<1>34. scanned = Searched(t) /\ scanned \in Nat /\ b <= scanned
  <2>1. rx.scanned \in Nat
    BY <1>3, <1>6, <1>11 DEF Searched
  <2>2. hi = Len(t) - Len(Code) + 1
    BY <1>9 DEF hi
  <2>3. scanned = IF hi > rx.scanned THEN hi ELSE rx.scanned
    BY DEF scanned
  <2>4. Searched(stream) <= Searched(t)
    BY <1>3, <1>5, <1>11 DEF Searched
  <2> QED BY SMTT(30), <1>3, <1>5, <1>6, <1>11, <2>1, <2>2, <2>3, <2>4 DEF Searched
<1>35. from \in starts \cup {scanned} /\ \A k \in starts \cup {scanned} : from <= k
  <2>1. starts \cup {scanned} \subseteq Nat /\ starts \cup {scanned} # {}
    BY <1>33, <1>34
  <2> DEFINE T == starts \cup {scanned}
  <2>2. from = Min(T) /\ T \subseteq Nat /\ T # {}
    BY <2>1
  <2> HIDE DEF T, from, starts
  <2>3. \E k \in T : \A j \in T : k <= j
    BY <2>2, LeastNumber
  <2>4. from \in T /\ \A k \in T : from <= k
    BY <2>2, <2>3 DEF Min
  <2> QED BY <2>4 DEF T
<1>36. from \in Nat /\ from <= scanned /\ \A p \in keep : from <= p.start /\ p.start \in Nat
  BY <1>33, <1>34, <1>35
<1>37. \A p \in keep : b <= p.start
  <2>1. \A s \in Early(t) \cup Open(t) : b <= s
    <3>1. Open(t) \subseteq Good(t) \ Full(stream)
      <4>1. \A s \in Open(t) : s \notin Full(t)
        BY <1>5, <1>21, <1>22 DEF Open
      <4> QED BY <1>15, <4>1 DEF Open
    <3> QED BY <1>14, <1>15, <3>1
  <2> QED BY <1>19, <1>25, <2>1 DEF Waiting, Unread
<1> HIDE DEF from
<1>38. /\ base \in Nat /\ base >= b /\ base <= scanned /\ base <= Len(t)
       /\ \A p \in keep : base <= p.start
       /\ base \in starts \cup {scanned}
  <2>1. base = IF from > b THEN from ELSE b
    BY DEF b
  <2>2. scanned <= Len(t)
    BY <1>5, <1>11, <1>34 DEF Searched
  <2> HIDE DEF base
  <2>3. \A x, y, z \in Nat : x <= y /\ y <= z => x <= z
    OBVIOUS
  <2>4. b <= from
    <3>1. \A k \in starts \cup {scanned} : b <= k
      BY <1>34, <1>37
    <3> HIDE DEF starts
    <3> QED BY <1>35, <3>1
  <2>5. base = from
    BY <1>6, <1>36, <2>1, <2>4
  <2>6. base \in starts \cup {scanned}
    <3> HIDE DEF starts
    <3> QED BY <1>35, <2>5
  <2> QED BY <1>5, <1>6, <1>34, <1>36, <1>37, <2>1, <2>2, <2>3, <2>6
<1>39. SubSeq(buf, base - rx.base + 1, Len(buf)) = Cut(t, base, Len(t) - base)
  <2> DEFINE k == base - b
             m == Len(t) - b
             j == Len(t) - base
  <2>1. k \in Nat /\ j \in Nat /\ k + j = m /\ b + k = base /\ m \in Nat /\ b + m <= Len(t)
    BY <1>5, <1>6, <1>38
  <2>2. SubSeq(buf, base - rx.base + 1, Len(buf)) = SubSeq(buf, k + 1, m) /\ buf = Cut(t, b, m)
    BY <1>7, <1>9 DEF b
  <2> HIDE DEF k, m, j
  <2>3. Cut(Cut(t, b, m), k, j) = Cut(t, b + k, j)
    <3>1. t \in Seq(S) /\ b \in Nat /\ k + j <= m
      BY <1>5, <1>6, <2>1
    <3> QED BY <2>1, <3>1, CutOfCut
  <2>4. SubSeq(buf, k + 1, m) = Cut(buf, k, j)
    BY <2>1 DEF Cut
  <2> QED BY <2>1, <2>2, <2>3, <2>4 DEF j
<1> HIDE DEF base, buf
<1>40. /\ rx'.buf = Cut(t, base, Len(t) - base) /\ rx'.base = base
       /\ rx'.scanned = scanned /\ rx'.pending = keep /\ stream' = t
  BY <1>1, <1>39
<1>41. Buffer'
  BY <1>4, <1>5, <1>34, <1>38, <1>40 DEF Buffer, IsSeq
<1> QED BY <1>25, <1>32, <1>40, <1>41 DEF Deframed

----------------------------------------------------------------------------
\* The other steps give the deframer nothing.
LEMMA OthersDeframed ==
  ASSUME Deframed, UNCHANGED <<rx, stream, found>>, IsSeq(wire')
  PROVE  Deframed'
<1>1. Buffer'
  BY DEF Deframed, Buffer, IsSeq
<1>2. rx'.pending = Waiting(stream') /\ Returned'
  BY DEF Deframed, Returned, IsSeq
<1> QED BY <1>1, <1>2 DEF Deframed

LEMMA TransmitDeframed ==
  ASSUME Deframed, NEW bad, Transmit(bad)
  PROVE  Deframed'
<1> DEFINE s    == IF enabled THEN Symbols(tx)
                   ELSE [tx |-> tx, out |-> [k \in 1..Pull |-> 0], began |-> {}]
           seen == [k \in 1..Pull |-> Xor(s.out[k], IF k \in bad THEN 1 ELSE 0)]
           more == [k \in 1..Pull |-> Xor(seen[k], IF k = 1 THEN hard ELSE seen[k - 1])]
<1>1. wire' = wire \o more /\ UNCHANGED <<rx, stream, found>>
  BY DEF Transmit
<1>2. Pull \in Nat /\ IsSeq(wire)
  BY FramingAssumption DEF Deframed, Buffer
<1>3. more = [k \in 1..Pull |-> more[k]]
  OBVIOUS
<1> HIDE DEF more
<1>4. more \in [1..Pull -> {more[k] : k \in 1..Pull}]
  BY <1>3
<1>5. more \in Seq({more[k] : k \in 1..Pull})
  BY <1>2, <1>4, SeqDef
<1>6. \A S, T : wire \in Seq(S) /\ more \in Seq(T) => wire \o more \in Seq(S \cup T)
  BY SeqMonotonic, ConcatProperties
<1>7. IsSeq(wire \o more)
  BY <1>2, <1>5, <1>6, SeqOfRange DEF IsSeq
<1> QED BY <1>1, <1>7, OthersDeframed

LEMMA InitDeframed == Init => Deframed
<1> SUFFICES ASSUME Init PROVE Deframed
  OBVIOUS
<1>1. /\ wire = << >> /\ stream = << >> /\ found = << >>
      /\ rx = [buf |-> << >>, base |-> 0, scanned |-> 0, pending |-> {}]
  BY DEF Init
<1>2. IsSeq(<< >>) /\ Range(<< >>) = {} /\ Len(<< >>) = 0
  BY DEF IsSeq, Range
<1>3. Len(Code) \in Nat \ {0}
  BY Sizes
<1>4. Hits(<< >>) = {}
  BY <1>2, <1>3 DEF Hits
<1>5. Waiting(<< >>) = {} /\ Frames(<< >>) = {}
  BY <1>4 DEF Waiting, Frames, Early, Open, Full, Good
<1>6. Cut(<< >>, 0, 0 - 0) = << >> /\ Searched(<< >>) = 0
  BY <1>2, <1>3, SubSeqEmpty DEF Cut, Searched
<1>7. Buffer
  BY <1>1, <1>2, <1>6 DEF Buffer
<1>8. Returned
  <2>1. 1..Len(<< >>) = {}
    BY <1>2
  <2> QED BY <1>1, <1>2, <1>5, <2>1 DEF Returned
<1> QED BY <1>1, <1>5, <1>7, <1>8 DEF Deframed

LEMMA NextDeframed == Deframed /\ [Next]_vars => Deframed'
<1> SUFFICES ASSUME Deframed, [Next]_vars PROVE Deframed'
  OBVIOUS
<1>1. IsSeq(wire)
  BY DEF Deframed, Buffer
<1>2. CASE UNCHANGED vars
  BY <1>1, <1>2, OthersDeframed DEF vars, IsSeq
<1>3. CASE \E x \in Payloads : Push(x)
  BY <1>1, <1>3, OthersDeframed DEF Push, IsSeq
<1>4. CASE Enable \/ Disable
  BY <1>1, <1>4, OthersDeframed DEF Enable, Disable, IsSeq
<1>5. CASE \E bad \in SUBSET Spots : Transmit(bad)
  BY <1>5, TransmitDeframed
<1>6. CASE \E n \in Chunks : Feed(n)
  BY <1>6, FeedDeframes
<1> QED BY <1>2, <1>3, <1>4, <1>5, <1>6 DEF Next

\* The deframer's state is determined by the stream alone.
THEOREM DeframedAlways == Spec => []Deframed
BY InitDeframed, NextDeframed, PTL DEF Spec

\* However the bits are cut into chunks, through the code, the header or the
\* bytes of a frame, and whatever other codes begin inside it, every frame in
\* the stream is returned, once (Deframer.feed).
THEOREM EveryFrameOnce == Spec => []ChunksDoNotMatter
<1>1. Deframed => ChunksDoNotMatter
  <2> SUFFICES ASSUME Deframed PROVE ChunksDoNotMatter
    OBVIOUS
  <2>1. /\ stream \in Seq(Range(stream)) /\ found \in Seq(Range(found))
        /\ Range(found) = Frames(stream)
        /\ \A i, j \in 1..Len(found) : found[i] = found[j] => i = j
    BY DEF Deframed, Buffer, Returned, IsSeq
  <2>2. Range(found) = {found[i] : i \in 1..Len(found)}
    BY <2>1, RangeEquality
  <2>3. Reference = Frames(stream)
    BY <2>1, ReferenceIs
  <2> QED BY <2>1, <2>2, <2>3 DEF ChunksDoNotMatter
<1> QED BY <1>1, DeframedAlways, PTL

----------------------------------------------------------------------------
\* Recursion over the numbers up to a bound.

LEMMA Stepwise ==
  ASSUME NEW K \in Nat, NEW T, 0 \in T, \A i \in 0..(K - 1) : i \in T => i + 1 \in T
  PROVE  0..K \subseteq T
<1> DEFINE U == 0..K \ T
<1> SUFFICES ASSUME U # {} PROVE FALSE
  OBVIOUS
<1>1. PICK k \in U : \A j \in U : k <= j
  <2>1. U \subseteq Nat
    OBVIOUS
  <2> HIDE DEF U
  <2> QED BY <2>1, LeastNumber
<1>2. k \in 0..K /\ k # 0 /\ k \notin T
  OBVIOUS
<1>3. k - 1 \in 0..(K - 1) /\ k - 1 + 1 = k /\ ~(k <= k - 1) /\ k - 1 \in 0..K
  BY <1>2
<1>4. k - 1 \in T
  BY <1>1, <1>3
<1> QED BY <1>2, <1>3, <1>4

\* A function whose values are each computed from the one before.
Iterates(f, K, V, b, next) ==
  /\ f \in [0..K -> V] /\ f[0] = b
  /\ \A i \in 1..K : f[i] = next[i][f[i - 1]]

LEMMA Recursion ==
  ASSUME NEW K \in Nat, NEW V, NEW b \in V, NEW next, next \in [1..K -> [V -> V]]
  PROVE  \E f : Iterates(f, K, V, b, next)
<1> DEFINE Is(f, n) == /\ f \in [0..n -> V] /\ f[0] = b
                       /\ \A i \in 1..n : f[i] = next[i][f[i - 1]]
           T == {n \in 0..K : \E f : Is(f, n)}
<1>1. 0 \in T
  <2> DEFINE f == [i \in 0..0 |-> b]
  <2>1. f \in [0..0 -> V] /\ f[0] = b
    OBVIOUS
  <2>2. \A i \in 1..0 : FALSE
    OBVIOUS
  <2>3. 0 \in 0..K
    OBVIOUS
  <2> HIDE DEF f
  <2>4. Is(f, 0)
    BY <2>1, <2>2
  <2> QED BY <2>3, <2>4
<1>2. ASSUME NEW n \in 0..(K - 1), n \in T
      PROVE  n + 1 \in T
  <2>1. PICK f : Is(f, n)
    BY <1>2
  <2> DEFINE g == [i \in 0..(n + 1) |-> IF i = n + 1 THEN next[n + 1][f[n]] ELSE f[i]]
  <2>2. /\ n + 1 \in 1..K /\ n \in 0..n /\ n \in Nat /\ n + 1 # 0 /\ n + 1 - 1 = n
        /\ n + 1 \in 0..K
    OBVIOUS
  <2>3. next[n + 1][f[n]] \in V
    BY <2>1, <2>2
  <2>4. \A i \in 0..(n + 1) : i # n + 1 => i \in 0..n
    BY <2>2
  <2>5. g \in [0..(n + 1) -> V] /\ \A i \in 0..n : g[i] = f[i]
    BY <2>1, <2>2, <2>3, <2>4
  <2>6. g[n + 1] = next[n + 1][g[n]]
    BY <2>2, <2>5
  <2>7. \A i \in 1..n : g[i] = next[i][g[i - 1]]
    <3>1. \A i \in 1..n : i \in 0..n /\ i - 1 \in 0..n
      BY <2>2
    <3> HIDE DEF g
    <3> QED BY <2>1, <2>5, <3>1
  <2>8. g[0] = b /\ \A i \in 1..(n + 1) : i = n + 1 \/ i \in 1..n
    BY <2>1, <2>2, <2>5
  <2> HIDE DEF g
  <2>9. Is(g, n + 1)
    BY SMTT(30), <2>2, <2>5, <2>6, <2>7, <2>8
  <2> QED BY <2>2, <2>9
<1> HIDE DEF T
<1>3. 0..K \subseteq T
  BY <1>1, <1>2, Stepwise
<1>4. K \in T
  BY <1>3
<1> QED BY <1>4 DEF T, Iterates

\* 2 to the power of k.
LEMMA PowerIs ==
  /\ Power \in [0..LenBits -> Nat \ {0}] /\ Power[0] = 1
  /\ \A k \in 1..LenBits : Power[k] = 2 * Power[k - 1]
<1> DEFINE P(f) == f = [k \in 0..LenBits |-> IF k = 0 THEN 1 ELSE 2 * f[k - 1]]
           next == [k \in 1..LenBits |-> [x \in Nat \ {0} |-> 2 * x]]
<1>1. LenBits \in Nat
  BY Sizes
<1>2. next \in [1..LenBits -> [Nat \ {0} -> Nat \ {0}]]
  OBVIOUS
<1>3. PICK f \in [0..LenBits -> Nat \ {0}] :
        f[0] = 1 /\ \A k \in 1..LenBits : f[k] = next[k][f[k - 1]]
  <2> DEFINE V == Nat \ {0}
             b == 1
  <2>1. b \in V /\ next \in [1..LenBits -> [V -> V]]
    BY <1>2
  <2> HIDE DEF next, V, b
  <2>2. \E f : Iterates(f, LenBits, V, b, next)
    BY <1>1, <2>1, Recursion
  <2> QED BY <2>2 DEF V, b, Iterates
<1>4. \A k \in 0..LenBits : f[k] = IF k = 0 THEN 1 ELSE 2 * f[k - 1]
  <2> SUFFICES ASSUME NEW k \in 0..LenBits, k # 0 PROVE f[k] = 2 * f[k - 1]
    BY <1>3
  <2>1. k \in 1..LenBits /\ k - 1 \in 0..LenBits
    BY <1>1
  <2> QED BY <1>3, <2>1
<1>5. P(f)
  BY <1>3, <1>4
<1>6. Power = CHOOSE g : P(g)
  BY DEF Power
<1>7. P(Power)
  <2> HIDE DEF P
  <2> QED BY <1>5, <1>6
<1>8. DOMAIN Power = 0..LenBits /\ Power[0] = 1
      /\ \A k \in 1..LenBits : Power[k] = 2 * Power[k - 1]
  BY <1>1, <1>7
<1> DEFINE T == {k \in 0..LenBits : Power[k] \in Nat \ {0}}
<1>9. 0 \in T
  BY <1>1, <1>8
<1>10. ASSUME NEW k \in 0..(LenBits - 1), k \in T
       PROVE  k + 1 \in T
  <2>1. k + 1 \in 1..LenBits /\ k + 1 - 1 = k /\ k + 1 \in 0..LenBits
    BY <1>1
  <2>2. Power[k + 1] = 2 * Power[k]
    BY <1>8, <2>1
  <2> QED BY <1>10, <2>1, <2>2
<1> HIDE DEF T
<1>11. 0..LenBits \subseteq T
  BY <1>1, <1>9, <1>10, Stepwise
<1>12. \A k \in 0..LenBits : Power[k] \in Nat \ {0}
  BY <1>11 DEF T
<1>13. Power = [k \in 0..LenBits |-> Power[k]]
  BY <1>7
<1>14. Power \in [0..LenBits -> Nat \ {0}]
  <2> DEFINE g == Power
  <2>1. g = [k \in 0..LenBits |-> g[k]] /\ \A k \in 0..LenBits : g[k] \in Nat \ {0}
    BY <1>12, <1>13
  <2> HIDE DEF g
  <2>2. g \in [0..LenBits -> Nat \ {0}]
    BY <2>1
  <2> QED BY <2>2 DEF g
<1> QED BY <1>8, <1>14

\* A length survives being written and read.
LEMMA NumberOfField ==
  ASSUME NEW n \in Nat, n < Power[LenBits]
  PROVE  /\ Field(n) \in Seq(Bits) /\ Len(Field(n)) = LenBits
         /\ Number(Field(n)) = n
<1> DEFINE f == Field(n)
           v[i \in 0..LenBits] == IF i = 0 THEN 0 ELSE 2 * v[i - 1] + f[i]
           Q(g) == g = [i \in 0..LenBits |-> IF i = 0 THEN 0 ELSE 2 * g[i - 1] + f[i]]
           w == [i \in 0..LenBits |-> n \div Power[LenBits - i]]
<1>1. LenBits \in Nat
  BY Sizes
<1>2. \A i \in 0..LenBits : LenBits - i \in 0..LenBits /\ Power[LenBits - i] \in Nat \ {0}
  BY <1>1, PowerIs
<1>3. \A i \in 1..LenBits : f[i] = (n \div Power[LenBits - i]) % 2
  BY DEF Field
<1>4. f \in Seq(Bits) /\ Len(f) = LenBits
  <2>1. \A i \in 1..LenBits : f[i] \in Bits
    <3>1. \A i \in 1..LenBits : n \div Power[LenBits - i] \in Nat
      <4>1. \A i \in 1..LenBits : i \in 0..LenBits
        BY <1>1
      <4>2. \A a \in Nat, c \in Nat \ {0} : a \div c \in Nat
        OBVIOUS
      <4> QED BY <1>2, <4>1, <4>2
    <3>2. \A a \in Nat : a % 2 \in Bits
      BY DEF Bits
    <3> HIDE DEF f
    <3> QED BY <1>3, <3>1, <3>2
  <2>2. f = [i \in 1..LenBits |-> f[i]]
    BY DEF Field
  <2> HIDE DEF f
  <2>3. f \in [1..LenBits -> Bits]
    BY <2>1, <2>2
  <2> QED BY <1>1, <2>3, SeqDef
<1> HIDE DEF f
<1>5. w[0] = 0
  <2>1. \A a, c \in Nat : a < c => a \div c = 0
    OBVIOUS
  <2>2. Power[LenBits] \in Nat /\ LenBits - 0 = LenBits /\ 0 \in 0..LenBits
    BY <1>1, <1>2, PowerIs
  <2> QED BY <2>1, <2>2
<1>6. ASSUME NEW i \in 1..LenBits
      PROVE  w[i] = 2 * w[i - 1] + f[i]
  <2> DEFINE p == Power[LenBits - i]
  <2>1. /\ i \in 0..LenBits /\ i - 1 \in 0..LenBits /\ LenBits - (i - 1) \in 1..LenBits
        /\ LenBits - (i - 1) - 1 = LenBits - i
    BY <1>1
  <2>2. p \in Nat \ {0} /\ Power[LenBits - (i - 1)] = 2 * p
    BY <1>2, <2>1, PowerIs
  <2>3. w[i] = n \div p /\ w[i - 1] = n \div (2 * p) /\ f[i] = (n \div p) % 2
    BY <1>3, <2>1, <2>2
  <2> HIDE DEF p, w
  <2>4. 2 * (n \div (2 * p)) + ((n \div p) % 2) = n \div p
    BY <2>2
  <2> QED BY <2>3, <2>4
<1>7. Q(w)
  <2>1. \A i \in 0..LenBits : w[i] = IF i = 0 THEN 0 ELSE 2 * w[i - 1] + f[i]
    <3>1. \A i \in 0..LenBits : i = 0 \/ i \in 1..LenBits
      BY <1>1
    <3> HIDE DEF w
    <3> QED BY <1>5, <1>6, <3>1
  <2> QED BY <2>1
<1>8. v = CHOOSE g : Q(g)
  BY DEF v
<1> HIDE DEF v, w
<1>9. Q(v)
  <2> HIDE DEF Q
  <2> QED BY <1>7, <1>8
<1> DEFINE T == {i \in 0..LenBits : v[i] = w[i]}
<1>10. 0 \in T
  BY <1>1, <1>7, <1>9
<1>11. ASSUME NEW i \in 0..(LenBits - 1), i \in T
       PROVE  i + 1 \in T
  <2>1. i + 1 \in 0..LenBits /\ i + 1 # 0 /\ i + 1 - 1 = i
    BY <1>1
  <2>2. ASSUME NEW g, Q(g)
        PROVE  g[i + 1] = 2 * g[i + 1 - 1] + f[i + 1]
    <3> DEFINE r(k) == IF k = 0 THEN 0 ELSE 2 * g[k - 1] + f[k]
    <3>1. g = [k \in 0..LenBits |-> r(k)]
      BY <2>2
    <3> HIDE DEF r
    <3>2. g[i + 1] = r(i + 1)
      BY <2>1, <3>1
    <3> QED BY <2>1, <3>2 DEF r
  <2>3. v[i + 1] = 2 * v[i + 1 - 1] + f[i + 1] /\ w[i + 1] = 2 * w[i + 1 - 1] + f[i + 1]
    <3> HIDE DEF Q
    <3> QED BY <1>7, <1>9, <2>2
  <2>4. v[i] = w[i]
    BY <1>11
  <2> QED BY <2>1, <2>3, <2>4
<1> HIDE DEF T
<1>12. 0..LenBits \subseteq T
  BY <1>1, <1>10, <1>11, Stepwise
<1>13. v[LenBits] = w[LenBits]
  BY <1>1, <1>12 DEF T
<1>14. w[LenBits] = n
  <2>1. LenBits \in 0..LenBits /\ LenBits - LenBits = 0 /\ n \div 1 = n
    BY <1>1
  <2> QED BY <2>1, PowerIs DEF w
<1>15. Number(f) = v[LenBits]
  BY DEF Number, v
<1> QED BY <1>4, <1>13, <1>14, <1>15 DEF f

----------------------------------------------------------------------------
\* What a frame on the air consists of.

Sendable == {x \in Payloads : Bytes(x) \in MinLen..MaxLen}

\* p is the part of q behind position k.
Reads(q, k, p) == \A i \in 1..Len(p) : k + i \in 1..Len(q) /\ q[k + i] = p[i]

LEMMA ReadsLast ==
  ASSUME NEW S, NEW q \in Seq(S), NEW r \in Seq(S)
  PROVE  Reads(q \o r, Len(q), r)
<1> DEFINE t == q \o r
<1>1. /\ t \in Seq(S) /\ Len(t) = Len(q) + Len(r)
      /\ Len(q) \in Nat /\ Len(r) \in Nat
      /\ \A i \in 1..(Len(q) + Len(r)) :
           t[i] = IF i <= Len(q) THEN q[i] ELSE r[i - Len(q)]
  BY ConcatProperties, LenProperties
<1> HIDE DEF t
<1>2. \A i \in 1..Len(r) : /\ Len(q) + i \in 1..(Len(q) + Len(r))
                           /\ ~(Len(q) + i <= Len(q)) /\ Len(q) + i - Len(q) = i
  BY <1>1
<1>3. Reads(t, Len(q), r)
  BY <1>1, <1>2 DEF Reads
<1> QED BY <1>3 DEF t

LEMMA ReadsOn ==
  ASSUME NEW S, NEW q \in Seq(S), NEW r \in Seq(S), NEW k, NEW p, Reads(q, k, p)
  PROVE  Reads(q \o r, k, p)
<1> DEFINE t == q \o r
<1>1. /\ t \in Seq(S) /\ Len(t) = Len(q) + Len(r)
      /\ Len(q) \in Nat /\ Len(r) \in Nat
      /\ \A i \in 1..Len(q) : t[i] = q[i]
  BY ConcatProperties, LenProperties
<1> HIDE DEF t
<1>2. \A i : i \in 1..Len(q) => i \in 1..Len(t)
  BY <1>1
<1>3. Reads(t, k, p)
  BY <1>1, <1>2 DEF Reads
<1> QED BY <1>3 DEF t

\* Constants of the transmitter.
LEMMA SendSizes ==
  /\ Pre \in Seq(Bits) /\ Len(Pre) \in Nat \ {0}
  /\ Post \in Seq(Bits) /\ Len(Post) \in Nat
  /\ Filler \in Seq(Bits) /\ Len(Filler) \in Nat \ {0}
  /\ Pull \in Nat \ {0}
  /\ \A x \in Sendable : /\ x \in Payloads /\ x \in Seq(Bits) /\ x # << >>
                         /\ Len(x) \in Nat /\ Bytes(x) \in MinLen..MaxLen
                         /\ Bytes(x) \in Nat /\ Bytes(x) < Power[LenBits]
                         /\ Byte * Bytes(x) = Len(x)
<1>1. /\ Pre \in Seq(Bits) \ {<< >>} /\ Post \in Seq(Bits)
      /\ Filler \in Seq(Bits) \ {<< >>} /\ Pull \in Nat \ {0}
      /\ Byte \in Nat \ {0} /\ MinLen \in Nat \ {0} /\ MaxLen \in Nat
      /\ LenBits \in Nat /\ MaxLen < Power[LenBits]
      /\ \A x \in Payloads : x \in Seq(Bits) /\ Len(x) % Byte = 0
  BY FramingAssumption
<1>2. \A q \in Seq(Bits) : Len(q) \in Nat /\ (Len(q) = 0 => q = << >>)
  BY EmptySeq, LenProperties
<1>3. Power[LenBits] \in Nat
  BY <1>1, PowerIs
<1>4. ASSUME NEW x \in Sendable
      PROVE  /\ x \in Payloads /\ x \in Seq(Bits) /\ x # << >>
             /\ Len(x) \in Nat /\ Bytes(x) \in MinLen..MaxLen
             /\ Bytes(x) \in Nat /\ Bytes(x) < Power[LenBits]
             /\ Byte * Bytes(x) = Len(x)
  <2>1. /\ x \in Payloads /\ x \in Seq(Bits) /\ Len(x) \in Nat /\ Len(x) % Byte = 0
        /\ Bytes(x) \in MinLen..MaxLen
    BY <1>1, <1>2 DEF Sendable
  <2>2. Bytes(x) \in Nat /\ Bytes(x) # 0 /\ Bytes(x) < Power[LenBits]
    BY <1>1, <1>3, <2>1
  <2>3. \A a \in Nat, b \in Nat \ {0} : a % b = 0 => b * (a \div b) = a
    OBVIOUS
  <2>4. Byte * Bytes(x) = Len(x)
    BY <1>1, <2>1, <2>3 DEF Bytes
  <2>5. x # << >>
    <3>1. \A b \in Nat \ {0} : 0 \div b = 0
      OBVIOUS
    <3>2. Len(<< >>) = 0
      OBVIOUS
    <3> QED BY <1>1, <2>2, <3>1, <3>2 DEF Bytes
  <2> QED BY <2>1, <2>2, <2>4, <2>5
<1> QED BY <1>1, <1>2, <1>4

LEMMA FrameBitsAre ==
  ASSUME NEW x \in Sendable
  PROVE  /\ FrameBits[x] \in Seq(Bits)
         /\ Len(FrameBits[x]) = Len(Pre) + Header + Len(x) + Len(Post)
         /\ Len(FrameBits[x]) \in Nat /\ Len(FrameBits[x]) > 1
         /\ \A i \in 1..Len(FrameBits[x]) : FrameBits[x][i] \in Bits
         /\ Reads(FrameBits[x], Len(Pre), Code)
         /\ Reads(FrameBits[x], Len(Pre) + Len(Code), Field(Bytes(x)))
         /\ Reads(FrameBits[x], Len(Pre) + Len(Code) + LenBits, Field(Bytes(x)))
         /\ Reads(FrameBits[x], Len(Pre) + Header, x)
<1> DEFINE f == Field(Bytes(x))
           a == Pre \o Code
           b == a \o f
           c == b \o f
           d == c \o x
           e == d \o Post
<1>1. /\ Pre \in Seq(Bits) /\ Len(Pre) \in Nat \ {0} /\ Code \in Seq(Bits)
      /\ Len(Code) \in Nat \ {0} /\ LenBits \in Nat
      /\ Post \in Seq(Bits) /\ Len(Post) \in Nat
      /\ x \in Seq(Bits) /\ Len(x) \in Nat /\ x \in Payloads
      /\ f \in Seq(Bits) /\ Len(f) = LenBits
  BY Sizes, SendSizes, NumberOfField
<1>2. FrameBits[x] = e
  BY <1>1 DEF FrameBits
<1> HIDE DEF f
<1>3. /\ a \in Seq(Bits) /\ Len(a) = Len(Pre) + Len(Code) /\ Reads(a, Len(Pre), Code)
  BY <1>1, ConcatProperties, ReadsLast
<1> HIDE DEF a
<1>4. /\ b \in Seq(Bits) /\ Len(b) = Len(Pre) + Len(Code) + LenBits
      /\ Reads(b, Len(a), f) /\ Reads(b, Len(Pre), Code)
  <2>1. b \in Seq(Bits) /\ Len(b) = Len(Pre) + Len(Code) + LenBits
    <3>1. a \in Seq(Bits) /\ f \in Seq(Bits)
      BY <1>1, <1>3
    <3>2. b \in Seq(Bits) /\ Len(b) = Len(a) + Len(f)
      BY <3>1, ConcatProperties
    <3> QED BY <1>1, <1>3, <3>2
  <2>2. Reads(b, Len(a), f)
    BY <1>1, <1>3, ReadsLast
  <2>3. Reads(b, Len(Pre), Code)
    BY <1>1, <1>3, ReadsOn
  <2> QED BY <2>1, <2>2, <2>3
<1> HIDE DEF b
<1>5. /\ c \in Seq(Bits) /\ Len(c) = Len(Pre) + Len(Code) + LenBits + LenBits
      /\ Reads(c, Len(b), f) /\ Reads(c, Len(a), f) /\ Reads(c, Len(Pre), Code)
  <2>1. c \in Seq(Bits) /\ Len(c) = Len(b) + Len(f)
    BY <1>1, <1>4, ConcatProperties
  <2>2. Reads(c, Len(b), f)
    BY <1>1, <1>4, ReadsLast
  <2>3. Reads(c, Len(a), f) /\ Reads(c, Len(Pre), Code)
    BY <1>1, <1>4, ReadsOn
  <2> QED BY <1>1, <1>4, <2>1, <2>2, <2>3
<1> HIDE DEF c
<1>6. /\ d \in Seq(Bits) /\ Len(d) = Len(Pre) + Len(Code) + LenBits + LenBits + Len(x)
      /\ Reads(d, Len(c), x)
      /\ Reads(d, Len(b), f) /\ Reads(d, Len(a), f) /\ Reads(d, Len(Pre), Code)
  BY <1>1, <1>5, ConcatProperties, ReadsLast, ReadsOn
<1> HIDE DEF d
<1>7. /\ e \in Seq(Bits)
      /\ Len(e) = Len(Pre) + Len(Code) + LenBits + LenBits + Len(x) + Len(Post)
      /\ Reads(e, Len(c), x)
      /\ Reads(e, Len(b), f) /\ Reads(e, Len(a), f) /\ Reads(e, Len(Pre), Code)
  <2>1. e \in Seq(Bits) /\ Len(e) = Len(d) + Len(Post)
    BY <1>1, <1>6, ConcatProperties
  <2>2. Reads(e, Len(c), x) /\ Reads(e, Len(b), f)
    BY <1>1, <1>6, ReadsOn
  <2>3. Reads(e, Len(a), f) /\ Reads(e, Len(Pre), Code)
    BY <1>1, <1>6, ReadsOn
  <2> QED BY <1>1, <1>6, <2>1, <2>2, <2>3
<1> HIDE DEF e
<1>8. /\ Len(c) = Len(Pre) + Header
      /\ Len(e) = Len(Pre) + Header + Len(x) + Len(Post)
      /\ Len(e) \in Nat /\ Len(e) > 1
  <2>1. Header = Len(Code) + LenBits + LenBits
    BY Sizes
  <2> QED BY <1>1, <1>5, <1>7, <2>1
<1>9. \A i \in 1..Len(e) : e[i] \in Bits
  BY <1>7, ElementOfSeq
<1> QED BY <1>2, <1>3, <1>4, <1>5, <1>7, <1>8, <1>9 DEF f

----------------------------------------------------------------------------
\* What is counted as queued.

Sums(f, q) == /\ f \in [0..Len(q) -> Nat] /\ f[0] = 0
              /\ \A i \in 1..Len(q) : f[i] = f[i - 1] + Len(FrameBits[q[i]])

LEMMA TotalIs ==
  ASSUME NEW q \in Seq(Sendable)
  PROVE  \E f : Sums(f, q) /\ Total(q) = f[Len(q)]
<1> DEFINE K == Len(q)
           next == [i \in 1..K |-> [x \in Nat |-> x + Len(FrameBits[q[i]])]]
           sum[i \in 0..Len(q)] ==
             IF i = 0 THEN 0 ELSE sum[i - 1] + Len(FrameBits[q[i]])
           P(g) == g = [i \in 0..Len(q) |->
                          IF i = 0 THEN 0 ELSE g[i - 1] + Len(FrameBits[q[i]])]
<1>1. K \in Nat /\ \A i \in 1..K : Len(FrameBits[q[i]]) \in Nat
  BY LenProperties, ElementOfSeq, FrameBitsAre
<1>2. next \in [1..K -> [Nat -> Nat]]
  BY <1>1
<1>3. PICK f : Iterates(f, K, Nat, 0, next)
  <2> DEFINE b == 0
  <2>1. b \in Nat
    OBVIOUS
  <2> HIDE DEF next, b
  <2>2. \E f : Iterates(f, K, Nat, b, next)
    BY <1>1, <1>2, <2>1, Recursion
  <2> QED BY <2>2 DEF b
<1>4. Sums(f, q)
  <2>1. \A i \in 1..K : i - 1 \in 0..K
    BY <1>1
  <2>2. \A i \in 1..K : f[i] = f[i - 1] + Len(FrameBits[q[i]])
    BY <1>3, <2>1 DEF Iterates
  <2> QED BY <1>3, <2>2 DEF Iterates, Sums
<1>5. P(f)
  <2>1. \A i \in 0..K : i = 0 \/ i \in 1..K
    BY <1>1
  <2> QED BY <1>4, <2>1 DEF Sums
<1>6. sum = CHOOSE g : P(g)
  BY DEF sum
<1> HIDE DEF sum
<1>7. P(sum)
  <2> HIDE DEF P
  <2> QED BY <1>5, <1>6
<1>8. Sums(sum, q)
  <2> DEFINE T == {i \in 0..K : sum[i] = f[i]}
  <2>1. DOMAIN sum = 0..K /\ sum[0] = 0
        /\ \A i \in 1..K : sum[i] = sum[i - 1] + Len(FrameBits[q[i]])
    BY <1>1, <1>7
  <2>2. 0 \in T
    BY <1>1, <1>4, <2>1 DEF Sums
  <2>3. ASSUME NEW i \in 0..(K - 1), i \in T
        PROVE  i + 1 \in T
    <3>1. i + 1 \in 1..K /\ i + 1 - 1 = i /\ i + 1 \in 0..K
      BY <1>1
    <3>2. sum[i + 1] = sum[i] + Len(FrameBits[q[i + 1]])
      BY <2>1, <3>1
    <3>3. f[i + 1] = f[i] + Len(FrameBits[q[i + 1]])
      BY <1>4, <3>1 DEF Sums
    <3>4. sum[i] = f[i]
      BY <2>3
    <3> QED BY <3>1, <3>2, <3>3, <3>4
  <2> HIDE DEF T
  <2>4. 0..K \subseteq T
    BY <1>1, <2>2, <2>3, Stepwise
  <2>5. \A i \in 0..K : sum[i] = f[i] /\ f[i] \in Nat
    BY <1>4, <2>4 DEF T, Sums
  <2>6. sum = [i \in 0..K |-> sum[i]]
    BY <1>7
  <2>7. sum \in [0..K -> Nat]
    <3> DEFINE g == sum
    <3>1. g = [i \in 0..K |-> g[i]] /\ \A i \in 0..K : g[i] \in Nat
      BY <2>5, <2>6
    <3> HIDE DEF g
    <3>2. g \in [0..K -> Nat]
      BY <3>1
    <3> QED BY <3>2 DEF g
  <2> QED BY <2>1, <2>7 DEF Sums
<1>9. Total(q) = sum[Len(q)]
  BY DEF Total, sum
<1> QED BY <1>8, <1>9

LEMMA TotalSteps ==
  /\ Total(<< >>) = 0
  /\ \A q \in Seq(Sendable) : Total(q) \in Nat
  /\ \A q \in Seq(Sendable), x \in Sendable :
       Total(Append(q, x)) = Total(q) + Len(FrameBits[x])
  /\ \A q \in Seq(Sendable) :
       q # << >> => Total(q) = Total(Tail(q)) + Len(FrameBits[Head(q)])
<1>1. Total(<< >>) = 0
  <2>1. << >> \in Seq(Sendable) /\ Len(<< >>) = 0
    OBVIOUS
  <2>2. PICK f : Sums(f, << >>) /\ Total(<< >>) = f[Len(<< >>)]
    BY <2>1, TotalIs
  <2> QED BY <2>1, <2>2 DEF Sums
<1>2. \A q \in Seq(Sendable) : Total(q) \in Nat
  <2> SUFFICES ASSUME NEW q \in Seq(Sendable) PROVE Total(q) \in Nat
    OBVIOUS
  <2>1. Len(q) \in Nat
    BY LenProperties
  <2>2. PICK f : Sums(f, q) /\ Total(q) = f[Len(q)]
    BY TotalIs
  <2>3. Len(q) \in 0..Len(q)
    BY <2>1
  <2> QED BY <2>2, <2>3 DEF Sums
<1>3. ASSUME NEW q \in Seq(Sendable), NEW x \in Sendable
      PROVE  Total(Append(q, x)) = Total(q) + Len(FrameBits[x])
  <2> DEFINE t == Append(q, x)
             K == Len(q)
  <2>1. /\ K \in Nat /\ t \in Seq(Sendable) /\ Len(t) = K + 1 /\ t[K + 1] = x
        /\ \A i \in 1..K : t[i] = q[i]
    BY AppendProperties, LenProperties
  <2>2. PICK f : Sums(f, q) /\ Total(q) = f[K]
    BY TotalIs
  <2> HIDE DEF t
  <2>3. PICK g : Sums(g, t) /\ Total(t) = g[K + 1]
    BY <2>1, TotalIs
  <2> DEFINE T == {i \in 0..K : f[i] = g[i]}
  <2>4. 0 \in T
    BY <2>1, <2>2, <2>3 DEF Sums
  <2>5. ASSUME NEW i \in 0..(K - 1), i \in T
        PROVE  i + 1 \in T
    <3>1. /\ i + 1 \in 1..K /\ i + 1 - 1 = i /\ i + 1 \in 0..K /\ i + 1 \in 1..(K + 1)
      BY <2>1
    <3>2. f[i + 1] = f[i] + Len(FrameBits[q[i + 1]])
      BY <2>2, <3>1 DEF Sums
    <3>3. g[i + 1] = g[i] + Len(FrameBits[t[i + 1]])
      BY <2>1, <2>3, <3>1 DEF Sums
    <3>4. f[i] = g[i] /\ t[i + 1] = q[i + 1]
      BY <2>1, <2>5, <3>1
    <3> QED BY <3>1, <3>2, <3>3, <3>4
  <2> HIDE DEF T
  <2>6. 0..K \subseteq T
    BY <2>1, <2>4, <2>5, Stepwise
  <2>7. f[K] = g[K]
    BY <2>1, <2>6 DEF T
  <2>8. g[K + 1] = g[K] + Len(FrameBits[x])
    <3>1. K + 1 \in 1..(K + 1) /\ K + 1 - 1 = K
      BY <2>1
    <3> QED BY <2>1, <2>3, <3>1 DEF Sums
  <2> QED BY <2>2, <2>3, <2>7, <2>8 DEF t
<1>4. ASSUME NEW q \in Seq(Sendable), q # << >>
      PROVE  Total(q) = Total(Tail(q)) + Len(FrameBits[Head(q)])
  <2> DEFINE t == Tail(q)
             K == Len(t)
             c == Len(FrameBits[Head(q)])
  <2>1. /\ K \in Nat /\ t \in Seq(Sendable) /\ Len(q) = K + 1 /\ Head(q) = q[1]
        /\ Head(q) \in Sendable
        /\ \A i \in 1..K : t[i] = q[i + 1]
    <3>1. Len(q) \in Nat /\ Len(q) # 0
      BY <1>4, LenProperties, EmptySeq
    <3>2. t \in Seq(Sendable) /\ Len(t) = Len(q) - 1 /\ Head(q) = q[1]
          /\ \A i \in 1..Len(t) : t[i] = q[i + 1]
      BY <1>4, HeadTailProperties
    <3>3. 1 \in 1..Len(q)
      BY <3>1
    <3>4. q[1] \in Sendable
      BY <3>3, ElementOfSeq
    <3> QED BY <3>1, <3>2, <3>4
  <2>2. c \in Nat
    BY <2>1, FrameBitsAre
  <2> HIDE DEF t
  <2>3. PICK f : Sums(f, t) /\ Total(t) = f[K]
    BY <2>1, TotalIs
  <2>4. PICK g : Sums(g, q) /\ Total(q) = g[K + 1]
    BY <2>1, TotalIs
  <2> DEFINE T == {i \in 0..K : g[i + 1] = f[i] + c}
  <2>5. 0 \in T
    <3>1. 1 \in 1..(K + 1) /\ 1 - 1 = 0 /\ 0 \in 0..K /\ 0 + 1 = 1
      BY <2>1
    <3>2. g[1] = g[0] + c
      BY <2>1, <2>4, <3>1 DEF Sums
    <3>3. g[0] = 0 /\ f[0] = 0
      BY <2>3, <2>4 DEF Sums
    <3> QED BY <2>2, <3>1, <3>2, <3>3
  <2>6. ASSUME NEW i \in 0..(K - 1), i \in T
        PROVE  i + 1 \in T
    <3>1. /\ i + 1 \in 1..K /\ i + 1 - 1 = i /\ i + 1 \in 0..K /\ i \in 0..K
          /\ i + 1 + 1 \in 1..(K + 1) /\ i + 1 + 1 - 1 = i + 1
      BY <2>1
    <3>2. f[i + 1] = f[i] + Len(FrameBits[t[i + 1]])
      BY <2>3, <3>1 DEF Sums
    <3>3. g[i + 1 + 1] = g[i + 1] + Len(FrameBits[q[i + 1 + 1]])
      BY <2>1, <2>4, <3>1 DEF Sums
    <3>4. g[i + 1] = f[i] + c /\ t[i + 1] = q[i + 1 + 1]
      BY <2>1, <2>6, <3>1
    <3>5. f[i] \in Nat /\ f[i + 1] \in Nat
      BY <2>3, <3>1 DEF Sums
    <3>6. Len(FrameBits[t[i + 1]]) \in Nat
      <4>1. t[i + 1] \in Sendable
        BY <2>1, <3>1, ElementOfSeq
      <4> QED BY <4>1, FrameBitsAre
    <3> DEFINE l == Len(FrameBits[t[i + 1]])
    <3>7. f[i + 1] = f[i] + l /\ g[i + 1 + 1] = f[i] + c + l /\ l \in Nat
      BY <3>2, <3>3, <3>4, <3>6
    <3> HIDE DEF l, c
    <3>8. g[i + 1 + 1] = f[i + 1] + c
      BY <2>2, <3>5, <3>7
    <3> QED BY <3>1, <3>8
  <2> HIDE DEF T
  <2>7. 0..K \subseteq T
    BY <2>1, <2>5, <2>6, Stepwise
  <2>8. g[K + 1] = f[K] + c
    BY <2>1, <2>7 DEF T
  <2> QED BY <2>3, <2>4, <2>8 DEF t
<1> QED BY <1>1, <1>2, <1>3, <1>4

----------------------------------------------------------------------------
\* The transmitter, bit by bit.

Ahead(t) == t.queued + IF t.cur = << >> THEN 0 ELSE Len(FrameBits[t.cur]) - t.pos

TxOK(t) ==
  /\ t \in [queue : Seq(Sendable), queued : Nat, cur : Sendable \cup {<< >>}, pos : Nat,
            ppos : 0..(Len(Filler) - 1), state : Bits]
  /\ t.queued = Total(t.queue)
  /\ t.cur # << >> => t.pos \in 1..(Len(FrameBits[t.cur]) - 1)
  /\ Ahead(t) <= MaxBits

\* Which bit of which frame comes next, if there is a frame.
Takes(t) == t.cur = << >> /\ t.queue # << >>
Under(t) == IF Takes(t) THEN Head(t.queue) ELSE t.cur
Turn(t)  == IF Takes(t) THEN 1 ELSE t.pos + 1

Moves(t, u, bit) ==
  IF t.cur = << >> /\ t.queue = << >>
  THEN u.cur = << >>
  ELSE /\ Under(t) \in Sendable /\ Turn(t) \in 1..Len(FrameBits[Under(t)])
       /\ bit = FrameBits[Under(t)][Turn(t)]
       /\ IF Turn(t) = Len(FrameBits[Under(t)])
          THEN u.cur = << >>
          ELSE u.cur = Under(t) /\ u.pos = Turn(t)

After(t, e) == [NextBit(t).tx EXCEPT !.state = e]

LEMMA NextBitMoves ==
  ASSUME NEW t, TxOK(t), NEW e \in Bits
  PROVE  /\ NextBit(t).bit \in Bits /\ TxOK(After(t, e)) /\ After(t, e).state = e
         /\ Moves(t, After(t, e), NextBit(t).bit)
<1> DEFINE x == Head(t.queue)
           v == [t EXCEPT !.cur = x, !.queue = Tail(t.queue), !.pos = 0,
                          !.queued = t.queued - Len(FrameBits[x])]
           u == IF Takes(t) THEN v ELSE t
           n == NextBit(t)
           R == [queue : Seq(Sendable), queued : Nat, cur : Sendable \cup {<< >>},
                 pos : Nat, ppos : 0..(Len(Filler) - 1), state : Bits]
<1>1. t \in R /\ t.queued = Total(t.queue) /\ Ahead(t) <= MaxBits
      /\ (t.cur # << >> => t.pos \in 1..(Len(FrameBits[t.cur]) - 1))
  BY DEF TxOK
<1>2. << >> \notin Sendable /\ Len(Filler) \in Nat \ {0} /\ Filler \in Seq(Bits)
      /\ MaxBits \in Nat
  BY SendSizes, FramingAssumption
<1>3. \A y \in Sendable : /\ Len(FrameBits[y]) \in Nat /\ Len(FrameBits[y]) > 1
                          /\ \A i \in 1..Len(FrameBits[y]) : FrameBits[y][i] \in Bits
  BY FrameBitsAre
\* The frame that is begun, if one is.
<1>4. /\ u \in R /\ u.queued = Total(u.queue) /\ Ahead(u) <= MaxBits
      /\ u.cur # << >> => u.pos \in 0..(Len(FrameBits[u.cur]) - 1)
      /\ u.state = t.state
      /\ (u.cur = << >>) <=> (t.cur = << >> /\ t.queue = << >>)
      /\ u.cur # << >> => u.cur = Under(t) /\ u.pos + 1 = Turn(t)
  <2>1. CASE Takes(t)
    <3>1. t.cur = << >> /\ t.queue # << >> /\ t.queue \in Seq(Sendable)
      BY <1>1, <2>1 DEF Takes
    <3>2. x \in Sendable /\ Tail(t.queue) \in Seq(Sendable)
      <4>1. Len(t.queue) \in Nat /\ Len(t.queue) # 0
        BY <3>1, LenProperties, EmptySeq
      <4>2. x = t.queue[1] /\ Tail(t.queue) \in Seq(Sendable)
        BY <3>1, HeadTailProperties
      <4>3. 1 \in 1..Len(t.queue)
        BY <4>1
      <4> QED BY <3>1, <4>2, <4>3, ElementOfSeq
    <3>3. /\ Total(t.queue) = Total(Tail(t.queue)) + Len(FrameBits[x])
          /\ Total(Tail(t.queue)) \in Nat
      BY <3>1, <3>2, TotalSteps
    <3> DEFINE c == Len(FrameBits[x])
    <3>4. c \in Nat /\ c > 1
      BY <1>3, <3>2
    <3> DEFINE m == t.queued - c
    <3>5. m = Total(Tail(t.queue)) /\ m \in Nat
      BY SMTT(30), <1>1, <3>3, <3>4
    <3>6. /\ v \in R /\ v.queue = Tail(t.queue) /\ v.queued = m /\ v.cur = x /\ v.pos = 0
          /\ v.state = t.state
      <4> HIDE DEF x, m
      <4>1. v = [t EXCEPT !.cur = x, !.queue = Tail(t.queue), !.pos = 0, !.queued = m]
        BY DEF m, x
      <4> HIDE DEF v
      <4> QED BY <1>1, <3>2, <3>5, <4>1
    <3>7. Ahead(t) = t.queued
      <4>1. t.queued \in Nat
        BY <1>1
      <4> QED BY <3>1, <4>1 DEF Ahead
    <3>8. Ahead(v) = m + (c - 0)
      BY <1>2, <3>2, <3>6 DEF Ahead
    <3>9. m + (c - 0) = t.queued
      <4>1. t.queued \in Nat
        BY <1>1
      <4> HIDE DEF c
      <4> QED BY <3>4, <4>1
    <3>10. 0 \in 0..(c - 1) /\ 0 + 1 = 1
      BY <3>4
    <3>11. u = v /\ Under(t) = x /\ Turn(t) = 1
      BY <2>1 DEF Under, Turn
    <3> HIDE DEF u, v, x, m
    <3> QED BY <1>1, <1>2, <3>1, <3>2, <3>5, <3>6, <3>7, <3>8, <3>9, <3>10, <3>11
  <2>2. CASE ~Takes(t)
    <3>1. u = t /\ Under(t) = t.cur /\ Turn(t) = t.pos + 1
      BY <2>2 DEF Under, Turn
    <3>2. t.cur # << >> => t.pos \in 0..(Len(FrameBits[t.cur]) - 1)
      BY <1>1
    <3> HIDE DEF u
    <3> QED BY <1>1, <2>2, <3>1, <3>2 DEF Takes
  <2> QED BY <2>1, <2>2
\* The bit, and what is left.
<1> DEFINE c == Len(FrameBits[u.cur])
           i == u.pos + 1
<1>5. n = IF u.cur = << >>
          THEN [bit |-> Filler[u.ppos + 1],
                tx  |-> [u EXCEPT !.ppos = (u.ppos + 1) % Len(Filler)]]
          ELSE [bit |-> FrameBits[u.cur][i],
                tx  |-> IF i = c THEN [u EXCEPT !.cur = << >>, !.pos = i]
                        ELSE [u EXCEPT !.pos = i]]
  BY DEF NextBit, Takes
<1>6. After(t, e) = [n.tx EXCEPT !.state = e]
  BY DEF After
<1> HIDE DEF u, n
<1>7. CASE u.cur = << >>
  <2> DEFINE k == (u.ppos + 1) % Len(Filler)
             w == [u EXCEPT !.ppos = k, !.state = e]
  <2>1. u.ppos \in 0..(Len(Filler) - 1)
    BY <1>4
  <2>2. k \in 0..(Len(Filler) - 1) /\ u.ppos + 1 \in 1..Len(Filler)
    BY <1>2, <2>1
  <2>3. n.bit = Filler[u.ppos + 1] /\ n.tx = [u EXCEPT !.ppos = k]
    BY <1>5, <1>7
  <2>4. n.bit \in Bits
    BY <1>2, <2>2, <2>3, ElementOfSeq
  <2> HIDE DEF k
  <2>5. After(t, e) = w
    BY <1>4, <1>6, <2>3
  <2>6. /\ w \in R /\ w.queue = u.queue /\ w.queued = u.queued /\ w.cur = u.cur
        /\ w.pos = u.pos /\ w.state = e
    BY <1>4, <2>2
  <2> HIDE DEF w
  <2>7. TxOK(w)
    <3>1. Ahead(w) = Ahead(u)
      BY <1>7, <2>6 DEF Ahead
    <3> QED BY <1>4, <1>7, <2>6, <3>1 DEF TxOK
  <2>8. Moves(t, w, n.bit)
    BY <1>4, <1>7, <2>6 DEF Moves
  <2> QED BY <2>4, <2>5, <2>6, <2>7, <2>8 DEF n
<1>8. CASE u.cur # << >>
  <2>1. u.cur \in Sendable /\ u.pos \in Nat /\ c \in Nat /\ i \in 1..c /\ u.queued \in Nat
        /\ Ahead(u) = u.queued + (c - u.pos)
    <3>1. u.cur \in Sendable /\ u.pos \in Nat /\ u.queued \in Nat
      BY <1>4, <1>8
    <3>2. c \in Nat
      BY <1>3, <3>1
    <3> HIDE DEF c
    <3>3. u.pos \in 0..(c - 1)
      BY <1>4, <1>8 DEF c
    <3>4. i \in 1..c
      BY <3>1, <3>2, <3>3
    <3> QED BY <1>8, <3>1, <3>2, <3>4 DEF Ahead, c
  <2>2. n.bit = FrameBits[u.cur][i] /\ n.bit \in Bits
    BY <1>3, <1>5, <1>8, <2>1
  <2>3. Under(t) = u.cur /\ Turn(t) = i /\ ~(t.cur = << >> /\ t.queue = << >>)
    BY <1>4, <1>8
  <2>4. CASE i = c
    <3> DEFINE w == [u EXCEPT !.cur = << >>, !.pos = i, !.state = e]
    <3>1. n.tx = [u EXCEPT !.cur = << >>, !.pos = i]
      BY <1>5, <1>8, <2>4
    <3> HIDE DEF c
    <3>2. i \in Nat
      BY <2>1
    <3> HIDE DEF i
    <3>3. After(t, e) = w
      BY <1>4, <1>6, <3>1
    <3>4. /\ w \in R /\ w.queue = u.queue /\ w.queued = u.queued /\ w.cur = << >>
          /\ w.pos = i /\ w.state = e
      BY <1>4, <3>2
    <3> HIDE DEF w
    <3>5. Ahead(w) <= MaxBits
      <4>1. Ahead(w) = u.queued
        BY <2>1, <3>4 DEF Ahead
      <4>2. \A a, b, d, g \in Nat : d + 1 \in 1..b /\ g = a + (b - d) /\ g <= MaxBits
                                      => a <= MaxBits
        BY <1>2
      <4>3. Ahead(u) \in Nat /\ u.pos + 1 \in 1..c
        <5>1. \A a, b, d \in Nat : d + 1 \in 1..b => a + (b - d) \in Nat
          OBVIOUS
        <5> QED BY <2>1, <5>1 DEF i
      <4> QED BY <1>4, <2>1, <4>1, <4>2, <4>3
    <3>6. TxOK(w)
      BY <1>4, <3>4, <3>5 DEF TxOK
    <3>7. Moves(t, w, n.bit)
      BY <2>1, <2>2, <2>3, <2>4, <3>4 DEF Moves, c
    <3> QED BY <2>2, <3>3, <3>4, <3>6, <3>7 DEF n
  <2>5. CASE i # c
    <3> DEFINE w == [u EXCEPT !.pos = i, !.state = e]
    <3>1. n.tx = [u EXCEPT !.pos = i]
      BY <1>5, <1>8, <2>5
    <3> HIDE DEF c
    <3>2. i \in Nat /\ i \in 1..(c - 1)
      BY <2>1, <2>5
    <3> HIDE DEF i
    <3>3. After(t, e) = w
      BY <1>4, <1>6, <3>1
    <3>4. /\ w \in R /\ w.queue = u.queue /\ w.queued = u.queued /\ w.cur = u.cur
          /\ w.pos = i /\ w.state = e
      BY <1>4, <3>2
    <3> HIDE DEF w
    <3>5. Ahead(w) <= MaxBits
      <4>1. Ahead(w) = u.queued + (c - i)
        BY <1>8, <2>1, <3>4 DEF Ahead, c
      <4>2. \A a, b, d, g \in Nat : d + 1 \in 1..b /\ g = a + (b - d) /\ g <= MaxBits
                                      => a + (b - (d + 1)) <= MaxBits
        BY <1>2
      <4>3. Ahead(u) \in Nat /\ u.pos + 1 \in 1..c
        <5>1. \A a, b, d \in Nat : d + 1 \in 1..b => a + (b - d) \in Nat
          OBVIOUS
        <5> QED BY <2>1, <5>1 DEF i
      <4>4. Ahead(w) = u.queued + (c - (u.pos + 1))
        BY <4>1 DEF i
      <4> QED BY <1>4, <2>1, <4>2, <4>3, <4>4
    <3>6. TxOK(w)
      BY <1>4, <3>2, <3>4, <3>5 DEF TxOK, c
    <3>7. Moves(t, w, n.bit)
      BY <2>1, <2>2, <2>3, <2>5, <3>4 DEF Moves, c
    <3> QED BY <2>2, <3>3, <3>4, <3>6, <3>7 DEF n
  <2> QED BY <2>4, <2>5
<1> QED BY <1>7, <1>8

----------------------------------------------------------------------------
\* The stream that reaches the receiver.

Flag(F, k) == IF k \in F THEN 1 ELSE 0

\* Whether the bit at position k arrives wrong.
Mark(F, k) == Xor(Flag(F, k), Flag(F, k - 1))

\* The bit of a frame that was sent with j - 1 others before it from position a.
Arrives(q, F, x, a, j) == q[a + j] = Xor(FrameBits[x][j], Mark(F, a + j - 1))

\* t has sent p bits, q has arrived, F are the symbols inverted, S the frames begun,
\* h is the last symbol seen.
OnAir(t, p, q, F, S, h) ==
  /\ t.cur # << >> => h = Xor(t.state, Flag(F, p - 1))
  /\ \A e \in S :
       /\ e.data \in Sendable /\ e.at \in Nat /\ e.at <= p
       /\ p < e.at + Len(FrameBits[e.data]) => t.cur = e.data /\ t.pos = p - e.at
       /\ \A j \in 2..Len(FrameBits[e.data]) :
            e.at + j <= p => Arrives(q, F, e.data, e.at, j)

\* Differential decoding: what came before a bit does not matter.
LEMMA Differential ==
  ASSUME NEW s \in Bits, NEW b \in Bits, NEW f \in Bits, NEW g \in Bits
  PROVE  Xor(Xor(Xor(s, b), f), Xor(s, g)) = Xor(b, Xor(f, g))
<1>1. Xor(0, 0) = 0 /\ Xor(0, 1) = 1 /\ Xor(1, 0) = 1 /\ Xor(1, 1) = 0
  BY DEF Xor
<1> QED BY <1>1 DEF Bits

LEMMA Parity ==
  /\ \A a, b \in Bits : Xor(a, b) \in Bits
  /\ \A F, k : Flag(F, k) \in Bits /\ Mark(F, k) \in Bits
<1>1. Xor(0, 0) = 0 /\ Xor(0, 1) = 1 /\ Xor(1, 0) = 1 /\ Xor(1, 1) = 0
  BY DEF Xor
<1>2. \A a, b \in Bits : Xor(a, b) \in Bits
  BY <1>1 DEF Bits

<1>4. \A F, k : Flag(F, k) \in Bits
  BY DEF Flag, Bits
<1>5. \A F, k : Mark(F, k) \in Bits
  BY <1>2, <1>4 DEF Mark
<1> QED BY <1>2, <1>4, <1>5

\* One more bit.
Begins(t, p, S) ==
  IF Takes(t) THEN S \cup {[at |-> p, data |-> Head(t.queue)]} ELSE S

LEMMA BitOnAir ==
  ASSUME NEW t, TxOK(t), NEW p \in Nat, NEW q, NEW F, NEW S, NEW h \in Bits,
         OnAir(t, p, q, F, S, h), NEW e, e = Xor(t.state, NextBit(t).bit),
         q[p + 1] = Xor(Xor(e, Flag(F, p)), h)
  PROVE  OnAir(After(t, e), p + 1, q, F, Begins(t, p, S), Xor(e, Flag(F, p)))
<1> DEFINE u == After(t, e)
           b == NextBit(t).bit
           x == Under(t)
           i == Turn(t)
<1>1. t.state \in Bits /\ t.cur \in Sendable \cup {<< >>} /\ << >> \notin Sendable
      /\ t.pos \in Nat
  BY SendSizes DEF TxOK
<1>2. b \in Bits /\ e \in Bits
  <2>1. \A y \in Bits : NextBit(t).bit \in Bits
    BY NextBitMoves
  <2>2. 0 \in Bits
    BY DEF Bits
  <2> QED BY <1>1, <2>1, <2>2, Parity
<1>3. TxOK(u) /\ u.state = e /\ Moves(t, u, b)
  BY <1>2, NextBitMoves
<1> HIDE DEF u, b
<1>4. p + 1 - 1 = p /\ p + 1 \in Nat
  OBVIOUS
<1>5. u.cur # << >> => Xor(e, Flag(F, p)) = Xor(u.state, Flag(F, p + 1 - 1))
  BY <1>3, <1>4
<1>6. ASSUME NEW d \in S
      PROVE  /\ d.data \in Sendable /\ d.at \in Nat /\ d.at <= p + 1
             /\ p + 1 < d.at + Len(FrameBits[d.data]) => u.cur = d.data /\ u.pos = p + 1 - d.at
             /\ \A j \in 2..Len(FrameBits[d.data]) :
                  d.at + j <= p + 1 => Arrives(q, F, d.data, d.at, j)
  <2> DEFINE c == Len(FrameBits[d.data])
  <2>1. /\ d.data \in Sendable /\ d.at \in Nat /\ d.at <= p
        /\ p < d.at + c => t.cur = d.data /\ t.pos = p - d.at
        /\ \A j \in 2..c : d.at + j <= p => Arrives(q, F, d.data, d.at, j)
    BY <1>6 DEF OnAir
  <2>2. c \in Nat
    BY <2>1, FrameBitsAre
  <2>3. CASE p < d.at + c
    <3>1. t.cur = d.data /\ t.pos = p - d.at /\ t.cur # << >>
      BY <1>1, <2>1, <2>3
    <3>2. x = d.data /\ i = p - d.at + 1 /\ ~(t.cur = << >> /\ t.queue = << >>)
      BY <3>1 DEF Under, Turn, Takes
    <3>3. /\ i \in 1..c /\ b = FrameBits[d.data][i]
          /\ IF i = c THEN u.cur = << >> ELSE u.cur = d.data /\ u.pos = i
      BY <1>3, <3>2 DEF Moves
    <3> HIDE DEF c, i, x
    <3>4. p + 1 < d.at + c => u.cur = d.data /\ u.pos = p + 1 - d.at
      <4>1. p + 1 < d.at + c => i # c
        BY <2>1, <2>2, <3>2
      <4>2. i = p + 1 - d.at
        BY <2>1, <3>2
      <4> QED BY <3>3, <4>1, <4>2
    <3>5. ASSUME NEW j \in 2..c, d.at + j <= p + 1
          PROVE  Arrives(q, F, d.data, d.at, j)
      <4>1. CASE d.at + j <= p
        BY <2>1, <4>1
      <4>2. CASE ~(d.at + j <= p)
        <5>1. j = i /\ d.at + j = p + 1 /\ d.at + j - 1 = p
          BY SMTT(30), <2>1, <2>2, <3>2, <3>5, <4>2
        <5>2. h = Xor(t.state, Flag(F, p - 1))
          BY <3>1 DEF OnAir
        <5>3. Xor(Xor(e, Flag(F, p)), h) = Xor(b, Mark(F, p))
          <6>1. e = Xor(t.state, b)
            BY DEF b
          <6>2. Flag(F, p) \in Bits /\ Flag(F, p - 1) \in Bits
            BY Parity
          <6> DEFINE f == Flag(F, p)
                     g == Flag(F, p - 1)
          <6>3. /\ t.state \in Bits /\ b \in Bits /\ f \in Bits /\ g \in Bits
                /\ h = Xor(t.state, g) /\ e = Xor(t.state, b) /\ Mark(F, p) = Xor(f, g)
            BY <1>1, <1>2, <5>2, <6>1, <6>2 DEF Mark
          <6> HIDE DEF f, g
          <6>4. Xor(Xor(Xor(t.state, b), f), Xor(t.state, g)) = Xor(b, Xor(f, g))
            BY <6>3, Differential
          <6> QED BY <6>3, <6>4 DEF f
        <5> QED BY <3>3, <5>1, <5>3 DEF Arrives
      <4> QED BY <4>1, <4>2
    <3>6. d.at <= p + 1
      BY <2>1
    <3> QED BY <2>1, <3>4, <3>5, <3>6 DEF c
  <2>4. CASE ~(p < d.at + c)
    <3> HIDE DEF c
    <3>1. ~(p + 1 < d.at + c) /\ d.at <= p + 1
      BY <2>1, <2>2, <2>4
    <3>2. \A j \in 2..c : d.at + j <= p
      BY <2>1, <2>2, <2>4
    <3> QED BY <2>1, <3>1, <3>2 DEF c
  <2> QED BY <2>3, <2>4
<1>7. ASSUME Takes(t), NEW d, d = [at |-> p, data |-> Head(t.queue)]
      PROVE  /\ d.data \in Sendable /\ d.at \in Nat /\ d.at <= p + 1
             /\ p + 1 < d.at + Len(FrameBits[d.data]) => u.cur = d.data /\ u.pos = p + 1 - d.at
             /\ \A j \in 2..Len(FrameBits[d.data]) :
                  d.at + j <= p + 1 => Arrives(q, F, d.data, d.at, j)
  <2> DEFINE c == Len(FrameBits[d.data])
  <2>1. x = d.data /\ d.at = p /\ i = 1 /\ ~(t.cur = << >> /\ t.queue = << >>)
    BY <1>7 DEF Takes, Under, Turn
  <2>2. /\ d.data \in Sendable /\ i \in 1..c
        /\ IF i = c THEN u.cur = << >> ELSE u.cur = d.data /\ u.pos = i
    BY <1>3, <2>1 DEF Moves
  <2>3. c \in Nat
    BY <2>2, FrameBitsAre
  <2> HIDE DEF c, i, x
  <2>4. p + 1 < d.at + c => u.cur = d.data /\ u.pos = p + 1 - d.at
    <3>1. p + 1 < d.at + c => i # c
      BY <2>1, <2>3
    <3>2. p + 1 - d.at = 1
      BY <2>1
    <3> QED BY <2>1, <2>2, <3>1, <3>2
  <2>5. \A j \in 2..c : ~(d.at + j <= p + 1) /\ d.at <= p + 1
    BY <2>1
  <2>6. d.at <= p + 1 /\ d.at \in Nat
    BY <2>1
  <2> QED BY <2>2, <2>4, <2>5, <2>6 DEF c
<1>8. \A d \in Begins(t, p, S) :
        \/ d \in S
        \/ Takes(t) /\ d = [at |-> p, data |-> Head(t.queue)]
  BY DEF Begins
<1>9. OnAir(u, p + 1, q, F, Begins(t, p, S), Xor(e, Flag(F, p)))
  BY <1>5, <1>6, <1>7, <1>8 DEF OnAir
<1> QED BY <1>9 DEF u

----------------------------------------------------------------------------
\* The symbols of one request of the radio.

\* The next symbol after those of p.
Symbol(p, k) ==
  [tx    |-> After(p.tx, Xor(p.tx.state, NextBit(p.tx).bit)),
   out   |-> Append(p.out, Xor(p.tx.state, NextBit(p.tx).bit)),
   began |-> Begins(p.tx, Position + k - 1, p.began)]

Batch(s, t) ==
  /\ s[0] = [tx |-> t, out |-> << >>, began |-> {}]
  /\ \A k \in 1..Pull : s[k] = Symbol(s[k - 1], k)

LEMMA SymbolsBatch ==
  ASSUME NEW t
  PROVE  \E s : Batch(s, t) /\ Symbols(t) = s[Pull]
<1> DEFINE b == [tx |-> t, out |-> << >>, began |-> {}]
           s[k \in 0..Pull] ==
             IF k = 0 THEN [tx |-> t, out |-> << >>, began |-> {}]
             ELSE LET p == s[k - 1]
                      n == NextBit(p.tx)
                      e == Xor(p.tx.state, n.bit)
                  IN  [tx |-> [n.tx EXCEPT !.state = e], out |-> Append(p.out, e),
                       began |-> IF p.tx.cur = << >> /\ p.tx.queue # << >>
                                 THEN p.began \cup {[at |-> Position + k - 1,
                                                     data |-> Head(p.tx.queue)]}
                                 ELSE p.began]
           P(g) == g = [k \in 0..Pull |->
             IF k = 0 THEN [tx |-> t, out |-> << >>, began |-> {}]
             ELSE LET p == g[k - 1]
                      n == NextBit(p.tx)
                      e == Xor(p.tx.state, n.bit)
                  IN  [tx |-> [n.tx EXCEPT !.state = e], out |-> Append(p.out, e),
                       began |-> IF p.tx.cur = << >> /\ p.tx.queue # << >>
                                 THEN p.began \cup {[at |-> Position + k - 1,
                                                     data |-> Head(p.tx.queue)]}
                                 ELSE p.began]]
           Is(g, m) == g = [k \in 0..m |-> IF k = 0 THEN b ELSE Symbol(g[k - 1], k)]
<1>1. Pull \in Nat
  BY SendSizes
<1>2. \A g : Is(g, Pull) <=> P(g)
  BY DEF Symbol, Begins, Takes, After
<1>3. s = CHOOSE g : P(g)
  BY DEF s
<1>4. Symbols(t) = s[Pull]
  BY DEF Symbols, s
<1> HIDE DEF s, P, b
<1> DEFINE T == {m \in 0..Pull : \E g : Is(g, m)}
<1>5. 0 \in T
  <2> DEFINE g == [k \in 0..0 |-> b]
  <2>1. Is(g, 0)
    OBVIOUS
  <2>2. 0 \in 0..Pull
    BY <1>1
  <2> HIDE DEF Is, g
  <2> QED BY <2>1, <2>2
<1>6. ASSUME NEW m \in 0..(Pull - 1), m \in T
      PROVE  m + 1 \in T
  <2>1. PICK f : Is(f, m)
    BY <1>6
  <2> DEFINE v(k) == IF k = m + 1 THEN Symbol(f[m], m + 1) ELSE f[k]
             g == [k \in 0..(m + 1) |-> v(k)]
             r(k) == IF k = 0 THEN b ELSE Symbol(f[k - 1], k)
             z(k) == IF k = 0 THEN b ELSE Symbol(g[k - 1], k)
  <2>2. /\ m \in Nat /\ m + 1 \in 0..Pull /\ m + 1 # 0 /\ m + 1 - 1 = m /\ m # m + 1
        /\ \A k \in 0..(m + 1) : k = m + 1 \/ (k \in 0..m /\ k # m + 1)
        /\ \A k \in 0..m : k \in 0..(m + 1) /\ k # m + 1
        /\ \A k \in 0..m : k = 0 \/ (k - 1 \in 0..m)
        /\ m \in 0..m
    BY <1>1
  <2>3. f = [k \in 0..m |-> r(k)]
    BY <2>1
  <2> HIDE DEF r
  <2>4. \A k \in 0..m : f[k] = r(k)
    BY <2>3
  <2>5. \A k \in 0..m : g[k] = f[k]
    BY <2>2
  <2>6. \A k \in 0..(m + 1) : v(k) = z(k)
    <3> SUFFICES ASSUME NEW k \in 0..(m + 1) PROVE v(k) = z(k)
      OBVIOUS
    <3> HIDE DEF g
    <3>1. CASE k = m + 1
      BY <2>2, <2>5, <3>1
    <3>2. CASE k \in 0..m /\ k # m + 1
      <4>1. v(k) = r(k)
        BY <2>4, <3>2
      <4>2. k # 0 => g[k - 1] = f[k - 1]
        BY <2>2, <2>5, <3>2
      <4> QED BY <4>1, <4>2 DEF r
    <3> QED BY <2>2, <3>1, <3>2
  <2> HIDE DEF v
  <2>7. g = [k \in 0..(m + 1) |-> z(k)]
    <3> HIDE DEF z
    <3> QED BY <2>6
  <2>8. Is(g, m + 1)
    BY <2>7
  <2> HIDE DEF Is, g
  <2> QED BY <2>2, <2>8
<1> HIDE DEF T
<1>7. 0..Pull \subseteq T
  BY <1>1, <1>5, <1>6, Stepwise
<1>8. \E g : P(g)
  <2>1. Pull \in T
    BY <1>1, <1>7
  <2> HIDE DEF Is
  <2> QED BY <1>2, <2>1 DEF T
<1>9. Is(s, Pull)
  <2> HIDE DEF Is
  <2> QED BY <1>2, <1>3, <1>8
<1>10. Batch(s, t)
  <2> DEFINE r(k) == IF k = 0 THEN b ELSE Symbol(s[k - 1], k)
  <2>1. s = [k \in 0..Pull |-> r(k)]
    BY <1>9
  <2> HIDE DEF r
  <2>2. \A k \in 0..Pull : s[k] = r(k)
    BY <2>1
  <2>3. 0 \in 0..Pull /\ \A k \in 1..Pull : k \in 0..Pull /\ k # 0
    BY <1>1
  <2> QED BY <2>2, <2>3 DEF r, b, Batch
<1> QED BY <1>4, <1>10

----------------------------------------------------------------------------
(***************************************************************************)
(* The second invariant.  Of every frame begun, the bits that have arrived *)
(* are those of the frame, turned over where the channel inverted one of   *)
(* two neighbouring symbols and not the other; a frame that is not out yet *)
(* is the one the transmitter is at.                                       *)
(***************************************************************************)
Sending ==
  /\ TxOK(tx) /\ hard \in Bits /\ wire \in Seq(Bits) /\ stream \in Seq(Bits)
  /\ enabled \in BOOLEAN /\ push \in Nat /\ off \in Nat
  /\ ~enabled => tx.cur = << >>
  /\ \A k \in flips : k \in Nat /\ k < Position
  /\ OnAir(tx, Position, stream \o wire, flips, sent, hard)

\* The future, and the queue, do not matter to what has arrived.
LEMMA OnAirStays ==
  ASSUME NEW t, NEW p \in Nat, NEW q, NEW F, NEW S, NEW h, OnAir(t, p, q, F, S, h),
         NEW u, u.cur = t.cur, u.pos = t.pos, u.state = t.state,
         NEW r, \A i \in 1..p : r[i] = q[i],
         NEW G, \A k \in Int : k < p => (k \in F <=> k \in G)
  PROVE  OnAir(u, p, r, G, S, h)
<1>1. p - 1 \in Int /\ p - 1 < p
  OBVIOUS
<1>2. \A k \in Int : k < p => Flag(F, k) = Flag(G, k)
  BY DEF Flag
<1>3. t.cur # << >> => h = Xor(t.state, Flag(F, p - 1))
  BY DEF OnAir
<1>4. u.cur # << >> => h = Xor(u.state, Flag(G, p - 1))
  BY <1>1, <1>2, <1>3
<1>5. ASSUME NEW e \in S
      PROVE  /\ e.data \in Sendable /\ e.at \in Nat /\ e.at <= p
             /\ p < e.at + Len(FrameBits[e.data]) => u.cur = e.data /\ u.pos = p - e.at
             /\ \A j \in 2..Len(FrameBits[e.data]) :
                  e.at + j <= p => Arrives(r, G, e.data, e.at, j)
  <2>1. /\ e.data \in Sendable /\ e.at \in Nat /\ e.at <= p
        /\ p < e.at + Len(FrameBits[e.data]) => t.cur = e.data /\ t.pos = p - e.at
        /\ \A j \in 2..Len(FrameBits[e.data]) :
             e.at + j <= p => Arrives(q, F, e.data, e.at, j)
    BY DEF OnAir
  <2>2. ASSUME NEW j \in 2..Len(FrameBits[e.data]), e.at + j <= p
        PROVE  Arrives(r, G, e.data, e.at, j)
    <3>1. q[e.at + j] = Xor(FrameBits[e.data][j], Mark(F, e.at + j - 1))
      BY <2>1, <2>2 DEF Arrives
    <3>2. /\ e.at + j \in 1..p /\ e.at + j - 1 \in Int /\ e.at + j - 1 < p
          /\ e.at + j - 1 - 1 \in Int /\ e.at + j - 1 - 1 < p
      BY <2>1, <2>2
    <3>3. Mark(F, e.at + j - 1) = Mark(G, e.at + j - 1)
      BY <1>2, <3>2 DEF Mark
    <3>4. r[e.at + j] = q[e.at + j]
      BY <3>2
    <3> QED BY <3>1, <3>3, <3>4 DEF Arrives
  <2> QED BY <2>1, <2>2
<1> QED BY <1>4, <1>5 DEF OnAir

LEMMA InitSending == Init => Sending
<1> SUFFICES ASSUME Init PROVE Sending
  OBVIOUS
<1>1. /\ tx = [queue |-> << >>, queued |-> 0, cur |-> << >>, pos |-> 0, ppos |-> 0,
               state |-> 0]
      /\ enabled = FALSE /\ hard = 0 /\ wire = << >> /\ stream = << >>
      /\ sent = {} /\ flips = {} /\ push = MaxPush /\ off = MaxOff
  BY DEF Init
<1>2. MaxPush \in Nat /\ MaxOff \in Nat /\ MaxBits \in Nat /\ Len(Filler) \in Nat \ {0}
  BY SendSizes, FramingAssumption
<1>3. /\ << >> \in Seq(Sendable) /\ << >> \in Seq(Bits) /\ 0 \in Bits
      /\ 0 \in 0..(Len(Filler) - 1)
  BY <1>2 DEF Bits
<1>4. TxOK(tx)
  BY <1>1, <1>2, <1>3, TotalSteps DEF TxOK, Ahead
<1>5. OnAir(tx, Position, stream \o wire, flips, sent, hard)
  BY <1>1 DEF OnAir
<1> QED BY <1>1, <1>2, <1>3, <1>4, <1>5 DEF Sending

LEMMA PositionIs ==
  ASSUME Sending
  PROVE  /\ Position \in Nat /\ Len(stream) \in Nat /\ Len(wire) \in Nat
         /\ stream \o wire \in Seq(Bits) /\ Len(stream \o wire) = Position
BY LenProperties, ConcatProperties DEF Sending, Position

LEMMA PushSending ==
  ASSUME Sending, NEW x \in Payloads, Push(x)
  PROVE  Sending'
<1>1. /\ push' \in Nat
      /\ UNCHANGED <<enabled, hard, wire, rx, stream, found, sent, flips, off>>
      /\ UNCHANGED Position
  BY DEF Push, Sending, Position
<1>2. /\ TxOK(tx) /\ (~enabled => tx.cur = << >>)
      /\ OnAir(tx, Position, stream \o wire, flips, sent, hard)
  BY DEF Sending
<1> DEFINE c == Len(FrameBits[x])
<1>3. CASE Bytes(x) \in MinLen..MaxLen /\ Backlog + c <= MaxBits
  <2> DEFINE t == [tx EXCEPT !.queue = Append(@, x), !.queued = @ + c]
  <2>1. tx' = t
    BY <1>3 DEF Push
  <2>2. x \in Sendable /\ c \in Nat
    BY <1>3, FrameBitsAre DEF Sendable
  <2>3. /\ tx \in [queue : Seq(Sendable), queued : Nat, cur : Sendable \cup {<< >>}, pos : Nat,
                   ppos : 0..(Len(Filler) - 1), state : Bits]
        /\ tx.queued = Total(tx.queue)
        /\ (tx.cur # << >> => tx.pos \in 1..(Len(FrameBits[tx.cur]) - 1))
    BY <1>2 DEF TxOK
  <2> DEFINE l == Append(tx.queue, x)
             m == tx.queued + c
  <2>4. l \in Seq(Sendable) /\ m = Total(l) /\ m \in Nat
    BY <2>2, <2>3, AppendProperties, TotalSteps
  <2>5. /\ t \in [queue : Seq(Sendable), queued : Nat, cur : Sendable \cup {<< >>}, pos : Nat,
                  ppos : 0..(Len(Filler) - 1), state : Bits]
        /\ t.queue = l /\ t.queued = m /\ t.cur = tx.cur /\ t.pos = tx.pos
        /\ t.state = tx.state
    <3>1. t = [tx EXCEPT !.queue = l, !.queued = m]
      BY <2>3
    <3> HIDE DEF l, m, t
    <3> QED BY <2>3, <2>4, <3>1
  <2> HIDE DEF l, t, m
  <2>6. Ahead(t) <= MaxBits
    <3> DEFINE y == IF tx.cur = << >> THEN 0 ELSE Len(FrameBits[tx.cur]) - tx.pos
    <3>1. Backlog = tx.queued + y /\ Ahead(t) = m + y
      BY <2>5 DEF Backlog, Ahead
    <3>2. y \in Int
      <4>1. tx.cur # << >> => Len(FrameBits[tx.cur]) \in Nat
        BY <2>3, FrameBitsAre
      <4> QED BY <2>3, <4>1
    <3> HIDE DEF y
    <3>3. m + y = tx.queued + y + c
      BY <2>2, <2>3, <3>2 DEF m
    <3> QED BY <1>3, <3>1, <3>3
  <2>7. TxOK(t)
    BY <2>3, <2>4, <2>5, <2>6 DEF TxOK
  <2>8. OnAir(t, Position, stream \o wire, flips, sent, hard)
    BY <1>2, <2>5, PositionIs, OnAirStays
  <2> QED BY <1>1, <1>2, <2>1, <2>5, <2>7, <2>8 DEF Sending
<1>4. CASE ~(Bytes(x) \in MinLen..MaxLen /\ Backlog + c <= MaxBits)
  <2>1. UNCHANGED tx
    BY <1>4 DEF Push
  <2> QED BY <1>1, <1>2, <2>1 DEF Sending
<1> QED BY <1>3, <1>4

LEMMA EnableSending ==
  ASSUME Sending, Enable
  PROVE  Sending'
BY DEF Enable, Sending, Position

LEMMA DisableSending ==
  ASSUME Sending, Disable
  PROVE  Sending'
<1>1. /\ enabled' = FALSE /\ off' \in Nat
      /\ tx' = [tx EXCEPT !.queue = << >>, !.queued = 0, !.cur = << >>, !.pos = 0]
      /\ sent' = {e \in sent : e.at + Len(FrameBits[e.data]) <= Position}
      /\ UNCHANGED <<hard, wire, rx, stream, found, flips, push>> /\ UNCHANGED Position
  BY DEF Disable, Sending, Position
<1>2. /\ TxOK(tx) /\ OnAir(tx, Position, stream \o wire, flips, sent, hard)
  BY DEF Sending
<1> DEFINE t == [tx EXCEPT !.queue = << >>, !.queued = 0, !.cur = << >>, !.pos = 0]
           R == [queue : Seq(Sendable), queued : Nat, cur : Sendable \cup {<< >>}, pos : Nat,
                 ppos : 0..(Len(Filler) - 1), state : Bits]
<1>3. tx \in R /\ << >> \in Seq(Sendable) /\ MaxBits \in Nat
  BY <1>2, FramingAssumption DEF TxOK
<1>4. t \in R /\ t.queue = << >> /\ t.queued = 0 /\ t.cur = << >>
  BY <1>3
<1> HIDE DEF t, R
<1>5. Ahead(t) <= MaxBits
  BY <1>3, <1>4 DEF Ahead
<1>6. TxOK(t)
  BY <1>4, <1>5, TotalSteps DEF TxOK, R
<1>7. OnAir(t, Position, stream \o wire, flips, sent', hard)
  <2>1. ASSUME NEW e \in sent'
        PROVE  /\ e.data \in Sendable /\ e.at \in Nat /\ e.at <= Position
               /\ ~(Position < e.at + Len(FrameBits[e.data]))
               /\ \A j \in 2..Len(FrameBits[e.data]) :
                    e.at + j <= Position =>
                      Arrives(stream \o wire, flips, e.data, e.at, j)
    <3>1. e \in sent /\ e.at + Len(FrameBits[e.data]) <= Position
      BY <1>1, <2>1
    <3>2. /\ e.data \in Sendable /\ e.at \in Nat /\ e.at <= Position
          /\ \A j \in 2..Len(FrameBits[e.data]) :
               e.at + j <= Position => Arrives(stream \o wire, flips, e.data, e.at, j)
      BY <1>2, <3>1 DEF OnAir
    <3>3. Len(FrameBits[e.data]) \in Nat /\ Position \in Nat
      BY <3>2, FrameBitsAre, PositionIs
    <3>4. ~(Position < e.at + Len(FrameBits[e.data]))
      BY <3>1, <3>2, <3>3
    <3> QED BY <3>2, <3>4
  <2> QED BY <1>4, <2>1 DEF OnAir
<1>8. tx' = t
  BY <1>1 DEF t
<1> QED BY <1>1, <1>4, <1>6, <1>7, <1>8 DEF Sending

\* The deframer takes bits, and adds none.
LEMMA FeedSending ==
  ASSUME Sending, NEW n \in Chunks, Feed(n)
  PROVE  Sending'
<1> DEFINE r == SubSeq(wire, 1, n)
           w == SubSeq(wire, n + 1, Len(wire))
           q == stream \o wire
           t == stream \o r
<1>1. /\ n <= Len(wire) /\ wire' = w /\ stream' = t
      /\ UNCHANGED <<tx, enabled, hard, sent, flips, push, off>>
  BY DEF Feed
<1>2. n \in Nat /\ Len(wire) \in Nat /\ Len(stream) \in Nat
      /\ wire \in Seq(Bits) /\ stream \in Seq(Bits)
  BY LenProperties, FramingAssumption DEF Sending
<1>3. \A i \in 1..Len(wire) : wire[i] \in Bits
  BY <1>2, ElementOfSeq
<1>4. r \in Seq(Bits) /\ Len(r) = n /\ \A i \in 1..n : r[i] = wire[i]
  <2>1. \A i \in 1..n : wire[i] \in Bits
    BY <1>1, <1>2, <1>3
  <2>2. /\ SubSeq(wire, 1, n) \in Seq(Bits)
        /\ Len(SubSeq(wire, 1, n)) = IF 1 <= n THEN n - 1 + 1 ELSE 0
        /\ \A i \in 1..(n - 1 + 1) : SubSeq(wire, 1, n)[i] = wire[1 + i - 1]
    BY <1>2, <2>1, SubSeqProperties
  <2>3. n - 1 + 1 = n /\ (~(1 <= n) => n = 0) /\ \A i \in 1..n : 1 + i - 1 = i
    BY <1>2
  <2> QED BY <2>2, <2>3
<1>5. w \in Seq(Bits) /\ Len(w) = Len(wire) - n
      /\ \A i \in 1..(Len(wire) - n) : w[i] = wire[n + i]
  <2> DEFINE m == Len(wire)
  <2>1. \A i \in (n + 1)..m : wire[i] \in Bits
    BY <1>2, <1>3
  <2>2. n + 1 \in Int /\ m \in Int
    BY <1>2
  <2> HIDE DEF m
  <2>3. /\ SubSeq(wire, n + 1, m) \in Seq(Bits)
        /\ Len(SubSeq(wire, n + 1, m)) = IF n + 1 <= m THEN m - (n + 1) + 1 ELSE 0
        /\ \A i \in 1..(m - (n + 1) + 1) : SubSeq(wire, n + 1, m)[i] = wire[n + 1 + i - 1]
    BY <2>1, <2>2, SubSeqProperties
  <2>4. /\ m - (n + 1) + 1 = m - n /\ (~(n + 1 <= m) => m - n = 0)
        /\ \A i \in 1..(m - n) : n + 1 + i - 1 = n + i
    BY <1>1, <1>2 DEF m
  <2> QED BY <2>3, <2>4 DEF m
<1> HIDE DEF r, w
<1>6. /\ t \in Seq(Bits) /\ Len(t) = Len(stream) + n
      /\ \A i \in 1..(Len(stream) + n) :
           t[i] = IF i <= Len(stream) THEN stream[i] ELSE r[i - Len(stream)]
  <2>1. /\ t \in Seq(Bits) /\ Len(t) = Len(stream) + Len(r)
        /\ \A i \in 1..(Len(stream) + Len(r)) :
             t[i] = IF i <= Len(stream) THEN stream[i] ELSE r[i - Len(stream)]
    BY <1>2, <1>4, ConcatProperties
  <2> HIDE DEF t
  <2> QED BY <1>4, <2>1
<1> HIDE DEF t
<1> DEFINE s == t \o w
<1>7. /\ q \in Seq(Bits) /\ Len(q) = Len(stream) + Len(wire)
      /\ \A i \in 1..(Len(stream) + Len(wire)) :
           q[i] = IF i <= Len(stream) THEN stream[i] ELSE wire[i - Len(stream)]
  BY <1>2, ConcatProperties
<1>8. /\ s \in Seq(Bits) /\ Len(s) = Len(t) + Len(w)
      /\ \A i \in 1..(Len(t) + Len(w)) :
           s[i] = IF i <= Len(t) THEN t[i] ELSE w[i - Len(t)]
  BY <1>5, <1>6, ConcatProperties
<1> HIDE DEF q, s
<1>9. Len(s) = Len(q) /\ Len(t) + Len(w) = Len(q) /\ Len(q) \in Nat
  BY <1>1, <1>2, <1>5, <1>6, <1>7, <1>8
<1>10. ASSUME NEW i \in 1..Len(q)
       PROVE  s[i] = q[i]
  <2>1. i \in Nat /\ i > 0 /\ i <= Len(stream) + Len(wire)
    BY <1>7, <1>9
  <2>2. CASE i <= Len(stream)
    <3>1. i <= Len(t) /\ i \in 1..(Len(stream) + n)
      BY <1>2, <1>6, <2>1, <2>2
    <3> QED BY <1>6, <1>7, <1>8, <1>9, <2>2, <3>1
  <2>3. CASE ~(i <= Len(stream)) /\ i <= Len(t)
    <3>1. i - Len(stream) \in 1..n /\ i \in 1..(Len(stream) + n)
      BY <1>2, <1>6, <2>1, <2>3
    <3>2. s[i] = t[i] /\ t[i] = r[i - Len(stream)]
      BY <1>6, <1>8, <1>9, <2>3, <3>1
    <3>3. q[i] = wire[i - Len(stream)]
      BY <1>7, <2>3
    <3> QED BY <1>4, <3>1, <3>2, <3>3
  <2>4. CASE ~(i <= Len(t))
    <3>1. ~(i <= Len(stream)) /\ i - Len(t) \in 1..(Len(wire) - n)
          /\ n + (i - Len(t)) = i - Len(stream)
      BY <1>1, <1>2, <1>6, <2>1, <2>4
    <3>2. s[i] = w[i - Len(t)] /\ q[i] = wire[i - Len(stream)]
      BY <1>7, <1>8, <1>9, <2>4, <3>1
    <3> QED BY <1>5, <3>1, <3>2
  <2> QED BY <2>2, <2>3, <2>4
<1>11. s = q
  BY <1>7, <1>8, <1>9, <1>10, SeqEqual
<1>12. UNCHANGED <<stream \o wire, Position>>
  <2>1. (stream \o wire)' = s
    BY <1>1 DEF s
  <2>2. Position' = Len(t) + Len(w)
    BY <1>1 DEF Position
  <2>3. Position = Len(q)
    BY <1>7 DEF Position
  <2> QED BY <1>9, <1>11, <2>1, <2>2, <2>3 DEF q
<1>13. wire' \in Seq(Bits) /\ stream' \in Seq(Bits)
  BY <1>1, <1>5, <1>6
<1> QED BY <1>1, <1>12, <1>13 DEF Sending

LEMMA TransmitSending ==
  ASSUME Sending, NEW bad, bad \subseteq Spots, Transmit(bad)
  PROVE  Sending'
<1> DEFINE b    == IF enabled THEN Symbols(tx)
                   ELSE [tx |-> tx, out |-> [k \in 1..Pull |-> 0], began |-> {}]
           seen == [k \in 1..Pull |-> Xor(b.out[k], IF k \in bad THEN 1 ELSE 0)]
           more == [k \in 1..Pull |-> Xor(seen[k], IF k = 1 THEN hard ELSE seen[k - 1])]
           P    == Position
           F    == flips \cup {P + k - 1 : k \in bad}
           q    == stream \o wire
           r    == stream \o (wire \o more)
           h(k) == IF k = 0 THEN hard ELSE seen[k]
<1>1. /\ tx' = b.tx /\ sent' = sent \cup b.began /\ flips' = F
      /\ wire' = wire \o more /\ hard' = seen[Pull]
      /\ UNCHANGED <<enabled, rx, stream, found, push, off>>
  BY DEF Transmit
<1>2. /\ Pull \in Nat \ {0} /\ bad \subseteq 1..Pull
      /\ P \in Nat /\ Len(q) = P /\ q \in Seq(Bits)
      /\ Len(stream) \in Nat /\ Len(wire) \in Nat /\ P = Len(stream) + Len(wire)
  BY PositionIs, FramingAssumption DEF Position
<1>3. /\ TxOK(tx) /\ hard \in Bits /\ wire \in Seq(Bits) /\ stream \in Seq(Bits)
      /\ enabled \in BOOLEAN /\ push \in Nat /\ off \in Nat
      /\ (~enabled => tx.cur = << >>)
      /\ \A k \in flips : k \in Nat /\ k < P
      /\ OnAir(tx, P, q, flips, sent, hard)
  BY DEF Sending
\* What is inverted.
<1>4. /\ \A k \in F : k \in Nat /\ k < P + Pull
      /\ \A k \in Int : k < P => (k \in flips <=> k \in F)
      /\ \A k \in 1..Pull : k \in bad <=> P + k - 1 \in F
  <2>1. \A k \in bad : P + k - 1 \in Nat /\ P + k - 1 < P + Pull /\ ~(P + k - 1 < P)
    BY <1>2
  <2>2. \A k \in F : \/ k \in flips /\ k \in Nat /\ k < P
                     \/ \E i \in bad : k = P + i - 1
    BY <1>3
  <2>3. \A k \in Nat : k < P => k < P + Pull
    BY <1>2
  <2>4. \A k \in 1..Pull, i \in 1..Pull : P + k - 1 = P + i - 1 => k = i
    BY <1>2
  <2>5. \A k \in F : k \in Nat /\ k < P + Pull
    BY <2>1, <2>2, <2>3
  <2>6. \A k \in Int : k < P => (k \in flips <=> k \in F)
    BY <2>1, <2>2
  <2>7. ASSUME NEW k \in 1..Pull
        PROVE  k \in bad <=> P + k - 1 \in F
    <3>1. k \in bad => P + k - 1 \in F
      OBVIOUS
    <3>2. ~(P + k - 1 < P)
      BY <1>2
    <3>3. P + k - 1 \in F => \E i \in bad : P + k - 1 = P + i - 1
      BY <2>2, <3>2
    <3> QED BY <1>2, <2>4, <3>1, <3>3
  <2> QED BY <2>5, <2>6, <2>7
<1> HIDE DEF F
\* What the radio is given.
<1>5. ASSUME enabled
      PROVE  \E s : Batch(s, tx) /\ b = s[Pull]
  BY <1>5, SymbolsBatch
<1>6. ASSUME enabled, NEW s, Batch(s, tx), b = s[Pull]
      PROVE  \A k \in 0..Pull : /\ TxOK(s[k].tx) /\ s[k].out \in Seq(Bits)
                                /\ Len(s[k].out) = k
                                /\ \A i \in 1..k : s[k].out[i] = s[i].tx.state
  <2> DEFINE T == {k \in 0..Pull : /\ TxOK(s[k].tx) /\ s[k].out \in Seq(Bits)
                                   /\ Len(s[k].out) = k
                                   /\ \A i \in 1..k : s[k].out[i] = s[i].tx.state}
  <2>1. 0 \in T
    <3>1. s[0].tx = tx /\ s[0].out = << >>
      BY <1>6 DEF Batch
    <3>2. 0 \in 0..Pull /\ << >> \in Seq(Bits) /\ Len(<< >>) = 0 /\ 1..0 = {}
      BY <1>2
    <3> QED BY <1>3, <3>1, <3>2
  <2>2. ASSUME NEW k \in 0..(Pull - 1), k \in T
        PROVE  k + 1 \in T
    <3> DEFINE p == s[k]
               e == Xor(p.tx.state, NextBit(p.tx).bit)
    <3>1. /\ TxOK(p.tx) /\ p.out \in Seq(Bits) /\ Len(p.out) = k
          /\ \A i \in 1..k : p.out[i] = s[i].tx.state
      BY <2>2
    <3>2. k + 1 \in 1..Pull /\ k + 1 - 1 = k /\ k + 1 \in 0..Pull /\ k \in Nat
      BY <1>2
    <3>3. s[k + 1] = Symbol(p, k + 1)
      BY <1>6, <3>2 DEF Batch
    <3>4. s[k + 1].tx = After(p.tx, e) /\ s[k + 1].out = Append(p.out, e)
      BY <3>3 DEF Symbol
    <3> HIDE DEF p
    <3>5. e \in Bits
      <4>1. p.tx.state \in Bits
        BY <3>1 DEF TxOK
      <4>2. NextBit(p.tx).bit \in Bits
        BY <3>1, <4>1, NextBitMoves
      <4> QED BY <4>1, <4>2, Parity
    <3> HIDE DEF e
    <3>6. TxOK(s[k + 1].tx) /\ s[k + 1].tx.state = e
      BY <3>1, <3>4, <3>5, NextBitMoves
    <3> DEFINE o == Append(p.out, e)
    <3>7. /\ o \in Seq(Bits) /\ Len(o) = k + 1 /\ o[k + 1] = e
          /\ \A i \in 1..k : o[i] = p.out[i]
      BY <3>1, <3>5, AppendProperties
    <3> HIDE DEF o
    <3>8. \A i \in 1..(k + 1) : i = k + 1 \/ i \in 1..k
      BY <3>2
    <3>9. \A i \in 1..(k + 1) : o[i] = s[i].tx.state
      BY <3>1, <3>6, <3>7, <3>8
    <3>10. s[k + 1].out = o
      BY <3>4 DEF o
    <3> QED BY <3>2, <3>6, <3>7, <3>9, <3>10
  <2> HIDE DEF T
  <2>3. 0..Pull \subseteq T
    <3>1. Pull \in Nat
      BY <1>2
    <3> QED BY <2>1, <2>2, <3>1, Stepwise
  <2> QED BY <2>3 DEF T
<1> HIDE DEF b
\* Every symbol is a bit, before and after the channel.
<1>7. \A k \in 1..Pull : b.out[k] \in Bits
  <2>1. CASE enabled
    <3>1. PICK s : Batch(s, tx) /\ b = s[Pull]
      BY <1>5, <2>1
    <3>2. Pull \in 0..Pull
      BY <1>2
    <3>3. s[Pull].out \in Seq(Bits) /\ Len(s[Pull].out) = Pull
      BY <1>6, <2>1, <3>1, <3>2
    <3> QED BY <3>1, <3>3, ElementOfSeq
  <2>2. CASE ~enabled
    <3>1. \A k \in 1..Pull : b.out[k] = 0
      BY <2>2 DEF b
    <3> QED BY <3>1 DEF Bits
  <2> QED BY <2>1, <2>2
<1>8. \A k \in 1..Pull : seen[k] = Xor(b.out[k], Flag(F, P + k - 1)) /\ seen[k] \in Bits
  <2>1. \A k \in 1..Pull : seen[k] = Xor(b.out[k], Flag(F, P + k - 1))
    BY <1>4 DEF Flag
  <2> HIDE DEF seen
  <2> QED BY <1>7, <2>1, Parity
<1>9. \A k \in 1..Pull : k = 1 \/ k - 1 \in 1..Pull
  BY <1>2
<1>10. \A k \in 1..Pull : more[k] = Xor(seen[k], h(k - 1)) /\ more[k] \in Bits
  <2>1. \A k \in 1..Pull : k = 1 <=> k - 1 = 0
    BY <1>2
  <2>2. \A k \in 1..Pull : more[k] = Xor(seen[k], h(k - 1))
    <3> HIDE DEF seen
    <3> QED BY <2>1
  <2>3. \A k \in 1..Pull : h(k - 1) \in Bits
    <3> HIDE DEF seen
    <3> QED BY <1>3, <1>8, <1>9
  <2> HIDE DEF more, h, seen
  <2> QED BY <1>8, <2>2, <2>3, Parity
<1>11. more \in Seq(Bits) /\ Len(more) = Pull
  <2>1. more = [k \in 1..Pull |-> more[k]]
    OBVIOUS
  <2> HIDE DEF more
  <2>2. more \in [1..Pull -> Bits]
    BY <1>10, <2>1
  <2> QED BY <1>2, <2>2, SeqDef
<1> HIDE DEF seen, more
\* What arrives.
<1> DEFINE w == wire \o more
<1>12. /\ w \in Seq(Bits) /\ Len(w) = Len(wire) + Pull
       /\ \A i \in 1..(Len(wire) + Pull) :
            w[i] = IF i <= Len(wire) THEN wire[i] ELSE more[i - Len(wire)]
  <2>1. /\ w \in Seq(Bits) /\ Len(w) = Len(wire) + Len(more)
        /\ \A i \in 1..(Len(wire) + Len(more)) :
             w[i] = IF i <= Len(wire) THEN wire[i] ELSE more[i - Len(wire)]
    BY <1>3, <1>11, ConcatProperties
  <2> HIDE DEF w
  <2> QED BY <1>11, <2>1
<1> HIDE DEF w
<1>13. /\ \A i \in 1..P : r[i] = q[i]
       /\ \A k \in 1..Pull : r[P + k] = more[k]
  <2> DEFINE t == stream \o w
  <2>1. t = r
    BY DEF w
  <2>2. /\ \A i \in 1..(Len(stream) + Len(w)) :
             t[i] = IF i <= Len(stream) THEN stream[i] ELSE w[i - Len(stream)]
        /\ \A i \in 1..(Len(stream) + Len(wire)) :
             q[i] = IF i <= Len(stream) THEN stream[i] ELSE wire[i - Len(stream)]
    BY <1>3, <1>12, ConcatProperties
  <2> HIDE DEF t, q, r
  <2>3. ASSUME NEW i \in 1..P
        PROVE  t[i] = q[i]
    <3>1. i \in 1..(Len(stream) + Len(w)) /\ i \in 1..(Len(stream) + Len(wire))
      BY <1>2, <1>12
    <3>2. ~(i <= Len(stream)) => /\ i - Len(stream) \in 1..(Len(wire) + Pull)
                                 /\ i - Len(stream) <= Len(wire)
      BY <1>2
    <3> QED BY <1>12, <2>2, <3>1, <3>2
  <2>4. ASSUME NEW k \in 1..Pull
        PROVE  t[P + k] = more[k]
    <3> DEFINE y == P + k
               z == y - Len(stream)
    <3>1. /\ y \in 1..(Len(stream) + Len(w)) /\ ~(y <= Len(stream))
          /\ z \in 1..(Len(wire) + Pull) /\ ~(z <= Len(wire)) /\ z - Len(wire) = k
      BY <1>2, <1>12
    <3> HIDE DEF z
    <3>2. t[y] = w[z]
      <4> HIDE DEF y
      <4> QED BY <2>2, <3>1 DEF z
    <3>3. w[z] = more[z - Len(wire)]
      BY <1>12, <3>1
    <3> QED BY <3>1, <3>2, <3>3
  <2> QED BY <2>1, <2>3, <2>4
<1>14. Position' = P + Pull /\ (stream \o wire)' = r
  <2>1. Position' = Len(stream) + Len(w)
    BY <1>1 DEF Position, w
  <2>2. Len(stream) + Len(w) = P + Pull
    BY <1>2, <1>12
  <2> QED BY <1>1, <2>1, <2>2
<1> HIDE DEF q, r, P
<1>15. OnAir(tx, P, r, F, sent, hard)
  BY <1>2, <1>3, <1>4, <1>13, OnAirStays
<1>16. TxOK(b.tx) /\ OnAir(b.tx, P + Pull, r, F, sent \cup b.began, h(Pull))
       /\ (~enabled => b.tx.cur = << >>)
  <2>1. CASE enabled
    <3>1. PICK s : Batch(s, tx) /\ b = s[Pull]
      BY <1>5, <2>1
    <3>2. \A k \in 0..Pull : /\ TxOK(s[k].tx)
                             /\ \A i \in 1..k : s[k].out[i] = s[i].tx.state
      BY <1>6, <2>1, <3>1
    <3>3. \A k \in 1..Pull : b.out[k] = s[k].tx.state
      <4>1. Pull \in 0..Pull
        BY <1>2
      <4> QED BY <3>1, <3>2, <4>1
    <3> DEFINE T == {k \in 0..Pull : OnAir(s[k].tx, P + k, r, F, sent \cup s[k].began, h(k))}
    <3>4. 0 \in T
      <4>1. s[0].tx = tx /\ s[0].began = {} /\ P + 0 = P /\ 0 \in 0..Pull
        BY <1>2, <3>1 DEF Batch
      <4>2. sent \cup {} = sent /\ h(0) = hard
        OBVIOUS
      <4> QED BY <1>15, <4>1, <4>2
    <3>5. ASSUME NEW k \in 0..(Pull - 1), k \in T
          PROVE  k + 1 \in T
      <4> DEFINE p == s[k]
                 e == Xor(p.tx.state, NextBit(p.tx).bit)
                 S == sent \cup p.began
      <4>1. /\ k + 1 \in 1..Pull /\ k + 1 - 1 = k /\ k + 1 \in 0..Pull /\ k \in 0..Pull
            /\ P + k \in Nat /\ P + (k + 1) = P + k + 1 /\ P + (k + 1) - 1 = P + k
            /\ (k = 0 \/ k \in 1..Pull) /\ k + 1 # 0
        BY <1>2
      <4>2. s[k + 1] = Symbol(p, k + 1)
        BY <3>1, <4>1 DEF Batch
      <4>3. /\ s[k + 1].tx = After(p.tx, e)
            /\ s[k + 1].began = Begins(p.tx, P + k, p.began)
        <5>1. Position + (k + 1) - 1 = P + k
          BY <4>1 DEF P
        <5> QED BY <4>2, <5>1 DEF Symbol
      <4>4. sent \cup s[k + 1].began = Begins(p.tx, P + k, S)
        BY <4>3 DEF Begins
      <4>5. TxOK(p.tx) /\ OnAir(p.tx, P + k, r, F, S, h(k)) /\ h(k) \in Bits
        BY <1>3, <1>8, <3>2, <3>5, <4>1
      <4> HIDE DEF p, S
      <4>6. s[k + 1].tx.state = e
        <5>1. p.tx.state \in Bits
          BY <4>5 DEF TxOK
        <5>2. e \in Bits
          BY <4>5, <5>1, NextBitMoves, Parity
        <5> HIDE DEF e
        <5> QED BY <4>3, <4>5, <5>2, NextBitMoves
      <4> HIDE DEF e
      <4>7. h(k + 1) = Xor(e, Flag(F, P + k))
        <5>1. h(k + 1) = seen[k + 1]
          BY <4>1
        <5> QED BY <1>8, <3>3, <4>1, <4>6, <5>1
      <4>8. r[P + k + 1] = Xor(Xor(e, Flag(F, P + k)), h(k))
        <5>1. r[P + (k + 1)] = more[k + 1] /\ more[k + 1] = Xor(seen[k + 1], h(k + 1 - 1))
          BY <1>10, <1>13, <4>1
        <5>2. seen[k + 1] = Xor(e, Flag(F, P + k))
          BY <4>1, <4>7
        <5> HIDE DEF h
        <5> QED BY <4>1, <5>1, <5>2
      <4> DEFINE g == h(k)
      <4>9. g \in Bits /\ OnAir(p.tx, P + k, r, F, S, g)
            /\ r[P + k + 1] = Xor(Xor(e, Flag(F, P + k)), g)
        BY <4>5, <4>8
      <4>10. e = Xor(p.tx.state, NextBit(p.tx).bit)
        BY DEF e
      <4> HIDE DEF g, h
      <4>11. OnAir(After(p.tx, e), P + k + 1, r, F, Begins(p.tx, P + k, S), Xor(e, Flag(F, P + k)))
        BY <4>1, <4>5, <4>9, <4>10, BitOnAir
      <4> QED BY <4>1, <4>3, <4>4, <4>7, <4>11
    <3> HIDE DEF T
    <3>6. 0..Pull \subseteq T
      <4>1. Pull \in Nat
        BY <1>2
      <4> QED BY <3>4, <3>5, <4>1, Stepwise
    <3>7. Pull \in T /\ Pull \in 0..Pull
      BY <1>2, <3>6
    <3> QED BY <2>1, <3>1, <3>2, <3>7 DEF T
  <2>2. CASE ~enabled
    <3>1. b.tx = tx /\ b.began = {} /\ tx.cur = << >>
      BY <1>3, <2>2 DEF b
    <3>2. ASSUME NEW e \in sent
          PROVE  /\ e.data \in Sendable /\ e.at \in Nat /\ e.at <= P + Pull
                 /\ ~(P + Pull < e.at + Len(FrameBits[e.data]))
                 /\ \A j \in 2..Len(FrameBits[e.data]) : Arrives(r, F, e.data, e.at, j)
      <4> DEFINE c == Len(FrameBits[e.data])
      <4>1. /\ e.data \in Sendable /\ e.at \in Nat /\ e.at <= P
            /\ P < e.at + c => tx.cur = e.data
            /\ \A j \in 2..c : e.at + j <= P => Arrives(r, F, e.data, e.at, j)
        BY <1>15 DEF OnAir
      <4>2. c \in Nat
        BY <4>1, FrameBitsAre
      <4>3. ~(P < e.at + c)
        BY <3>1, <4>1, SendSizes
      <4> HIDE DEF c
      <4>4. \A j \in 2..c : e.at + j <= P
        BY <1>2, <4>1, <4>2, <4>3
      <4>5. e.at <= P + Pull /\ ~(P + Pull < e.at + c)
        BY <1>2, <4>1, <4>2, <4>3
      <4> QED BY <4>1, <4>4, <4>5 DEF c
    <3>3. sent \cup b.began = sent
      BY <3>1
    <3> QED BY <1>3, <3>1, <3>2, <3>3 DEF OnAir
  <2> QED BY <2>1, <2>2
<1>17. h(Pull) = seen[Pull] /\ Pull \in 1..Pull /\ seen[Pull] \in Bits
  BY <1>2, <1>8
<1>18. OnAir(tx', Position', (stream \o wire)', flips', sent', hard')
  BY <1>1, <1>14, <1>16, <1>17
<1>19. wire' \in Seq(Bits)
  BY <1>1, <1>12 DEF w
<1>20. \A k \in flips' : k \in Nat /\ k < Position'
  BY <1>1, <1>4, <1>14
<1>21. TxOK(tx') /\ (~enabled' => tx'.cur = << >>) /\ hard' \in Bits
  BY <1>1, <1>16, <1>17
<1> QED BY <1>1, <1>3, <1>18, <1>19, <1>20, <1>21 DEF Sending

LEMMA NextSending == Sending /\ [Next]_vars => Sending'
<1> SUFFICES ASSUME Sending, [Next]_vars PROVE Sending'
  OBVIOUS
<1>1. CASE UNCHANGED vars
  BY <1>1 DEF vars, Sending, Position
<1>2. CASE \E x \in Payloads : Push(x)
  BY <1>2, PushSending
<1>3. CASE Enable \/ Disable
  BY <1>3, EnableSending, DisableSending
<1>4. CASE \E bad \in SUBSET Spots : Transmit(bad)
  BY <1>4, TransmitSending
<1>5. CASE \E n \in Chunks : Feed(n)
  BY <1>5, FeedSending
<1> QED BY <1>1, <1>2, <1>3, <1>4, <1>5 DEF Next

\* Of every frame begun, what has arrived is the frame but for the bits that
\* the channel turned over (TxFramer, diff_decode).
THEOREM SendingAlways == Spec => []Sending
BY InitSending, NextSending, PTL DEF Spec

----------------------------------------------------------------------------
\* A part of the bits received.
LEMMA CutOfStream ==
  ASSUME stream \in Seq(Bits), NEW k \in Nat, NEW l \in Nat, k + l <= Len(stream)
  PROVE  \A i \in 1..l : Cut(stream, k, l)[i] = stream[k + i]
BY CutElements

\* A part that reads like p is p.
LEMMA CutReads ==
  ASSUME NEW S, NEW q \in Seq(S), NEW p \in Seq(S), NEW k \in Nat,
         k + Len(p) <= Len(q), Reads(q, k, p)
  PROVE  Cut(q, k, Len(p)) = p
<1> DEFINE l == Len(p)
           c == Cut(q, k, l)
<1>1. l \in Nat
  BY LenProperties
<1>2. c \in Seq(S) /\ Len(c) = l /\ \A i \in 1..l : c[i] = q[k + i]
  BY <1>1, CutElements
<1> HIDE DEF c
<1>3. \A i \in 1..l : c[i] = p[i]
  BY <1>2 DEF Reads
<1>4. c = p
  BY <1>2, <1>3, SeqEqual
<1> QED BY <1>4 DEF c

\* A frame whose header and bytes have arrived as they were sent, and its code
\* nearly so, is one of the frames of the stream.
Wrong(k) == (k \in flips) # (k - 1 \in flips)

Within(s, l) == s + Header + l <= Len(stream)

Untouched(s, l) == \A k \in (s + Len(Code))..(s + Header + l - 1) : ~Wrong(k)

CodeNearly(s) == Cardinality({k \in s..(s + Len(Code) - 1) : Wrong(k)}) <= Threshold

LEMMA GoodFrameIsThere ==
  ASSUME Sending, NEW e \in sent, NEW s, s = e.at + Len(Pre),
         Within(s, Len(e.data)), Untouched(s, Len(e.data)), CodeNearly(s)
  PROVE  [at |-> s, data |-> e.data] \in Frames(stream)
<1> DEFINE x == e.data
           n == Bytes(x)
           f == Field(n)
           B == FrameBits[x]
           a == e.at
           p == Len(Pre)
           l == Len(x)
           C == Len(Code)
           H == Header
           N == Len(stream)
           P == Position
           more == Len(Post)
<1>1. /\ C \in Nat \ {0} /\ LenBits \in Nat /\ H \in Nat /\ H = C + LenBits + LenBits
      /\ \A i \in 1..C : Code[i] \in Bits
  BY Sizes, ElementOfSeq
<1>2. /\ p \in Nat \ {0} /\ stream \in Seq(Bits) /\ N \in Nat /\ P \in Nat /\ N <= P
      /\ \A i \in 1..N : (stream \o wire)[i] = stream[i]
  <2>1. /\ p \in Nat \ {0} /\ stream \in Seq(Bits) /\ wire \in Seq(Bits) /\ N \in Nat
        /\ P \in Nat /\ Len(wire) \in Nat /\ P = N + Len(wire)
    BY SendSizes, PositionIs DEF Sending, Position
  <2>2. \A i \in 1..N : (stream \o wire)[i] = stream[i]
    BY <2>1, ConcatProperties
  <2>3. \A i, j, k \in Nat : i = j + k => j <= i
    OBVIOUS
  <2> HIDE DEF N, P, p
  <2> QED BY <2>1, <2>2, <2>3
<1>3. /\ x \in Sendable /\ a \in Nat
      /\ \A j \in 2..Len(B) :
           a + j <= P => Arrives(stream \o wire, flips, x, a, j)
  BY DEF Sending, OnAir
<1>4. /\ x \in Seq(Bits) /\ l \in Nat
      /\ n \in Nat /\ n < Power[LenBits] /\ n \in MinLen..MaxLen /\ Byte * n = l
  BY <1>3, SendSizes
<1>5. /\ Len(B) = p + H + l + more /\ more \in Nat
      /\ \A i \in 1..Len(B) : B[i] \in Bits
      /\ Reads(B, p, Code) /\ Reads(B, p + C, f)
      /\ Reads(B, p + C + LenBits, f) /\ Reads(B, p + H, x)
  BY <1>3, FrameBitsAre, SendSizes
<1>6. f \in Seq(Bits) /\ Len(f) = LenBits /\ Number(f) = n
  BY <1>4, NumberOfField
<1>7. l \in Nat /\ s = a + p /\ s + H + l <= N
  BY <1>4 DEF Within
<1> HIDE DEF x, n, f, B, a, p, l, C, H, N, P, more
<1>8. s \in Nat
  <2>1. a \in Nat /\ p \in Nat /\ s = a + p
    BY <1>2, <1>3, <1>7
  <2>2. \A u, v \in Nat : u + v \in Nat
    OBVIOUS
  <2> QED BY <2>1, <2>2
<1>9. /\ s \in Nat /\ C \in Nat /\ LenBits \in Nat /\ l \in Nat /\ N \in Nat
       /\ s + C \in Nat /\ s + C <= N
       /\ s + C + LenBits \in Nat /\ s + C + LenBits <= N
       /\ s + C + LenBits + LenBits <= N
  <2>1. /\ s \in Nat /\ C \in Nat /\ LenBits \in Nat /\ l \in Nat /\ N \in Nat
        /\ H = C + LenBits + LenBits /\ s + H + l <= N
    BY <1>1, <1>2, <1>7, <1>8
  <2>2. \A u, v, b, y, t \in Nat : u + (v + b + b) + y <= t =>
           /\ u + v \in Nat /\ u + v <= t
           /\ u + v + b \in Nat /\ u + v + b <= t /\ u + v + b + b <= t
    OBVIOUS
  <2>3. s + (C + LenBits + LenBits) + l <= N
    BY <2>1
  <2> HIDE DEF C, l, N, H
  <2>4. /\ s + C \in Nat /\ s + C <= N
        /\ s + C + LenBits \in Nat /\ s + C + LenBits <= N
        /\ s + C + LenBits + LenBits <= N
    BY <2>1, <2>2, <2>3
  <2> QED BY <2>1, <2>4
<1>10. \A i \in 1..(H + l) : s + i \in 1..N
  <2>1. s \in Nat /\ H \in Nat /\ l \in Nat /\ N \in Nat /\ s + H + l <= N
    BY <1>1, <1>2, <1>7, <1>8
  <2>2. \A u, v, y, t \in Nat : u + v + y <= t => \A i \in 1..(v + y) : u + i \in 1..t
    OBVIOUS
  <2> QED BY <2>1, <2>2
\* What has arrived of the frame.
<1>11. ASSUME NEW i \in 1..(H + l)
      PROVE  /\ s + i \in 1..N /\ p + i \in 1..Len(B)
             /\ stream[s + i] = Xor(B[p + i], Mark(flips, s + i - 1))
  <2> DEFINE j == p + i
             c == Len(B)
  <2>1. s + i \in 1..N
    BY <1>10
  <2>2. j \in 2..c /\ j \in 1..c
    <3>1. c = p + H + l + more
      BY <1>5
    <3> HIDE DEF c
    <3> QED BY <1>1, <1>2, <1>5, <1>7, <3>1
  <2>3. a + j = s + i /\ a + j - 1 = s + i - 1
    BY <1>1, <1>2, <1>3, <1>7
  <2>4. a + j <= P
    BY <1>2, <2>1, <2>3
  <2> HIDE DEF j, c
  <2>5. (stream \o wire)[a + j] = Xor(B[j], Mark(flips, a + j - 1))
    BY <1>3, <2>2, <2>4 DEF Arrives, B, c
  <2>6. stream[s + i] = (stream \o wire)[s + i]
    BY <1>2, <2>1
  <2> DEFINE u == a + j
             v == a + j - 1
  <2>7. (stream \o wire)[u] = Xor(B[j], Mark(flips, v)) /\ u = s + i /\ v = s + i - 1
    BY <2>3, <2>5
  <2> HIDE DEF u, v
  <2>8. stream[s + i] = Xor(B[j], Mark(flips, s + i - 1))
    BY <2>6, <2>7
  <2> QED BY <2>1, <2>2, <2>8 DEF j, c
<1>12. \A k : /\ Wrong(k) => Mark(flips, k) = 1
              /\ ~Wrong(k) => Mark(flips, k) = 0
  <2>1. Xor(0, 0) = 0 /\ Xor(0, 1) = 1 /\ Xor(1, 0) = 1 /\ Xor(1, 1) = 0
    BY DEF Xor
  <2> QED BY <2>1 DEF Mark, Flag, Wrong
<1>13. \A b \in Bits : Xor(b, 0) = b /\ Xor(b, 1) # b
  BY DEF Xor, Bits
<1>14. ASSUME NEW i \in (C + 1)..(H + l)
       PROVE  s + i \in 1..N /\ stream[s + i] = B[p + i]
  <2>1. i \in 1..(H + l)
    BY <1>1, <1>7
  <2>2. s + i - 1 \in (s + C)..(s + H + l - 1)
    BY SMTT(30), <1>1, <1>7, <1>8
  <2>3. Mark(flips, s + i - 1) = 0
    BY <1>12, <2>2 DEF x, l, C, H, Untouched
  <2>4. stream[s + i] = Xor(B[p + i], 0) /\ B[p + i] \in Bits /\ s + i \in 1..N
    BY <1>5, <1>11, <2>1, <2>3
  <2> QED BY <1>13, <2>4
\* The code.
<1>15. CodeAt(stream, s) /\ s + C <= N
  <2> DEFINE c == Cut(stream, s, C)
             E == Errors(c)
             V == {k \in s..(s + C - 1) : Wrong(k)}
             g == [k \in E |-> s + k]
  <2>1. s + C <= N
    BY <1>9
  <2>2. \A i \in 1..C : c[i] = stream[s + i]
    <3>1. stream \in Seq(Bits) /\ s \in Nat /\ C \in Nat /\ s + C <= Len(stream)
      BY <1>2, <1>9 DEF N
    <3> HIDE DEF C
    <3> QED BY <3>1, CutOfStream
  <2>3. \A i \in 1..C : B[p + i] = Code[i] /\ Code[i] \in Bits
    BY <1>1, <1>5 DEF Reads, C
  <2> HIDE DEF c
  <2>4. ASSUME NEW k \in E
        PROVE  k \in Int /\ s + k \in V
    <3>1. k \in 0..(C - 1) /\ c[k + 1] # Code[k + 1]
      BY DEF Errors, C
    <3>2. /\ k \in Int /\ k + 1 \in 1..C /\ k + 1 \in 1..(H + l)
          /\ s + k \in s..(s + C - 1) /\ s + (k + 1) - 1 = s + k
      BY <1>1, <1>7, <1>8, <3>1
    <3>3. stream[s + (k + 1)] = Xor(Code[k + 1], Mark(flips, s + k))
      <4> HIDE DEF C, l, H
      <4>1. stream[s + (k + 1)] = Xor(B[p + (k + 1)], Mark(flips, s + (k + 1) - 1))
        BY <1>11, <3>2
      <4> QED BY <2>3, <3>2, <4>1
    <3>4. Mark(flips, s + k) # 0
      BY <1>13, <2>2, <2>3, <3>1, <3>2, <3>3
    <3>5. Wrong(s + k)
      BY <1>12, <3>4
    <3> QED BY <3>2, <3>5 DEF V
  <2> HIDE DEF E, V
  <2>5. g \in Injection(E, V)
    <3>1. g \in [E -> V]
      BY <2>4
    <3>2. \A y, z \in E : g[y] = g[z] => y = z
      BY <1>8, <2>4
    <3> HIDE DEF g
    <3> QED BY <3>1, <3>2, Fun_IsInj
  <2>6. IsFiniteSet(V)
    <3>1. s \in Int /\ s + C - 1 \in Int
      BY <1>1, <1>8
    <3>2. IsFiniteSet(s..(s + C - 1))
      BY <3>1, FS_Interval
    <3>3. V \subseteq s..(s + C - 1)
      BY DEF V
    <3> QED BY <3>2, <3>3, FS_Subset
  <2> HIDE DEF g
  <2>7. Cardinality(E) <= Cardinality(V) /\ IsFiniteSet(E)
    BY <2>5, <2>6, FS_Injection
  <2>8. Cardinality(E) \in Nat /\ Cardinality(V) \in Nat /\ Threshold \in Nat
    BY <2>6, <2>7, FS_CardinalityType, FramingAssumption
  <2>9. Cardinality(V) <= Threshold
    BY DEF V, C, CodeNearly
  <2>10. Cardinality(E) <= Threshold
    BY <2>7, <2>8, <2>9
  <2> QED BY <2>1, <2>10 DEF E, c, C, CodeAt
\* The header and the bytes.
<1>16. Cut(stream, s + C, LenBits) = f
  <2>1. Reads(stream, s + C, f)
    <3> SUFFICES ASSUME NEW i \in 1..LenBits
                 PROVE  s + C + i \in 1..N /\ stream[s + C + i] = f[i]
      BY <1>6 DEF Reads, N
    <3> DEFINE k == C + i
    <3>1. /\ k \in (C + 1)..(H + l)
          /\ s + k = s + C + i /\ p + k = p + C + i
      BY <1>1, <1>2, <1>7, <1>8
    <3>2. B[p + C + i] = f[i]
      BY <1>5, <1>6 DEF Reads
    <3> HIDE DEF k
    <3> QED BY <1>14, <3>1, <3>2
  <2>2. stream \in Seq(Bits) /\ s + C \in Nat /\ s + C + LenBits <= Len(stream)
    BY <1>2, <1>9 DEF N
  <2> QED BY <1>6, <2>1, <2>2, CutReads
<1>17. Cut(stream, s + C + LenBits, LenBits) = f
  <2>1. Reads(stream, s + C + LenBits, f)
    <3> SUFFICES ASSUME NEW i \in 1..LenBits
                 PROVE  /\ s + C + LenBits + i \in 1..N
                        /\ stream[s + C + LenBits + i] = f[i]
      BY <1>6 DEF Reads, N
    <3> DEFINE k == C + LenBits + i
    <3>1. /\ k \in (C + 1)..(H + l)
          /\ s + k = s + C + LenBits + i /\ p + k = p + C + LenBits + i
      BY SMTT(30), <1>1, <1>2, <1>7, <1>8
    <3>2. B[p + C + LenBits + i] = f[i]
      BY <1>5, <1>6 DEF Reads
    <3> HIDE DEF k
    <3> QED BY <1>14, <3>1, <3>2
  <2>2. /\ stream \in Seq(Bits) /\ s + C + LenBits \in Nat
        /\ s + C + LenBits + LenBits <= Len(stream)
    BY <1>2, <1>9 DEF N
  <2> QED BY <1>6, <2>1, <2>2, CutReads
<1>18. Cut(stream, s + H, l) = x
  <2>1. Reads(stream, s + H, x)
    <3> SUFFICES ASSUME NEW i \in 1..l
                 PROVE  s + H + i \in 1..N /\ stream[s + H + i] = x[i]
      BY DEF Reads, N, l
    <3> DEFINE k == H + i
    <3>1. /\ k \in (C + 1)..(H + l)
          /\ s + k = s + H + i /\ p + k = p + H + i
      <4>1. s \in Nat /\ p \in Nat /\ C \in Nat /\ LenBits \in Nat /\ l \in Nat /\ i \in 1..l
            /\ H = C + LenBits + LenBits
        BY <1>1, <1>2, <1>7, <1>8
      <4> HIDE DEF C, l, H, p
      <4> QED BY <4>1
    <3>2. B[p + H + i] = x[i]
      BY <1>5 DEF Reads, l
    <3> HIDE DEF k
    <3> QED BY <1>14, <3>1, <3>2
  <2>2. s + H \in Nat /\ s + H + l <= N
    BY <1>1, <1>7, <1>8
  <2> QED BY <1>2, <1>4, <2>1, <2>2, CutReads DEF N, l
<1>19. LengthAt(stream, s) = n /\ Plausible(stream, s)
  BY <1>4, <1>6, <1>16, <1>17 DEF LengthAt, Plausible, FieldAt, C
<1>20. DataAt(stream, s) = x /\ EndAt(stream, s) <= N
  BY <1>4, <1>7, <1>18, <1>19 DEF DataAt, EndAt, H
<1>21. s + H <= N
  BY <1>1, <1>2, <1>7, <1>8
<1>22. s \in Full(stream)
  BY <1>8, <1>15, <1>19, <1>20, <1>21 DEF Full, Good, Hits, C, H, N
<1>23. FrameAt(stream, s) = [at |-> s, data |-> e.data]
  BY <1>20 DEF FrameAt, x
<1> QED BY <1>22, <1>23 DEF Frames

\* A frame that went out whole and whose header and bytes no inverted symbol
\* has touched is returned, if the code has few enough errors (TxFramer.push to
\* Deframer.feed).
THEOREM GoodFrameFound == Spec => []GoodFrameIsFound
<1>1. Deframed /\ Sending => GoodFrameIsFound
  <2> SUFFICES ASSUME Deframed, Sending,
                      NEW e \in sent, NEW s, s = e.at + Len(Pre),
                      s + Header + Len(e.data) - 1 < Len(stream),
                      \A k \in (s + Len(Code))..(s + Header + Len(e.data) - 1) :
                        ~((k \in flips) # (k - 1 \in flips)),
                      Cardinality({k \in s..(s + Len(Code) - 1) :
                                     (k \in flips) # (k - 1 \in flips)}) <= Threshold
               PROVE  \E i \in 1..Len(found) : found[i] = [at |-> s, data |-> e.data]
    BY DEF GoodFrameIsFound
  <2>1. /\ s \in Nat /\ Header \in Nat /\ Len(e.data) \in Nat /\ Len(stream) \in Nat
    <3>1. e.at \in Nat /\ e.data \in Sendable
      BY DEF Sending, OnAir
    <3>2. Len(Pre) \in Nat /\ Len(e.data) \in Nat
      BY <3>1, SendSizes
    <3>3. \A a, b \in Nat : a + b \in Nat
      OBVIOUS
    <3>4. s \in Nat
      BY <3>1, <3>2, <3>3
    <3> QED BY <3>2, <3>4, Sizes, PositionIs
  <2>2. Within(s, Len(e.data))
    <3>1. \A a, b, c, d \in Nat : a + b + c - 1 < d => a + b + c <= d
      OBVIOUS
    <3> QED BY <2>1, <3>1 DEF Within
  <2>3. Untouched(s, Len(e.data))
    BY DEF Untouched, Wrong
  <2>4. CodeNearly(s)
    BY DEF CodeNearly, Wrong
  <2>6. [at |-> s, data |-> e.data] \in Frames(stream)
    BY <2>2, <2>3, <2>4, GoodFrameIsThere
  <2>7. /\ found \in Seq(Range(found)) /\ Range(found) = Frames(stream)
    BY DEF Deframed, Returned, IsSeq
  <2>8. Range(found) = {found[i] : i \in 1..Len(found)}
    BY <2>7, RangeEquality
  <2> QED BY <2>6, <2>7, <2>8
<1> QED BY <1>1, DeframedAlways, SendingAlways, PTL

\* Types, the bounds of backlog and buffer, and how the counters of queue and
\* buffer relate to what they count.
THEOREM TypeCorrect == Spec => []TypeOK
<1>1. Deframed /\ Sending => TypeOK
  <2> SUFFICES ASSUME Deframed, Sending PROVE TypeOK
    OBVIOUS
  <2>1. /\ tx \in [queue : Seq(Sendable), queued : Nat, cur : Sendable \cup {<< >>}, pos : Nat,
                   ppos : 0..(Len(Filler) - 1), state : Bits]
        /\ tx.queued = Total(tx.queue) /\ Ahead(tx) <= MaxBits
        /\ (tx.cur # << >> => tx.pos \in 1..(Len(FrameBits[tx.cur]) - 1))
        /\ enabled \in BOOLEAN /\ hard \in Bits /\ wire \in Seq(Bits)
        /\ stream \in Seq(Bits) /\ push \in Nat /\ off \in Nat
    BY DEF Sending, TxOK
  <2>2. Seq(Sendable) \subseteq Seq(Payloads)
    BY SeqMonotonic DEF Sendable
  <2>3. tx.queue \in Seq(Payloads) /\ tx.cur \in Payloads \cup {<< >>}
    BY <2>1, <2>2 DEF Sendable
  <2>4. Backlog \in 0..MaxBits
    <3>1. Backlog = Ahead(tx) /\ MaxBits \in Nat
      BY FramingAssumption DEF Backlog, Ahead
    <3>2. tx.cur # << >> => Len(FrameBits[tx.cur]) \in Nat
      BY <2>1, FrameBitsAre
    <3>3. Ahead(tx) \in Nat
      BY SMTT(30), <2>1, <3>2 DEF Ahead
    <3> QED BY <2>1, <3>1, <3>3
  <2>5. /\ rx.base \in Nat /\ rx.base <= Len(stream) /\ rx.base <= rx.scanned
        /\ rx.buf = Cut(stream, rx.base, Len(stream) - rx.base)
        /\ rx.scanned = Searched(stream) /\ rx.pending = Waiting(stream)
        /\ \A p \in rx.pending : rx.base <= p.start
        /\ rx.base \in {p.start : p \in rx.pending} \cup {rx.scanned}
    BY DEF Deframed, Buffer
  <2>6. /\ Len(stream) \in Nat /\ Len(Code) \in Nat \ {0} /\ Header \in Nat
        /\ Header >= Len(Code) /\ Byte \in Nat /\ MaxLen \in Nat /\ MinLen \in Nat
    BY Sizes, PositionIs
  <2>7. Byte * MaxLen \in Nat /\ \A l \in MinLen..MaxLen : Byte * l <= Byte * MaxLen
                                                          /\ Byte * l \in Nat
    <3>1. \A a, b, c \in Nat : b <= c => a * b <= a * c /\ a * b \in Nat
      OBVIOUS
    <3> QED BY <2>6, <3>1
  <2>8. /\ rx.buf \in Seq(Bits) /\ Len(rx.buf) = Len(stream) - rx.base
        /\ rx.base + Len(rx.buf) = Len(stream)
    <3>1. Len(stream) - rx.base \in Nat /\ rx.base + (Len(stream) - rx.base) <= Len(stream)
      BY <2>5, <2>6
    <3>2. rx.buf \in Seq(Bits) /\ Len(rx.buf) = Len(stream) - rx.base
      BY <2>1, <2>5, <3>1, CutElements
    <3> QED BY <2>5, <2>6, <3>2
  <2>9. rx.scanned \in Nat /\ rx.scanned <= Len(stream) + 1
        /\ Len(stream) < rx.scanned + Header
    BY <2>5, <2>6 DEF Searched
  <2>10. ASSUME NEW p \in rx.pending
         PROVE  /\ p.start \in Nat /\ p.start <= rx.scanned
                /\ p.length \in {None} \cup MinLen..MaxLen
                /\ Len(stream) < p.start + Header + Byte * MaxLen
    <3>1. CASE \E s \in Early(stream) : p = Unread(s)
      <4>1. PICK s \in Early(stream) : p = Unread(s)
        BY <3>1
      <4>2. p.start = s /\ p.length = None
        BY <4>1 DEF Unread
      <4>3. s \in Nat /\ s + Len(Code) <= Len(stream) /\ s + Header > Len(stream)
        BY DEF Early, Hits
      <4> QED BY <2>5, <2>6, <2>7, <4>2, <4>3 DEF Searched
    <3>2. CASE \E s \in Open(stream) : p = Begun(stream, s)
      <4>1. PICK s \in Open(stream) : p = Begun(stream, s)
        BY <3>2
      <4>2. p.start = s /\ p.length = LengthAt(stream, s)
        BY <4>1 DEF Begun
      <4> DEFINE l == LengthAt(stream, s)
      <4>3. /\ s \in Nat /\ s + Len(Code) <= Len(stream) /\ l \in MinLen..MaxLen
            /\ s + Header + Byte * l > Len(stream)
        BY DEF Open, Good, Hits, Plausible, EndAt
      <4> HIDE DEF l
      <4>4. Byte * l <= Byte * MaxLen /\ Byte * l \in Nat
        BY <2>7, <4>3
      <4>5. s <= rx.scanned
        BY <2>5, <2>6, <4>3 DEF Searched
      <4>6. Len(stream) < s + Header + Byte * MaxLen
        <5>1. \A a, b, c, d, m \in Nat : a + b + c > m /\ c <= d => m < a + b + d
          OBVIOUS
        <5> QED BY <2>6, <2>7, <4>3, <4>4, <5>1
      <4> QED BY <4>2, <4>3, <4>5, <4>6 DEF l
    <3> QED BY <2>5, <3>1, <3>2 DEF Waiting
  <2>11. Len(rx.buf) < Header + Byte * MaxLen
    <3>1. CASE rx.base = rx.scanned
      BY SMTT(30), <2>5, <2>6, <2>7, <2>8, <2>9, <3>1
    <3>2. CASE \E p \in rx.pending : rx.base = p.start
      BY <2>5, <2>6, <2>7, <2>8, <2>10, <3>2
    <3> QED BY <2>5, <3>1, <3>2
  <2>12. rx.scanned \in rx.base..(Len(stream) + 1)
    BY <2>5, <2>6, <2>9
  <2>13. \A p \in rx.pending : /\ p.start \in rx.base..rx.scanned
                               /\ p.length \in {None} \cup MinLen..MaxLen
    BY <2>5, <2>9, <2>10
  <2> QED BY <2>1, <2>3, <2>4, <2>5, <2>8, <2>11, <2>12, <2>13 DEF TypeOK
<1> QED BY <1>1, DeframedAlways, SendingAlways, PTL

=============================================================================
