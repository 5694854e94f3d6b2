---------------------------- MODULE GraphProofs ---------------------------
(***************************************************************************)
(* Proofs about Graph.tla: what the operations on a graph keep of it, and  *)
(* what they leave, for every graph.                                       *)
(***************************************************************************)
EXTENDS Graph, FiniteSetTheorems, SequenceTheorems, TLAPS

----------------------------------------------------------------------------
(* Loops and sequences.  A loop of the code is a function of its turns; what*)
(* a turn keeps holds after all of them.                                   *)

LEMMA HasLeast ==
  ASSUME NEW S \in SUBSET Nat, S # {}
  PROVE  \E m \in S : \A s \in S : m <= s
<1>1. \E m \in S : \A s \in S : <<s, m>> \notin OpToRel(<, Nat)
  BY NatLessThanWellFounded, WFMin
<1>2. PICK m \in S : \A s \in S : <<s, m>> \notin OpToRel(<, Nat)
  BY <1>1
<1>3. \A s \in S : ~(s < m)
  BY <1>2, Zenon DEF OpToRel
<1> QED
  BY <1>3

(* Induction along a loop, as a fact about a set of its turns.             *)
LEMMA ByTurns ==
  ASSUME NEW n \in Nat, NEW S, 0 \in S,
         \A k \in 0 .. n : k # n /\ k \in S => k + 1 \in S
  PROVE  \A k \in 0 .. n : k \in S
<1> DEFINE Left == {k \in 0 .. n : k \notin S}
<1>1. SUFFICES ASSUME Left # {} PROVE FALSE
  OBVIOUS
<1>2. Left \in SUBSET Nat
  OBVIOUS
<1>3. PICK m \in Left : \A k \in Left : m <= k
  BY <1>1, <1>2, HasLeast, Zenon
<1>4. m \in 0 .. n /\ m \notin S /\ m # 0
  BY <1>3
<1>5. m - 1 \in 0 .. n /\ m - 1 # n /\ m - 1 \notin Left
  BY <1>3, <1>4
<1>6. (m - 1) + 1 \in S
  BY <1>5
<1> QED
  BY <1>4, <1>6

(* A sequence lists a set: each of its elements once.                      *)
Lists(s, R) ==
  /\ s \in Seq(R)
  /\ \A i, j \in 1 .. Len(s) : s[i] = s[j] => i = j
  /\ \A x \in R : \E i \in 1 .. Len(s) : s[i] = x

LEMMA ListsToSet ==
  ASSUME NEW s, NEW R, Lists(s, R)
  PROVE  ToSet(s) = R /\ IsInjective(s) /\ Len(s) \in Nat /\ DOMAIN s = 1 .. Len(s)
         /\ \A i \in 1 .. Len(s) : s[i] \in R
BY SMTT(30) DEF Lists, ToSet, IsInjective

LEMMA ListsEmpty ==
  ASSUME NEW s, NEW R, Lists(s, R)
  PROVE  s = <<>> <=> R = {}
<1>1. s \in Seq(R) /\ Len(s) \in Nat
  BY DEF Lists
<1>2. s # <<>> => Len(s) \in Nat \ {0}
  BY <1>1, EmptySeq
<1>3. s # <<>> => s[1] \in R
  BY <1>1, <1>2, ElementOfSeq
<1>4. Len(<<>>) = 0
  OBVIOUS
<1> QED
  BY <1>3, <1>4 DEF Lists

LEMMA ListsAppend ==
  ASSUME NEW s, NEW R, Lists(s, R), NEW e, e \notin R
  PROVE  Lists(Append(s, e), R \cup {e})
<1>1. s \in Seq(R) /\ s \in Seq(R \cup {e}) /\ Len(s) \in Nat
  BY SeqMonotonic DEF Lists
<1>2. Append(s, e) \in Seq(R \cup {e}) /\ Len(Append(s, e)) = Len(s) + 1
      /\ (\A i \in 1 .. Len(s) : Append(s, e)[i] = s[i]) /\ Append(s, e)[Len(s) + 1] = e
  BY <1>1, AppendProperties
<1>3. \A i \in 1 .. Len(s) : s[i] \in R
  BY <1>1, ElementOfSeq
<1>4. \A i \in 1 .. Len(s) + 1 : i \in 1 .. Len(s) \/ i = Len(s) + 1
  BY <1>1
<1>5. \A i, j \in 1 .. Len(s) + 1 : Append(s, e)[i] = Append(s, e)[j] => i = j
  BY <1>2, <1>3, <1>4, SMTT(30) DEF Lists
<1>6. \A x \in R \cup {e} : \E i \in 1 .. Len(s) + 1 : Append(s, e)[i] = x
  <2> TAKE x \in R \cup {e}
  <2>1. CASE x \in R
    <3>1. PICK i \in 1 .. Len(s) : s[i] = x
      BY <2>1 DEF Lists
    <3> QED
      BY <1>1, <1>2, <3>1
  <2>2. CASE x = e
    BY <1>1, <1>2, <2>2
  <2> QED
    BY <2>1, <2>2
<1> QED
  BY <1>2, <1>5, <1>6 DEF Lists

LEMMA ListsConcat ==
  ASSUME NEW s, NEW R, Lists(s, R), NEW t, NEW Q, Lists(t, Q), R \cap Q = {}
  PROVE  Lists(s \o t, R \cup Q)
<1>1. s \in Seq(R \cup Q) /\ t \in Seq(R \cup Q) /\ Len(s) \in Nat /\ Len(t) \in Nat
  BY SeqMonotonic DEF Lists
<1>2. s \o t \in Seq(R \cup Q) /\ Len(s \o t) = Len(s) + Len(t)
      /\ \A i \in 1 .. Len(s) + Len(t) : (s \o t)[i] = IF i <= Len(s) THEN s[i] ELSE t[i - Len(s)]
  BY <1>1, ConcatProperties
<1>3. (\A i \in 1 .. Len(s) : s[i] \in R) /\ (\A i \in 1 .. Len(t) : t[i] \in Q)
  BY ListsToSet
<1>4. \A i \in 1 .. Len(s) + Len(t) : IF i <= Len(s) THEN i \in 1 .. Len(s) ELSE i - Len(s) \in 1 .. Len(t)
  BY <1>1
<1>5. ASSUME NEW i \in 1 .. Len(s) + Len(t), NEW j \in 1 .. Len(s) + Len(t), (s \o t)[i] = (s \o t)[j]
      PROVE  i = j
  <2>1. CASE i <= Len(s) /\ j <= Len(s)
    BY <1>2, <1>4, <1>5, <2>1, ZenonT(60) DEF Lists
  <2>2. CASE ~(i <= Len(s)) /\ ~(j <= Len(s))
    <3>0. i - Len(s) \in 1 .. Len(t) /\ j - Len(s) \in 1 .. Len(t)
      BY <1>4, <2>2
    <3>1. t[i - Len(s)] = t[j - Len(s)]
      BY <1>2, <1>5, <2>2
    <3>2. i - Len(s) = j - Len(s)
      BY <3>0, <3>1 DEF Lists
    <3> QED
      BY <1>1, <3>2
  <2>3. CASE (i <= Len(s)) # (j <= Len(s))
    BY <1>2, <1>3, <1>4, <1>5, <2>3
  <2> QED
    BY <2>1, <2>2, <2>3
<1>6. ASSUME NEW x \in R \cup Q PROVE \E i \in 1 .. Len(s) + Len(t) : (s \o t)[i] = x
  <2>1. CASE x \in R
    <3>1. PICK i \in 1 .. Len(s) : s[i] = x
      BY <2>1 DEF Lists
    <3>2. i \in 1 .. Len(s) + Len(t) /\ i <= Len(s)
      BY <1>1
    <3> QED
      BY <1>2, <3>1, <3>2
  <2>2. CASE x \in Q
    <3>1. PICK i \in 1 .. Len(t) : t[i] = x
      BY <2>2 DEF Lists
    <3>2. Len(s) + i \in 1 .. Len(s) + Len(t) /\ ~(Len(s) + i <= Len(s)) /\ (Len(s) + i) - Len(s) = i
      BY <1>1
    <3> QED
      BY <1>2, <3>1, <3>2
  <2> QED
    BY <2>1, <2>2
<1> QED
  BY <1>2, <1>5, <1>6 DEF Lists

(* Without goes through the sequence once.                                 *)
IsWithout(w, f, s, S, k) ==
  /\ w \in Seq(ToSet(s) \ S)
  /\ f \in [1 .. Len(w) -> 1 .. k]
  /\ \A i, j \in 1 .. Len(w) : i < j => f[i] < f[j]
  /\ \A i \in 1 .. Len(w) : w[i] = s[f[i]]
  /\ \A j \in 1 .. k : s[j] \notin S => \E i \in 1 .. Len(w) : f[i] = j

LEMMA WithoutIs ==
  ASSUME NEW R, NEW s \in Seq(R), NEW S
  PROVE  \E f : IsWithout(Without(s, S), f, s, S, Len(s))
<1>0. PICK n \in Nat : n = Len(s) /\ DOMAIN s = 1 .. n
  OBVIOUS
<1> DEFINE Step(f, k) == IF k = 0 THEN <<>>
                         ELSE IF s[k] \in S THEN f[k - 1] ELSE Append(f[k - 1], s[k])
           kept == CHOOSE f : f = [k \in 0 .. n |-> Step(f, k)]
           Is == {m \in 0 .. n : \E f : f = [k \in 0 .. m |-> Step(f, k)]}
<1>1. \E f : f = [k \in 0 .. n |-> Step(f, k)]
  <2>1. 0 \in Is
    <3>1. PICK f : f = [k \in 0 .. 0 |-> <<>>]
      OBVIOUS
    <3>2. f = [k \in 0 .. 0 |-> Step(f, k)]
      BY <3>1
    <3> QED
      BY <1>0, <3>2
  <2>2. ASSUME NEW m \in 0 .. n, m # n, m \in Is PROVE m + 1 \in Is
    <3>1. PICK f : f = [k \in 0 .. m |-> Step(f, k)]
      BY <2>2
    <3>2. PICK h : h = [k \in 0 .. m + 1 |-> IF k = m + 1 THEN Step(f, k) ELSE f[k]]
      OBVIOUS
    <3>3. h = [k \in 0 .. m + 1 |-> Step(h, k)]
      <4>1. ASSUME NEW k \in 0 .. m + 1 PROVE h[k] = Step(h, k)
        <5>1. k # 0 => k - 1 \in 0 .. m /\ h[k - 1] = f[k - 1]
          BY <1>0, <3>2
        <5>2. k \in 0 .. m \/ k = m + 1
          BY <1>0
        <5>3. h[k] = Step(f, k)
          BY <3>1, <3>2, <5>2
        <5> QED
          BY <5>1, <5>3
      <4> QED
        BY <3>2, <4>1
    <3>4. m \in 0 .. n /\ m # n
      BY <2>2, Zenon
    <3>5. m + 1 \in 0 .. n
      BY ONLY <1>0, <3>4
    <3> QED
      BY <3>3, <3>5
  <2>3. \A m \in 0 .. n : m \in Is
    <3> HIDE DEF Is
    <3> QED
      BY <1>0, <2>1, <2>2, ByTurns
  <2> QED
    BY <1>0, <2>3
<1>2. kept = [k \in 0 .. n |-> Step(kept, k)]
  BY <1>1
<1>3. Without(s, S) = kept[n]
  BY <1>0 DEF Without
<1> HIDE DEF kept
<1>4. kept[0] = <<>> /\ \A k \in 1 .. n : kept[k] = IF s[k] \in S THEN kept[k - 1] ELSE Append(kept[k - 1], s[k])
  <2>1. \A k \in 0 .. n : kept[k] = Step(kept, k)
    BY <1>2
  <2>2. 0 \in 0 .. n /\ \A k \in 1 .. n : k \in 0 .. n /\ k # 0
    BY ONLY <1>0
  <2> QED
    BY <2>1, <2>2
<1> DEFINE Good == {k \in 0 .. n : \E f : IsWithout(kept[k], f, s, S, k)}
<1>5. 0 \in Good
  <2>1. PICK f : f = [i \in 1 .. 0 |-> 0]
    OBVIOUS
  <2>2. IsWithout(kept[0], f, s, S, 0)
    BY <1>4, <2>1, EmptySeq DEF IsWithout
  <2> QED
    BY <1>0, <2>2
<1>6. ASSUME NEW k \in 0 .. n, k # n, k \in Good PROVE k + 1 \in Good
  <2>a. k \in 0 .. n /\ k # n
    BY <1>6, Zenon
  <2>0. k \in Nat /\ k + 1 \in 1 .. n /\ k + 1 \in 0 .. n /\ (k + 1) - 1 = k
    BY ONLY <1>0, <2>a
  <2>1. PICK f : IsWithout(kept[k], f, s, S, k)
    BY <1>6
  <2>2. kept[k + 1] = IF s[k + 1] \in S THEN kept[k] ELSE Append(kept[k], s[k + 1])
    BY <1>4, <2>0
  <2>3. CASE s[k + 1] \in S
    <3>1. kept[k + 1] = kept[k]
      BY <2>2, <2>3
    <3>2. \A j \in 1 .. k + 1 : j \in 1 .. k \/ j = k + 1
      BY <2>0
    <3>3. 1 .. k \subseteq 1 .. k + 1
      BY <2>0
    <3>4. IsWithout(kept[k], f, s, S, k + 1)
      BY <2>1, <2>3, <3>2, <3>3 DEF IsWithout
    <3> QED
      BY <2>0, <3>1, <3>4
  <2>4. CASE s[k + 1] \notin S
    <3> DEFINE w == kept[k]
               v == Append(w, s[k + 1])
    <3>1. kept[k + 1] = v
      BY <2>2, <2>4
    <3>2. w \in Seq(ToSet(s) \ S) /\ Len(w) \in Nat
      BY <2>1 DEF IsWithout
    <3>3. s[k + 1] \in ToSet(s) \ S
      BY <1>0, <2>0, <2>4 DEF ToSet
    <3>4. v \in Seq(ToSet(s) \ S) /\ Len(v) = Len(w) + 1
          /\ (\A i \in 1 .. Len(w) : v[i] = w[i]) /\ v[Len(w) + 1] = s[k + 1]
      BY <3>2, <3>3, AppendProperties
    <3> HIDE DEF w, v
    <3>5. PICK h : h = [i \in 1 .. Len(w) + 1 |-> IF i = Len(w) + 1 THEN k + 1 ELSE f[i]]
      OBVIOUS
    <3>6. /\ f \in [1 .. Len(w) -> 1 .. k]
          /\ \A i, j \in 1 .. Len(w) : i < j => f[i] < f[j]
          /\ \A i \in 1 .. Len(w) : w[i] = s[f[i]]
          /\ \A j \in 1 .. k : s[j] \notin S => \E i \in 1 .. Len(w) : f[i] = j
      BY <2>1 DEF IsWithout, w
    <3>7. \A i \in 1 .. Len(w) + 1 : i \in 1 .. Len(w) \/ i = Len(w) + 1
      BY <3>2
    <3>8. \A i \in 1 .. Len(w) : i \in 1 .. Len(w) + 1 /\ i # Len(w) + 1 /\ h[i] = f[i] /\ f[i] \in 1 .. k
      BY <3>2, <3>5, <3>6
    <3>9. h[Len(w) + 1] = k + 1 /\ Len(w) + 1 \in 1 .. Len(w) + 1
      BY <3>2, <3>5
    <3>10. h \in [1 .. Len(w) + 1 -> 1 .. k + 1]
      <4>1. \A i \in 1 .. Len(w) + 1 : h[i] \in 1 .. k + 1
        BY <2>0, <3>7, <3>8, <3>9
      <4> QED
        BY ONLY <3>5, <4>1
    <3>11. \A i, j \in 1 .. Len(w) + 1 : i < j => h[i] < h[j]
      BY <2>0, <3>2, <3>6, <3>7, <3>8, <3>9
    <3>12. \A i \in 1 .. Len(w) + 1 : v[i] = s[h[i]]
      BY <3>4, <3>6, <3>7, <3>8, <3>9
    <3>13. ASSUME NEW j \in 1 .. k + 1, s[j] \notin S PROVE \E i \in 1 .. Len(w) + 1 : h[i] = j
      <4>1. CASE j = k + 1
        BY <3>9, <4>1
      <4>2. CASE j \in 1 .. k
        BY <3>6, <3>8, <3>13, <4>2
      <4> QED
        BY <2>0, <4>1, <4>2
    <3>14. IsWithout(v, h, s, S, k + 1)
      BY <3>4, <3>10, <3>11, <3>12, <3>13 DEF IsWithout
    <3> QED
      BY <2>0, <3>1, <3>14
  <2> QED
    BY <2>3, <2>4
<1>7. n \in Good
  <2> HIDE DEF Good
  <2> QED
    BY <1>0, <1>5, <1>6, ByTurns
<1> QED
  BY <1>0, <1>3, <1>7

(* What is left of s is in the order it was in.                            *)
InTheOrderOf(w, s) ==
  \A i, j \in 1 .. Len(w) : i < j => \E a, b \in 1 .. Len(s) : a < b /\ w[i] = s[a] /\ w[j] = s[b]

LEMMA ListsWithout ==
  ASSUME NEW s, NEW R, Lists(s, R), NEW S
  PROVE  Lists(Without(s, S), R \ S) /\ InTheOrderOf(Without(s, S), s)
<1>0. s \in Seq(R) /\ ToSet(s) = R /\ Len(s) \in Nat
  BY ListsToSet DEF Lists
<1>1. PICK f : IsWithout(Without(s, S), f, s, S, Len(s))
  BY <1>0, WithoutIs
<1>2. PICK w : w = Without(s, S)
  OBVIOUS
<1>3. /\ w \in Seq(R \ S) /\ Len(w) \in Nat
      /\ f \in [1 .. Len(w) -> 1 .. Len(s)]
      /\ \A i, j \in 1 .. Len(w) : i < j => f[i] < f[j]
      /\ \A i \in 1 .. Len(w) : w[i] = s[f[i]]
      /\ \A j \in 1 .. Len(s) : s[j] \notin S => \E i \in 1 .. Len(w) : f[i] = j
  BY <1>0, <1>1, <1>2 DEF IsWithout
<1>4. \A i \in 1 .. Len(w) : f[i] \in 1 .. Len(s) /\ f[i] \in Nat
  BY <1>0, <1>3
<1>5. \A i, j \in 1 .. Len(w) : w[i] = w[j] => i = j
  <2> TAKE i, j \in 1 .. Len(w)
  <2> HAVE w[i] = w[j]
  <2>1. s[f[i]] = s[f[j]]
    BY <1>3
  <2>2. f[i] = f[j]
    BY <1>4, <2>1, ZenonT(60) DEF Lists
  <2> QED
    BY <1>3, <1>4, <2>2
<1>6. \A x \in R \ S : \E i \in 1 .. Len(w) : w[i] = x
  <2> TAKE x \in R \ S
  <2>1. PICK j \in 1 .. Len(s) : s[j] = x
    BY DEF Lists
  <2> QED
    BY <1>3, <2>1
<1>7. \A i, j \in 1 .. Len(w) : i < j => \E a, b \in 1 .. Len(s) : a < b /\ w[i] = s[a] /\ w[j] = s[b]
  BY <1>3, <1>4
<1>8. InTheOrderOf(w, s)
  BY <1>7 DEF InTheOrderOf
<1>9. Lists(w, R \ S)
  BY <1>3, <1>5, <1>6 DEF Lists
<1> QED
  BY <1>2, <1>8, <1>9

(* w is the sequence s of elements of R with e at pos.                     *)
IsInserted(w, s, R, pos, e) ==
  /\ w \in Seq(R \cup {e})
  /\ Len(w) = Len(s) + 1
  /\ \A i \in 1 .. Len(s) + 1 : w[i] = IF i < pos THEN s[i] ELSE IF i = pos THEN e ELSE s[i - 1]

LEMMA InsertAtIs ==
  ASSUME NEW R, NEW s \in Seq(R), NEW e, NEW pos \in 1 .. Len(s) + 1
  PROVE  IsInserted(InsertAt(s, pos, e), s, R, pos, e)
<1> DEFINE a == SubSeq(s, 1, pos - 1)
           b == <<e>>
           c == SubSeq(s, pos, Len(s))
<1>0. Len(s) \in Nat /\ pos \in Nat /\ pos >= 1 /\ pos <= Len(s) + 1 /\ \A i \in 1 .. Len(s) : s[i] \in R
  BY LenProperties, ElementOfSeq
<1>1. a \in Seq(R \cup {e}) /\ Len(a) = pos - 1 /\ \A i \in 1 .. pos - 1 : a[i] = s[i]
  <2>1. \A i \in 1 .. pos - 1 : s[i] \in R \cup {e}
    BY <1>0
  <2>2. pos - 1 \in Int /\ 1 \in Int
    BY <1>0
  <2>3. /\ a \in Seq(R \cup {e})
        /\ Len(a) = IF 1 <= pos - 1 THEN (pos - 1) - 1 + 1 ELSE 0
        /\ \A i \in 1 .. (pos - 1) - 1 + 1 : a[i] = s[1 + i - 1]
    BY <2>1, <2>2, SubSeqProperties
  <2> HIDE DEF a
  <2> QED
    BY <1>0, <2>3
<1>2. b \in Seq(R \cup {e}) /\ Len(b) = 1 /\ b[1] = e
  OBVIOUS
<1>3. c \in Seq(R \cup {e}) /\ Len(c) = Len(s) - pos + 1 /\ \A i \in 1 .. Len(s) - pos + 1 : c[i] = s[pos + i - 1]
  <2>1. \A i \in pos .. Len(s) : s[i] \in R \cup {e}
    BY <1>0
  <2>2. pos \in Int /\ Len(s) \in Int
    BY <1>0
  <2>3. /\ c \in Seq(R \cup {e})
        /\ Len(c) = IF pos <= Len(s) THEN Len(s) - pos + 1 ELSE 0
        /\ \A i \in 1 .. Len(s) - pos + 1 : c[i] = s[pos + i - 1]
    BY <2>1, <2>2, SubSeqProperties
  <2> HIDE DEF c
  <2> QED
    BY <1>0, <2>3
<1> HIDE DEF a, b, c
<1>4. a \o b \in Seq(R \cup {e}) /\ Len(a \o b) = pos
      /\ \A i \in 1 .. pos : (a \o b)[i] = IF i < pos THEN a[i] ELSE e
  <2>1. a \o b \in Seq(R \cup {e}) /\ Len(a \o b) = Len(a) + Len(b)
        /\ \A i \in 1 .. Len(a) + Len(b) : (a \o b)[i] = IF i <= Len(a) THEN a[i] ELSE b[i - Len(a)]
    BY <1>1, <1>2, ConcatProperties
  <2> QED
    BY <1>0, <1>1, <1>2, <2>1
<1>5. PICK ab : ab = a \o b
  OBVIOUS
<1>6. ab \in Seq(R \cup {e}) /\ Len(ab) = pos /\ \A i \in 1 .. pos : ab[i] = IF i < pos THEN a[i] ELSE e
  BY <1>4, <1>5
<1>7. ab \o c \in Seq(R \cup {e}) /\ Len(ab \o c) = Len(ab) + Len(c)
      /\ \A i \in 1 .. Len(ab) + Len(c) : (ab \o c)[i] = IF i <= Len(ab) THEN ab[i] ELSE c[i - Len(ab)]
  BY <1>3, <1>6, ConcatProperties
<1>8. PICK w : w = ab \o c
  OBVIOUS
<1>9. w \in Seq(R \cup {e}) /\ Len(w) = Len(s) + 1
      /\ \A i \in 1 .. Len(s) + 1 : w[i] = IF i <= pos THEN ab[i] ELSE c[i - pos]
  BY <1>0, <1>3, <1>6, <1>7, <1>8
<1>10. InsertAt(s, pos, e) = w
  BY <1>5, <1>8 DEF InsertAt, a, b, c
<1>11. ASSUME NEW i \in 1 .. Len(s) + 1
       PROVE  w[i] = IF i < pos THEN s[i] ELSE IF i = pos THEN e ELSE s[i - 1]
  <2>1. CASE i < pos
    <3>1. i \in 1 .. pos /\ i \in 1 .. pos - 1 /\ i <= pos
      BY <1>0, <2>1
    <3> QED
      BY <1>1, <1>6, <1>9, <2>1, <3>1
  <2>2. CASE i = pos
    BY <1>0, <1>6, <1>9, <2>2
  <2>3. CASE i > pos
    <3>1. i - pos \in 1 .. Len(s) - pos + 1 /\ ~(i <= pos) /\ pos + (i - pos) - 1 = i - 1 /\ ~(i < pos) /\ i # pos
      BY <1>0, <2>3
    <3> QED
      BY <1>3, <1>9, <3>1
  <2>4. i < pos \/ i = pos \/ i > pos
    BY <1>0
  <2> QED
    BY <2>1, <2>2, <2>3, <2>4
<1> QED
  BY <1>9, <1>10, <1>11 DEF IsInserted

LEMMA ListsInsert ==
  ASSUME NEW s, NEW R, Lists(s, R), NEW e, e \notin R, NEW pos \in 1 .. Len(s) + 1
  PROVE  Lists(InsertAt(s, pos, e), R \cup {e})
<1>0. s \in Seq(R) /\ Len(s) \in Nat /\ pos \in Nat /\ \A i \in 1 .. Len(s) : s[i] \in R
  BY ListsToSet DEF Lists
<1>1. PICK w : w = InsertAt(s, pos, e)
  OBVIOUS
<1>2. w \in Seq(R \cup {e}) /\ Len(w) = Len(s) + 1
      /\ \A i \in 1 .. Len(s) + 1 : w[i] = IF i < pos THEN s[i] ELSE IF i = pos THEN e ELSE s[i - 1]
  <2>1. IsInserted(w, s, R, pos, e)
    BY <1>0, <1>1, InsertAtIs
  <2> QED
    BY <2>1 DEF IsInserted
<1>3. \A i \in 1 .. Len(s) + 1 : (i < pos => i \in 1 .. Len(s)) /\ (i > pos => i - 1 \in 1 .. Len(s))
  BY <1>0
<1>4. ASSUME NEW i \in 1 .. Len(s) + 1, NEW j \in 1 .. Len(s) + 1, w[i] = w[j] PROVE i = j
  <2>1. CASE i = pos \/ j = pos
    BY <1>0, <1>2, <1>3, <1>4, <2>1, SMTT(30)
  <2>2. CASE i # pos /\ j # pos
    <3> DEFINE x == IF i < pos THEN i ELSE i - 1
               y == IF j < pos THEN j ELSE j - 1
    <3>1. x \in 1 .. Len(s) /\ y \in 1 .. Len(s) /\ s[x] = s[y]
      BY <1>0, <1>2, <1>3, <1>4, <2>2
    <3>2. x = y
      BY <3>1 DEF Lists
    <3> QED
      BY <1>0, <2>2, <3>2
  <2> QED
    BY <2>1, <2>2
<1>5. ASSUME NEW x \in R \cup {e} PROVE \E i \in 1 .. Len(s) + 1 : w[i] = x
  <2>1. CASE x = e
    BY <1>0, <1>2, <2>1
  <2>2. CASE x \in R
    <3>1. PICK i \in 1 .. Len(s) : s[i] = x
      BY <2>2 DEF Lists
    <3>2. CASE i < pos
      BY <1>0, <1>2, <3>1, <3>2
    <3>3. CASE ~(i < pos)
      <4>1. i + 1 \in 1 .. Len(s) + 1 /\ ~(i + 1 < pos) /\ i + 1 # pos /\ (i + 1) - 1 = i
        BY <1>0, <3>3
      <4> QED
        BY <1>2, <3>1, <4>1
    <3> QED
      BY <3>2, <3>3
  <2> QED
    BY <2>1, <2>2
<1> QED
  BY <1>1, <1>2, <1>4, <1>5 DEF Lists

LEMMA MaxIs ==
  ASSUME NEW S \in SUBSET Nat, S # {}, NEW n \in Nat, \A x \in S : x <= n
  PROVE  Max(S) \in S /\ \A x \in S : x <= Max(S)
<1> DEFINE Short == {n - x : x \in S}
<1>1. \A x \in S : n - x \in Nat
  OBVIOUS
<1>2. Short \in SUBSET Nat /\ Short # {}
  BY <1>1
<1>3. PICK m \in Short : \A y \in Short : m <= y
  BY <1>2, HasLeast, Zenon
<1>4. PICK x \in S : m = n - x
  BY <1>3
<1>5. \A y \in S : n - x <= n - y
  BY <1>3, <1>4
<1>6. \A y \in S : x >= y
  BY <1>5
<1>7. Max(S) \in S /\ \A y \in S : Max(S) >= y
  BY <1>6 DEF Max
<1> QED
  BY <1>7

----------------------------------------------------------------------------
(* Slots.  The connections of an output slot are the input slots that read *)
(* it, each once.                                                          *)

Readers(ins, s) ==
  {e \in (DOMAIN ins) \X Nat : e[2] \in DOMAIN ins[e[1]] /\ ins[e[1]][e[2]] = s}

Wired(L, ins, outs) ==
  /\ DOMAIN ins = L /\ DOMAIN outs = L
  /\ \A l \in L : \E n \in Nat : ins[l] \in [1 .. n -> L \cup {None}]
  /\ \A l \in L : Lists(outs[l], Readers(ins, l))

LEMMA ReaderIs ==
  ASSUME NEW ins, NEW s, NEW k, NEW j
  PROVE  <<k, j>> \in Readers(ins, s) <=>
           k \in DOMAIN ins /\ j \in Nat /\ j \in DOMAIN ins[k] /\ ins[k][j] = s
<1>0. PICK D : D = DOMAIN ins
  OBVIOUS
<1>1. <<k, j>> \in D \X Nat <=> k \in D /\ j \in Nat
  OBVIOUS
<1>2. PICK e : e = <<k, j>>
  OBVIOUS
<1>3. e[1] = k /\ e[2] = j
  BY <1>2
<1>4. e \in Readers(ins, s) <=> e \in (DOMAIN ins) \X Nat /\ e[2] \in DOMAIN ins[e[1]] /\ ins[e[1]][e[2]] = s
  BY Zenon DEF Readers
<1> QED
  BY <1>0, <1>1, <1>2, <1>3, <1>4, Zenon

LEMMA ReaderIsSlot ==
  ASSUME NEW ins, NEW s, NEW e \in Readers(ins, s)
  PROVE  e = <<e[1], e[2]>> /\ e[1] \in DOMAIN ins /\ e[2] \in Nat /\ e[2] \in DOMAIN ins[e[1]]
         /\ ins[e[1]][e[2]] = s
<1>0. PICK D : D = DOMAIN ins
  OBVIOUS
<1>1. e \in D \X Nat
  BY <1>0, Zenon DEF Readers
<1>2. e[2] \in DOMAIN ins[e[1]] /\ ins[e[1]][e[2]] = s
  BY Zenon DEF Readers
<1>3. e = <<e[1], e[2]>> /\ e[1] \in D /\ e[2] \in Nat
  BY ONLY <1>1
<1> QED
  BY <1>0, <1>2, <1>3, Zenon

LEMMA ReadersEqual ==
  ASSUME NEW ins, NEW s, NEW J, NEW t,
         \A k, j : <<k, j>> \in Readers(J, t) <=> <<k, j>> \in Readers(ins, s)
  PROVE  Readers(J, t) = Readers(ins, s)
<1>1. ASSUME NEW e PROVE e \in Readers(J, t) <=> e \in Readers(ins, s)
  <2>1. e \in Readers(J, t) \/ e \in Readers(ins, s) => e = <<e[1], e[2]>>
    BY ReaderIsSlot
  <2> QED
    BY <2>1
<1> QED
  BY <1>1

(* The input slots of a set A of slots are made to read d.                 *)
Moved(ins, J, A, d) ==
  /\ DOMAIN J = DOMAIN ins
  /\ \A k \in DOMAIN ins : DOMAIN J[k] = DOMAIN ins[k]
  /\ \A k \in DOMAIN ins : \A j \in DOMAIN ins[k] :
       J[k][j] = IF <<k, j>> \in A THEN d ELSE ins[k][j]

IsSlots(A, ins) ==
  \A e \in A : e = <<e[1], e[2]>> /\ e[1] \in DOMAIN ins /\ e[2] \in Nat /\ e[2] \in DOMAIN ins[e[1]]

LEMMA ReadersMoved ==
  ASSUME NEW ins, NEW J, NEW A, NEW d, Moved(ins, J, A, d), IsSlots(A, ins), NEW m
  PROVE  /\ m = d => Readers(J, m) = Readers(ins, m) \cup A
         /\ m # d => Readers(J, m) = Readers(ins, m) \ A
<1>0. ASSUME NEW k, NEW j
      PROVE  <<k, j>> \in Readers(J, m) <=> k \in DOMAIN ins /\ j \in Nat /\ j \in DOMAIN ins[k] /\ J[k][j] = m
  <2>1. <<k, j>> \in Readers(J, m) <=> k \in DOMAIN J /\ j \in Nat /\ j \in DOMAIN J[k] /\ J[k][j] = m
    BY ReaderIs
  <2> QED
    BY <2>1 DEF Moved
<1>1. \A k, j : <<k, j>> \in Readers(J, m) <=>
        k \in DOMAIN ins /\ j \in Nat /\ j \in DOMAIN ins[k] /\ (IF <<k, j>> \in A THEN d ELSE ins[k][j]) = m
  BY <1>0 DEF Moved
<1>2. \A k, j : <<k, j>> \in Readers(ins, m) <=>
        k \in DOMAIN ins /\ j \in Nat /\ j \in DOMAIN ins[k] /\ ins[k][j] = m
  BY ReaderIs, ZenonT(60)
<1>3. \A k, j : <<k, j>> \in A => k \in DOMAIN ins /\ j \in Nat /\ j \in DOMAIN ins[k]
  BY DEF IsSlots
<1>4. \A e \in Readers(J, m) \cup Readers(ins, m) \cup A : e = <<e[1], e[2]>>
  BY ReaderIsSlot DEF IsSlots
<1>5. \A k, j : <<k, j>> \in Readers(J, m) <=>
        (m = d /\ <<k, j>> \in A) \/ (<<k, j>> \notin A /\ <<k, j>> \in Readers(ins, m))
  BY <1>1, <1>2, <1>3
<1>6. CASE m = d
  <2>1. \A k, j : <<k, j>> \in Readers(J, m) <=> <<k, j>> \in Readers(ins, m) \cup A
    BY <1>1, <1>2, <1>3, <1>5, <1>6
  <2>2. \A e : e \in Readers(J, m) <=> e \in Readers(ins, m) \cup A
    BY <1>4, <2>1
  <2> QED
    BY <1>6, <2>2
<1>7. CASE m # d
  <2>1. \A k, j : <<k, j>> \in Readers(J, m) <=> <<k, j>> \in (Readers(ins, m) \ A)
    BY <1>5, <1>7
  <2>2. \A e : e \in Readers(J, m) <=> e \in (Readers(ins, m) \ A)
    BY <1>4, <2>1
  <2> QED
    BY <1>7, <2>2
<1> QED
  BY <1>6, <1>7

LEMMA WiredMoved ==
  ASSUME NEW L, NEW ins, NEW outs, Wired(L, ins, outs),
         NEW A, NEW d \in L \cup {None}, NEW J, Moved(ins, J, A, d), IsSlots(A, ins),
         \A k \in L : J[k] = [j \in DOMAIN ins[k] |-> J[k][j]],
         NEW O, DOMAIN O = L,
         \A m \in L : /\ m = d => Lists(O[m], Readers(ins, m) \cup A)
                      /\ m # d => Lists(O[m], Readers(ins, m) \ A)
  PROVE  Wired(L, J, O)
<1>1. DOMAIN J = L
  BY DEF Wired, Moved
<1>2. ASSUME NEW l \in L PROVE \E n \in Nat : J[l] \in [1 .. n -> L \cup {None}]
  <2>1. PICK n \in Nat : ins[l] \in [1 .. n -> L \cup {None}]
    BY DEF Wired
  <2>2. DOMAIN ins[l] = 1 .. n /\ l \in DOMAIN ins
    BY <2>1 DEF Wired
  <2>3. \A j \in 1 .. n : J[l][j] \in L \cup {None}
    BY <2>1, <2>2 DEF Moved
  <2>4. J[l] = [j \in 1 .. n |-> J[l][j]]
    BY <2>2
  <2>5. J[l] \in [1 .. n -> L \cup {None}]
    BY ONLY <2>3, <2>4
  <2> QED
    BY <2>5
<1>3. ASSUME NEW m \in L PROVE Lists(O[m], Readers(J, m))
  <2>1. /\ m = d => Readers(J, m) = Readers(ins, m) \cup A
        /\ m # d => Readers(J, m) = Readers(ins, m) \ A
    BY ReadersMoved
  <2> QED
    BY <2>1
<1> QED
  BY <1>1, <1>2, <1>3 DEF Wired

LEMMA WiredConnect ==
  ASSUME NEW L, NEW ins, NEW outs, Wired(L, ins, outs), None \notin L,
         NEW l \in L, NEW i \in DOMAIN ins[l], ins[l][i] = None, NEW s \in L
  PROVE  /\ Wired(L, [ins EXCEPT ![l][i] = s], [outs EXCEPT ![s] = Append(@, <<l, i>>)])
         /\ Moved(ins, [ins EXCEPT ![l][i] = s], {<<l, i>>}, s)
<1>1. PICK J : J = [ins EXCEPT ![l][i] = s]
  OBVIOUS
<1>2. PICK O : O = [outs EXCEPT ![s] = Append(outs[s], <<l, i>>)]
  OBVIOUS
<1>3. DOMAIN ins = L /\ DOMAIN outs = L /\ \A m \in L : Lists(outs[m], Readers(ins, m))
  BY DEF Wired
<1>4. PICK n \in Nat : ins[l] \in [1 .. n -> L \cup {None}]
  BY DEF Wired
<1>5. i \in Nat /\ DOMAIN ins[l] = 1 .. n
  BY <1>4
<1>6. Moved(ins, J, {<<l, i>>}, s) /\ \A k \in L : J[k] = [j \in DOMAIN ins[k] |-> J[k][j]]
  <2>1. DOMAIN J = L /\ (\A m \in L : m # l => J[m] = ins[m]) /\ J[l] = [ins[l] EXCEPT ![i] = s]
    BY <1>1, <1>3
  <2>2. \A k \in L : \E x \in Nat : ins[k] \in [1 .. x -> L \cup {None}]
    BY DEF Wired
  <2>3. \A k \in L : ins[k] = [j \in DOMAIN ins[k] |-> ins[k][j]]
    BY <2>2
  <2>4. \A k \in L : DOMAIN J[k] = DOMAIN ins[k] /\ J[k] = [j \in DOMAIN ins[k] |-> J[k][j]]
    BY <2>1, <2>3, ZenonT(60)
  <2>5. ASSUME NEW k \in L, NEW j \in DOMAIN ins[k]
        PROVE  J[k][j] = IF <<k, j>> \in {<<l, i>>} THEN s ELSE ins[k][j]
    BY <2>1
  <2> QED
    BY <1>3, <2>1, <2>4, <2>5 DEF Moved
<1>7. IsSlots({<<l, i>>}, ins)
  BY <1>3, <1>5 DEF IsSlots
<1>8. ASSUME NEW m \in L
      PROVE  /\ m = s => Lists(O[m], Readers(ins, m) \cup {<<l, i>>})
             /\ m # s => Lists(O[m], Readers(ins, m) \ {<<l, i>>})
  <2>1. <<l, i>> \notin Readers(ins, m)
    BY ReaderIs
  <2>2. CASE m = s
    <3>1. Lists(Append(outs[s], <<l, i>>), Readers(ins, s) \cup {<<l, i>>})
      BY <1>3, <2>1, <2>2, ListsAppend
    <3> QED
      BY <1>2, <1>3, <2>2, <3>1
  <2>3. CASE m # s
    <3>1. O[m] = outs[m] /\ Readers(ins, m) \ {<<l, i>>} = Readers(ins, m)
      BY <1>2, <1>3, <2>1, <2>3
    <3> QED
      BY <1>3, <2>3, <3>1
  <2> QED
    BY <2>2, <2>3
<1>9. DOMAIN O = L /\ s \in L \cup {None}
  BY <1>2, <1>3
<1>10. Wired(L, J, O)
  BY <1>6, <1>7, <1>8, <1>9, WiredMoved
<1> QED
  BY <1>1, <1>2, <1>6, <1>10

LEMMA WiredDisconnect ==
  ASSUME NEW L, NEW ins, NEW outs, Wired(L, ins, outs), None \notin L,
         NEW l \in L, NEW i \in DOMAIN ins[l], NEW s \in L, ins[l][i] = s
  PROVE  /\ Wired(L, [ins EXCEPT ![l][i] = None], [outs EXCEPT ![s] = Without(@, {<<l, i>>})])
         /\ Moved(ins, [ins EXCEPT ![l][i] = None], {<<l, i>>}, None)
<1>1. PICK J : J = [ins EXCEPT ![l][i] = None]
  OBVIOUS
<1>2. PICK O : O = [outs EXCEPT ![s] = Without(outs[s], {<<l, i>>})]
  OBVIOUS
<1>3. DOMAIN ins = L /\ DOMAIN outs = L /\ \A m \in L : Lists(outs[m], Readers(ins, m))
  BY DEF Wired
<1>4. PICK n \in Nat : ins[l] \in [1 .. n -> L \cup {None}]
  BY DEF Wired
<1>5. i \in Nat /\ DOMAIN ins[l] = 1 .. n
  BY <1>4
<1>6. Moved(ins, J, {<<l, i>>}, None) /\ \A k \in L : J[k] = [j \in DOMAIN ins[k] |-> J[k][j]]
  <2>1. DOMAIN J = L /\ (\A m \in L : m # l => J[m] = ins[m]) /\ J[l] = [ins[l] EXCEPT ![i] = None]
    BY <1>1, <1>3
  <2>2. \A k \in L : \E x \in Nat : ins[k] \in [1 .. x -> L \cup {None}]
    BY DEF Wired
  <2>3. \A k \in L : ins[k] = [j \in DOMAIN ins[k] |-> ins[k][j]]
    BY <2>2
  <2>4. \A k \in L : DOMAIN J[k] = DOMAIN ins[k] /\ J[k] = [j \in DOMAIN ins[k] |-> J[k][j]]
    BY <2>1, <2>3, ZenonT(60)
  <2>5. ASSUME NEW k \in L, NEW j \in DOMAIN ins[k]
        PROVE  J[k][j] = IF <<k, j>> \in {<<l, i>>} THEN None ELSE ins[k][j]
    BY <2>1
  <2> QED
    BY <1>3, <2>1, <2>4, <2>5 DEF Moved
<1>7. IsSlots({<<l, i>>}, ins)
  BY <1>3, <1>5 DEF IsSlots
<1>8. ASSUME NEW m \in L
      PROVE  /\ m = None => Lists(O[m], Readers(ins, m) \cup {<<l, i>>})
             /\ m # None => Lists(O[m], Readers(ins, m) \ {<<l, i>>})
  <2>1. CASE m = s
    <3>1. Lists(Without(outs[s], {<<l, i>>}), Readers(ins, s) \ {<<l, i>>})
      BY <1>3, ListsWithout
    <3> QED
      BY <1>2, <1>3, <2>1, <3>1
  <2>2. CASE m # s
    <3>1. <<l, i>> \notin Readers(ins, m)
      BY <2>2, ReaderIs
    <3>2. O[m] = outs[m] /\ Readers(ins, m) \ {<<l, i>>} = Readers(ins, m)
      BY <1>2, <1>3, <2>2, <3>1
    <3> QED
      BY <1>3, <3>2
  <2> QED
    BY <2>1, <2>2
<1>9. DOMAIN O = L /\ None \in L \cup {None}
  BY <1>2, <1>3
<1>10. Wired(L, J, O)
  BY <1>6, <1>7, <1>8, <1>9, WiredMoved
<1> QED
  BY <1>1, <1>2, <1>6, <1>10

----------------------------------------------------------------------------
(* What the operations on connections keep.                                *)

IsRecord(g) ==
  g = [order |-> g.order, inOrder |-> g.inOrder, kind |-> g.kind, param |-> g.param,
       info |-> g.info, ins |-> g.ins, outs |-> g.outs, prio |-> g.prio, backend |-> g.backend]

Linked(g) ==
  /\ IsRecord(g)
  /\ \E k \in Nat : LayersOf(g) \subseteq 1 .. k
  /\ Wired(LayersOf(g), g.ins, g.outs)
  /\ Lists(g.order, LayersOf(g))

LEMMA LinkedIs ==
  ASSUME NEW g, Linked(g)
  PROVE  /\ None \notin LayersOf(g) /\ DOMAIN g.ins = LayersOf(g) /\ DOMAIN g.outs = LayersOf(g)
         /\ \A l \in LayersOf(g) : l \in Nat
         /\ \A l \in LayersOf(g) : \E n \in Nat : g.ins[l] \in [1 .. n -> LayersOf(g) \cup {None}]
         /\ \A l \in LayersOf(g) : \A i \in DOMAIN g.ins[l] : i \in Nat
         /\ \A l \in LayersOf(g) : Lists(g.outs[l], Readers(g.ins, l))
         /\ \A l \in LayersOf(g) : ToSet(g.outs[l]) = Readers(g.ins, l)
BY ListsToSet DEF Linked, Wired, None

(* A graph with other links.                                               *)
Relinked(h, g, ins, outs) ==
  h = [order |-> g.order, inOrder |-> g.inOrder, kind |-> g.kind, param |-> g.param,
       info |-> g.info, ins |-> ins, outs |-> outs, prio |-> g.prio, backend |-> g.backend]

LEMMA LinkedRelinked ==
  ASSUME NEW g, Linked(g), NEW J, NEW O, Wired(LayersOf(g), J, O), NEW h, Relinked(h, g, J, O)
  PROVE  Linked(h) /\ h.kind = g.kind /\ h.order = g.order /\ h.inOrder = g.inOrder /\ h.ins = J /\ h.outs = O
<1>1. h.kind = g.kind /\ h.order = g.order /\ h.inOrder = g.inOrder /\ h.ins = J /\ h.outs = O /\ IsRecord(h)
  BY DEF Relinked, IsRecord
<1> QED
  BY <1>1, Zenon DEF Linked, LayersOf

LEMMA ConnectIs ==
  ASSUME NEW g, IsRecord(g), NEW s, NEW e
  PROVE  Relinked(Connect(g, s, e), g, [g.ins EXCEPT ![e[1]][e[2]] = s], [g.outs EXCEPT ![s] = Append(@, e)])
<1>1. PICK x : x = [order |-> g.order, inOrder |-> g.inOrder, kind |-> g.kind, param |-> g.param,
                    info |-> g.info, ins |-> g.ins, outs |-> g.outs, prio |-> g.prio, backend |-> g.backend]
  OBVIOUS
<1>2. x = g
  BY <1>1 DEF IsRecord
<1>3. PICK h : h = Connect(g, s, e)
  OBVIOUS
<1>4. h = [[order |-> g.order, inOrder |-> g.inOrder, kind |-> g.kind, param |-> g.param,
            info |-> g.info, ins |-> g.ins, outs |-> g.outs, prio |-> g.prio, backend |-> g.backend]
             EXCEPT !.ins[e[1]][e[2]] = s, !.outs[s] = Append(@, e)]
  BY <1>1, <1>2, <1>3, Zenon DEF Connect
<1>5. Relinked(h, g, [g.ins EXCEPT ![e[1]][e[2]] = s], [g.outs EXCEPT ![s] = Append(@, e)])
  BY ONLY <1>4 DEF Relinked
<1> QED
  BY <1>3, <1>5

LEMMA DisconnectIs ==
  ASSUME NEW g, IsRecord(g), NEW s, NEW e
  PROVE  Relinked(Disconnect(g, s, e), g,
           [g.ins EXCEPT ![e[1]][e[2]] = None],
           [g.outs EXCEPT ![s] = Without(@, {e})])
<1>1. PICK x : x = [order |-> g.order, inOrder |-> g.inOrder, kind |-> g.kind, param |-> g.param,
                    info |-> g.info, ins |-> g.ins, outs |-> g.outs, prio |-> g.prio, backend |-> g.backend]
  OBVIOUS
<1>2. x = g
  BY <1>1 DEF IsRecord
<1>3. PICK h : h = Disconnect(g, s, e)
  OBVIOUS
<1>4. h = [[order |-> g.order, inOrder |-> g.inOrder, kind |-> g.kind, param |-> g.param,
                    info |-> g.info, ins |-> g.ins, outs |-> g.outs, prio |-> g.prio, backend |-> g.backend]
             EXCEPT !.ins[e[1]][e[2]] = None, !.outs[s] = Without(@, {e})]
  BY <1>1, <1>2, <1>3, Zenon DEF Disconnect
<1>5. Relinked(h, g,
           [g.ins EXCEPT ![e[1]][e[2]] = None],
           [g.outs EXCEPT ![s] = Without(@, {e})])
  BY ONLY <1>4 DEF Relinked
<1> QED
  BY <1>3, <1>5

LEMMA MoveAllConnectionsIs ==
  ASSUME NEW g, IsRecord(g), NEW s, NEW d
  PROVE  Relinked(MoveAllConnections(g, s, d), g,
           [l \in LayersOf(g) |-> [i \in DOMAIN g.ins[l] |->
             IF <<l, i>> \in ToSet(g.outs[s]) THEN d ELSE g.ins[l][i]]],
           [g.outs EXCEPT ![d] = @ \o g.outs[s], ![s] = <<>>])
<1>1. PICK x : x = [order |-> g.order, inOrder |-> g.inOrder, kind |-> g.kind, param |-> g.param,
                    info |-> g.info, ins |-> g.ins, outs |-> g.outs, prio |-> g.prio, backend |-> g.backend]
  OBVIOUS
<1>2. x = g
  BY <1>1 DEF IsRecord
<1>3. PICK h : h = MoveAllConnections(g, s, d)
  OBVIOUS
<1>4. h = [[order |-> g.order, inOrder |-> g.inOrder, kind |-> g.kind, param |-> g.param,
                    info |-> g.info, ins |-> g.ins, outs |-> g.outs, prio |-> g.prio, backend |-> g.backend]
             EXCEPT !.ins = [l \in LayersOf(g) |-> [i \in DOMAIN g.ins[l] |->
             IF <<l, i>> \in ToSet(g.outs[s]) THEN d ELSE g.ins[l][i]]], !.outs[d] = @ \o g.outs[s], !.outs[s] = <<>>]
  BY <1>1, <1>2, <1>3, Zenon DEF MoveAllConnections
<1>5. Relinked(h, g,
           [l \in LayersOf(g) |-> [i \in DOMAIN g.ins[l] |->
             IF <<l, i>> \in ToSet(g.outs[s]) THEN d ELSE g.ins[l][i]]],
           [g.outs EXCEPT ![d] = @ \o g.outs[s], ![s] = <<>>])
  BY ONLY <1>4 DEF Relinked
<1> QED
  BY <1>3, <1>5

LEMMA DisconnectAllIs ==
  ASSUME NEW g, IsRecord(g), NEW S
  PROVE  Relinked(DisconnectAll(g, S), g,
           [l \in LayersOf(g) |-> [i \in DOMAIN g.ins[l] |->
             IF <<l, i>> \in S THEN None ELSE g.ins[l][i]]],
           [l \in LayersOf(g) |-> Without(g.outs[l], S)])
<1>1. PICK x : x = [order |-> g.order, inOrder |-> g.inOrder, kind |-> g.kind, param |-> g.param,
                    info |-> g.info, ins |-> g.ins, outs |-> g.outs, prio |-> g.prio, backend |-> g.backend]
  OBVIOUS
<1>2. x = g
  BY <1>1 DEF IsRecord
<1>3. PICK h : h = DisconnectAll(g, S)
  OBVIOUS
<1>4. h = [[order |-> g.order, inOrder |-> g.inOrder, kind |-> g.kind, param |-> g.param,
                    info |-> g.info, ins |-> g.ins, outs |-> g.outs, prio |-> g.prio, backend |-> g.backend]
             EXCEPT !.ins = [l \in LayersOf(g) |-> [i \in DOMAIN g.ins[l] |->
             IF <<l, i>> \in S THEN None ELSE g.ins[l][i]]], !.outs = [l \in LayersOf(g) |-> Without(g.outs[l], S)]]
  BY <1>1, <1>2, <1>3, Zenon DEF DisconnectAll
<1>5. Relinked(h, g,
           [l \in LayersOf(g) |-> [i \in DOMAIN g.ins[l] |->
             IF <<l, i>> \in S THEN None ELSE g.ins[l][i]]],
           [l \in LayersOf(g) |-> Without(g.outs[l], S)])
  BY ONLY <1>4 DEF Relinked
<1> QED
  BY <1>3, <1>5

LEMMA LinkedConnect ==
  ASSUME NEW g, Linked(g), NEW l \in LayersOf(g), NEW i \in DOMAIN g.ins[l], g.ins[l][i] = None,
         NEW s \in LayersOf(g), NEW h, h = Connect(g, s, <<l, i>>)
  PROVE  /\ Linked(h) /\ h.kind = g.kind /\ h.order = g.order /\ h.inOrder = g.inOrder
         /\ Moved(g.ins, h.ins, {<<l, i>>}, s)
<1> DEFINE e == <<l, i>>
           J == [g.ins EXCEPT ![l][i] = s]
           O == [g.outs EXCEPT ![s] = Append(@, <<l, i>>)]
<1>1. Wired(LayersOf(g), J, O) /\ Moved(g.ins, J, {<<l, i>>}, s)
  BY LinkedIs, WiredConnect DEF Linked
<1>2. Relinked(h, g, [g.ins EXCEPT ![e[1]][e[2]] = s], [g.outs EXCEPT ![s] = Append(@, e)])
  BY ConnectIs DEF Linked
<1>3. e[1] = l /\ e[2] = i
  OBVIOUS
<1>4. Relinked(h, g, J, O)
  BY <1>2, <1>3
<1> HIDE DEF J, O
<1> QED
  BY <1>1, <1>4, LinkedRelinked

LEMMA LinkedDisconnect ==
  ASSUME NEW g, Linked(g), NEW s \in LayersOf(g), NEW l \in LayersOf(g), NEW i \in DOMAIN g.ins[l],
         g.ins[l][i] = s, NEW h, h = Disconnect(g, s, <<l, i>>)
  PROVE  /\ Linked(h) /\ h.kind = g.kind /\ h.order = g.order /\ h.inOrder = g.inOrder
         /\ Moved(g.ins, h.ins, {<<l, i>>}, None)
<1> DEFINE e == <<l, i>>
           J == [g.ins EXCEPT ![l][i] = None]
           O == [g.outs EXCEPT ![s] = Without(@, {<<l, i>>})]
<1>1. Wired(LayersOf(g), J, O) /\ Moved(g.ins, J, {<<l, i>>}, None)
  BY LinkedIs, WiredDisconnect DEF Linked
<1>2. Relinked(h, g, [g.ins EXCEPT ![e[1]][e[2]] = None], [g.outs EXCEPT ![s] = Without(@, {e})])
  BY DisconnectIs DEF Linked
<1>3. e[1] = l /\ e[2] = i
  OBVIOUS
<1>4. Relinked(h, g, J, O)
  BY <1>2, <1>3
<1> HIDE DEF J, O
<1> QED
  BY <1>1, <1>4, LinkedRelinked

LEMMA LinkedMoveAll ==
  ASSUME NEW g, Linked(g), NEW s \in LayersOf(g), NEW d \in LayersOf(g), s # d,
         NEW h, h = MoveAllConnections(g, s, d)
  PROVE  /\ Linked(h) /\ h.kind = g.kind /\ h.order = g.order /\ h.inOrder = g.inOrder
         /\ Moved(g.ins, h.ins, Readers(g.ins, s), d)
<1>1. PICK L : L = LayersOf(g)
  OBVIOUS
<1>2. PICK R : R = Readers(g.ins, s)
  OBVIOUS
<1>3. R = ToSet(g.outs[s])
  BY <1>2, LinkedIs
<1>4. PICK J : J = [l \in L |-> [i \in DOMAIN g.ins[l] |-> IF <<l, i>> \in R THEN d ELSE g.ins[l][i]]]
  OBVIOUS
<1>5. PICK O : O = [g.outs EXCEPT ![d] = g.outs[d] \o g.outs[s], ![s] = <<>>]
  OBVIOUS
<1>6. Relinked(h, g, J, O)
  BY <1>1, <1>3, <1>4, <1>5, MoveAllConnectionsIs DEF Linked
<1>7. DOMAIN g.ins = L /\ DOMAIN g.outs = L /\ \A m \in L : Lists(g.outs[m], Readers(g.ins, m))
  BY <1>1, LinkedIs
<1>8. Moved(g.ins, J, R, d) /\ \A k \in L : J[k] = [j \in DOMAIN g.ins[k] |-> J[k][j]]
  BY <1>4, <1>7 DEF Moved
<1>9. IsSlots(R, g.ins)
  BY <1>2, ReaderIsSlot DEF IsSlots
<1>10. ASSUME NEW m \in L
       PROVE  /\ m = d => Lists(O[m], Readers(g.ins, m) \cup R)
              /\ m # d => Lists(O[m], Readers(g.ins, m) \ R)
  <2>1. m # s => Readers(g.ins, m) \cap R = {}
    BY <1>2, ReaderIsSlot
  <2>2. CASE m = d
    <3>1. Lists(g.outs[d] \o g.outs[s], Readers(g.ins, d) \cup R)
      BY <1>1, <1>2, <1>7, <2>1, <2>2, ListsConcat
    <3> QED
      BY <1>1, <1>5, <1>7, <2>2, <3>1
  <2>3. CASE m = s
    <3>1. Lists(<<>>, {})
      BY DEF Lists
    <3> QED
      BY <1>1, <1>2, <1>5, <1>7, <2>3, <3>1
  <2>4. CASE m # s /\ m # d
    <3>1. O[m] = g.outs[m] /\ Readers(g.ins, m) \ R = Readers(g.ins, m)
      BY <1>5, <1>7, <2>1, <2>4
    <3> QED
      BY <1>7, <2>4, <3>1
  <2> QED
    BY <2>2, <2>3, <2>4
<1>11. DOMAIN O = L /\ d \in L \cup {None} /\ Wired(L, g.ins, g.outs)
  BY <1>1, <1>5, <1>7 DEF Linked
<1>12. Wired(L, J, O)
  BY <1>8, <1>9, <1>10, <1>11, WiredMoved
<1> QED
  BY <1>1, <1>2, <1>6, <1>8, <1>12, LinkedRelinked

LEMMA LinkedDisconnectAll ==
  ASSUME NEW g, Linked(g), NEW S, IsSlots(S, g.ins), NEW h, h = DisconnectAll(g, S)
  PROVE  /\ Linked(h) /\ IsRecord(h) /\ h.kind = g.kind /\ h.order = g.order /\ h.inOrder = g.inOrder
         /\ Moved(g.ins, h.ins, S, None)
<1>1. PICK L : L = LayersOf(g)
  OBVIOUS
<1>4. PICK J : J = [l \in L |-> [i \in DOMAIN g.ins[l] |-> IF <<l, i>> \in S THEN None ELSE g.ins[l][i]]]
  OBVIOUS
<1>5. PICK O : O = [l \in L |-> Without(g.outs[l], S)]
  OBVIOUS
<1>6. Relinked(h, g, J, O)
  BY <1>1, <1>4, <1>5, DisconnectAllIs DEF Linked
<1>7. DOMAIN g.ins = L /\ DOMAIN g.outs = L /\ \A m \in L : Lists(g.outs[m], Readers(g.ins, m))
  BY <1>1, LinkedIs
<1>8. Moved(g.ins, J, S, None) /\ \A k \in L : J[k] = [j \in DOMAIN g.ins[k] |-> J[k][j]]
  BY <1>4, <1>7 DEF Moved
<1>10. ASSUME NEW m \in L
       PROVE  /\ m = None => Lists(O[m], Readers(g.ins, m) \cup S)
              /\ m # None => Lists(O[m], Readers(g.ins, m) \ S)
  <2>1. m # None
    BY <1>1, LinkedIs
  <2>2. Lists(Without(g.outs[m], S), Readers(g.ins, m) \ S)
    BY <1>7, ListsWithout
  <2> QED
    BY <1>5, <2>1, <2>2
<1>11. DOMAIN O = L /\ None \in L \cup {None} /\ Wired(L, g.ins, g.outs)
  BY <1>1, <1>5 DEF Linked
<1>12. Wired(L, J, O)
  BY <1>8, <1>10, <1>11, WiredMoved
<1>13. Linked(h) /\ h.kind = g.kind /\ h.order = g.order /\ h.inOrder = g.inOrder /\ h.ins = J
  BY <1>1, <1>6, <1>12, LinkedRelinked
<1> QED
  BY <1>8, <1>13 DEF Linked

----------------------------------------------------------------------------
(* Erasing a layer, and adding one.                                        *)

(* Field by field, the graph a layer is erased from.                       *)
Erased(h, g, l) ==
  /\ h.kind = [m \in LayersOf(g) \ {l} |-> g.kind[m]]
  /\ LayersOf(h) = LayersOf(g) \ {l}
  /\ DOMAIN h.ins = LayersOf(h)
  /\ \A m \in LayersOf(h) : DOMAIN h.ins[m] = DOMAIN g.ins[m]
  /\ \A m \in LayersOf(h) : \A i \in DOMAIN g.ins[m] :
       h.ins[m][i] = IF g.ins[m][i] = l THEN None ELSE g.ins[m][i]
  /\ h.order = Without(g.order, {l}) /\ h.inOrder = g.inOrder

LEMMA LinkedErase ==
  ASSUME NEW g, Linked(g), NEW l \in LayersOf(g), NEW u, u = EraseLayer(g, l)
  PROVE  Linked(u) /\ Erased(u, g, l)
<1> DEFINE S == ToSet(g.outs[l]) \cup {<<l, i>> : i \in DOMAIN g.ins[l]}
           h == DisconnectAll(g, S)
<1>1. PICK L : L = LayersOf(g) \ {l}
  OBVIOUS
<1>2. ToSet(g.outs[l]) = Readers(g.ins, l) /\ l \in DOMAIN g.ins /\ l # None
      /\ \A i \in DOMAIN g.ins[l] : i \in Nat
  BY LinkedIs
<1>3. IsSlots(S, g.ins)
  <2>1. \A e \in ToSet(g.outs[l]) : e = <<e[1], e[2]>> /\ e[1] \in DOMAIN g.ins /\ e[2] \in Nat /\ e[2] \in DOMAIN g.ins[e[1]]
    BY <1>2, ReaderIsSlot
  <2>2. \A i \in DOMAIN g.ins[l] : <<l, i>>[1] = l /\ <<l, i>>[2] = i
    OBVIOUS
  <2> QED
    BY <1>2, <2>1, <2>2 DEF IsSlots
<1>4. Linked(h) /\ h.kind = g.kind /\ h.order = g.order /\ h.inOrder = g.inOrder /\ Moved(g.ins, h.ins, S, None)
  BY <1>3, LinkedDisconnectAll
<1>5. PICK J, O : J = [m \in DOMAIN h.ins \ {l} |-> h.ins[m]] /\ O = [m \in DOMAIN h.outs \ {l} |-> h.outs[m]]
  OBVIOUS
<1>6. u = [order |-> Without(h.order, {l}), inOrder |-> h.inOrder,
           kind |-> [m \in DOMAIN h.kind \ {l} |-> h.kind[m]], param |-> [m \in DOMAIN h.param \ {l} |-> h.param[m]],
           info |-> [m \in DOMAIN h.info \ {l} |-> h.info[m]],
           ins |-> J, outs |-> O, prio |-> [m \in DOMAIN h.prio \ {l} |-> h.prio[m]],
           backend |-> [m \in DOMAIN h.backend \ {l} |-> h.backend[m]]]
  BY <1>5 DEF EraseLayer
<1> HIDE DEF h
<1>7. /\ IsRecord(u) /\ u.ins = J /\ u.outs = O /\ u.kind = [m \in L |-> g.kind[m]]
      /\ u.order = Without(g.order, {l}) /\ u.inOrder = g.inOrder
  <2>1. DOMAIN h.kind \ {l} = L
    BY <1>1, <1>4 DEF LayersOf
  <2> QED
    BY <1>4, <1>6, <2>1 DEF IsRecord
<1>8. LayersOf(u) = L
  BY <1>7 DEF LayersOf
<1>9. LayersOf(h) = LayersOf(g)
  BY <1>4 DEF LayersOf
<1>10. DOMAIN h.ins = LayersOf(g) /\ DOMAIN h.outs = LayersOf(g)
       /\ \A m \in LayersOf(g) : Lists(h.outs[m], Readers(h.ins, m))
  BY <1>4, <1>9, LinkedIs
<1>11. DOMAIN J = L /\ DOMAIN O = L /\ \A m \in L : J[m] = h.ins[m] /\ O[m] = h.outs[m]
  BY <1>1, <1>5, <1>10
<1>12. ASSUME NEW m \in L, NEW i \in DOMAIN g.ins[m]
       PROVE  DOMAIN J[m] = DOMAIN g.ins[m] /\ J[m][i] = IF g.ins[m][i] = l THEN None ELSE g.ins[m][i]
  <2>1. m \in LayersOf(g) /\ m # l /\ i \in Nat /\ m \in DOMAIN g.ins
    BY <1>1, LinkedIs
  <2>2. <<m, i>> \in S <=> <<m, i>> \in Readers(g.ins, l)
    BY <1>2, <2>1
  <2>3. <<m, i>> \in Readers(g.ins, l) <=> g.ins[m][i] = l
    BY <2>1, ReaderIs
  <2>4. DOMAIN h.ins[m] = DOMAIN g.ins[m] /\ h.ins[m][i] = IF <<m, i>> \in S THEN None ELSE g.ins[m][i]
    BY <1>4, <2>1 DEF Moved
  <2> QED
    BY <1>11, <2>2, <2>3, <2>4
<1>13. ASSUME NEW m \in L PROVE DOMAIN J[m] = DOMAIN g.ins[m]
  BY <1>1, <1>4, <1>11, LinkedIs DEF Moved
<1>14. ASSUME NEW m \in L PROVE \E n \in Nat : J[m] \in [1 .. n -> L \cup {None}]
  <2>1. PICK n \in Nat : h.ins[m] \in [1 .. n -> LayersOf(g) \cup {None}]
    BY <1>1, <1>4, <1>9, LinkedIs
  <2>2. \A i \in 1 .. n : h.ins[m][i] # l
    BY <1>2, <1>11, <1>12, <1>13, <2>1
  <2>3. h.ins[m] \in [1 .. n -> L \cup {None}]
    BY <1>1, <2>1, <2>2
  <2> QED
    BY <1>11, <2>3
<1>15. ASSUME NEW m \in L PROVE Lists(O[m], Readers(J, m))
  <2>1. m \in LayersOf(g) /\ m # l /\ m # None
    BY <1>1, LinkedIs
  <2>2. \A i \in DOMAIN h.ins[l] : h.ins[l][i] # m
    <3>1. \A i \in DOMAIN g.ins[l] : <<l, i>> \in S
      OBVIOUS
    <3>2. DOMAIN h.ins[l] = DOMAIN g.ins[l] /\ \A i \in DOMAIN g.ins[l] : h.ins[l][i] = None
      BY <1>2, <1>4, <3>1 DEF Moved
    <3> QED
      BY <2>1, <3>2
  <2>3. \A k, j : <<k, j>> \in Readers(J, m) <=> <<k, j>> \in Readers(h.ins, m)
    <3> TAKE k, j
    <3>1. <<k, j>> \in Readers(J, m) <=> k \in L /\ j \in Nat /\ j \in DOMAIN J[k] /\ J[k][j] = m
      BY <1>11, ReaderIs
    <3>2. <<k, j>> \in Readers(h.ins, m) <=> k \in LayersOf(g) /\ j \in Nat /\ j \in DOMAIN h.ins[k] /\ h.ins[k][j] = m
      BY <1>10, ReaderIs
    <3> QED
      BY <1>1, <1>11, <2>2, <3>1, <3>2
  <2>5. Readers(J, m) = Readers(h.ins, m)
    BY <2>3, ReadersEqual
  <2> QED
    BY <1>10, <1>11, <2>1, <2>5
<1>16. Wired(L, J, O)
  BY <1>11, <1>14, <1>15 DEF Wired
<1>17. Lists(Without(g.order, {l}), L)
  BY <1>1, ListsWithout DEF Linked
<1>18. \E k \in Nat : L \subseteq 1 .. k
  BY <1>1 DEF Linked
<1>19. Linked(u)
  BY <1>7, <1>8, <1>16, <1>17, <1>18 DEF Linked
<1>20. Erased(u, g, l)
  <2>1. \A m \in L : DOMAIN J[m] = DOMAIN g.ins[m]
    BY <1>13
  <2>2. \A m \in L : \A i \in DOMAIN g.ins[m] : J[m][i] = IF g.ins[m][i] = l THEN None ELSE g.ins[m][i]
    BY <1>12
  <2> QED
    BY <1>1, <1>7, <1>8, <1>11, <2>1, <2>2 DEF Erased
<1> QED
  BY <1>19, <1>20

(* Field by field, the graph with a new layer.                             *)
Added(h, g, n, pos, kind, numInputs) ==
  /\ h.kind = [m \in LayersOf(g) \cup {n} |-> IF m = n THEN kind ELSE g.kind[m]]
  /\ LayersOf(h) = LayersOf(g) \cup {n}
  /\ DOMAIN h.ins = LayersOf(h)
  /\ \A m \in LayersOf(g) : h.ins[m] = g.ins[m]
  /\ h.ins[n] = [i \in 1 .. numInputs |-> None]
  /\ h.order = InsertAt(g.order, pos, n) /\ h.inOrder = g.inOrder

LEMMA LinkedNewLayer ==
  ASSUME NEW g, Linked(g), NEW n \in Nat, n # None, n \notin LayersOf(g), NEW pos \in 1 .. Len(g.order) + 1,
         NEW kind, NEW param, NEW numInputs \in Nat, NEW h, h = NewLayer(g, n, pos, kind, param, numInputs)
  PROVE  Linked(h) /\ Added(h, g, n, pos, kind, numInputs)
<1>1. PICK L : L = LayersOf(g) \cup {n}
  OBVIOUS
<1>2. PICK J : J = [m \in DOMAIN g.ins \cup {n} |-> IF m = n THEN [i \in 1 .. numInputs |-> None] ELSE g.ins[m]]
  OBVIOUS
<1>3. PICK O : O = [m \in DOMAIN g.outs \cup {n} |-> IF m = n THEN <<>> ELSE g.outs[m]]
  OBVIOUS
<1>4. h = [order |-> InsertAt(g.order, pos, n), inOrder |-> g.inOrder,
           kind |-> [m \in DOMAIN g.kind \cup {n} |-> IF m = n THEN kind ELSE g.kind[m]],
           param |-> [m \in DOMAIN g.param \cup {n} |-> IF m = n THEN param ELSE g.param[m]],
           info |-> [m \in DOMAIN g.info \cup {n} |-> IF m = n THEN <<>> ELSE g.info[m]],
           ins |-> J, outs |-> O,
           prio |-> [m \in DOMAIN g.prio \cup {n} |-> IF m = n THEN 0 ELSE g.prio[m]],
           backend |-> [m \in DOMAIN g.backend \cup {n} |-> IF m = n THEN "Undefined" ELSE g.backend[m]]]
  BY <1>2, <1>3 DEF NewLayer
<1>5. IsRecord(h) /\ h.ins = J /\ h.outs = O /\ h.order = InsertAt(g.order, pos, n) /\ h.inOrder = g.inOrder
      /\ h.kind = [m \in L |-> IF m = n THEN kind ELSE g.kind[m]]
  BY <1>1, <1>4 DEF IsRecord, LayersOf
<1>6. LayersOf(h) = L
  BY <1>5 DEF LayersOf
<1>7. DOMAIN g.ins = LayersOf(g) /\ DOMAIN g.outs = LayersOf(g)
      /\ \A m \in LayersOf(g) : Lists(g.outs[m], Readers(g.ins, m))
  BY LinkedIs
<1>8. DOMAIN J = L /\ DOMAIN O = L /\ J[n] = [i \in 1 .. numInputs |-> None] /\ O[n] = <<>>
      /\ \A m \in LayersOf(g) : J[m] = g.ins[m] /\ O[m] = g.outs[m]
  BY <1>1, <1>2, <1>3, <1>7
<1>9. ASSUME NEW m \in L PROVE \E k \in Nat : J[m] \in [1 .. k -> L \cup {None}]
  <2>1. CASE m = n
    BY <1>8, <2>1
  <2>2. CASE m \in LayersOf(g)
    <3>1. PICK k \in Nat : g.ins[m] \in [1 .. k -> LayersOf(g) \cup {None}]
      BY <2>2, LinkedIs
    <3>2. g.ins[m] \in [1 .. k -> L \cup {None}]
      BY <1>1, <3>1
    <3> QED
      BY <1>8, <2>2, <3>2
  <2> QED
    BY <1>1, <2>1, <2>2
<1>10. ASSUME NEW m \in L PROVE Lists(O[m], Readers(J, m))
  <2>0. m # None
    BY <1>1, LinkedIs
  <2>1. \A k, j : <<k, j>> \in Readers(J, m) <=> <<k, j>> \in Readers(g.ins, m)
    <3> TAKE k, j
    <3>1. <<k, j>> \in Readers(J, m) <=> k \in L /\ j \in Nat /\ j \in DOMAIN J[k] /\ J[k][j] = m
      BY <1>8, ReaderIs
    <3>2. <<k, j>> \in Readers(g.ins, m) <=> k \in LayersOf(g) /\ j \in Nat /\ j \in DOMAIN g.ins[k] /\ g.ins[k][j] = m
      BY <1>7, ReaderIs
    <3>3. j \in DOMAIN J[n] => J[n][j] # m
      BY <1>8, <2>0
    <3> QED
      BY <1>1, <1>8, <3>1, <3>2, <3>3
  <2>3. Readers(J, m) = Readers(g.ins, m)
    BY <2>1, ReadersEqual
  <2>4. CASE m = n
    <3>1. \A e \in Readers(g.ins, n) : FALSE
      <4> SUFFICES ASSUME NEW e \in Readers(g.ins, n) PROVE FALSE
        OBVIOUS
      <4>1. e[1] \in LayersOf(g) /\ e[2] \in DOMAIN g.ins[e[1]] /\ g.ins[e[1]][e[2]] = n
        BY <1>7, ReaderIsSlot
      <4>2. PICK k \in Nat : g.ins[e[1]] \in [1 .. k -> LayersOf(g) \cup {None}]
        BY <4>1, LinkedIs
      <4>3. g.ins[e[1]][e[2]] \in LayersOf(g) \cup {None}
        BY <4>1, <4>2
      <4> QED
        BY <4>1, <4>3
    <3>2. Readers(g.ins, n) = {}
      BY <3>1
    <3>3. Lists(<<>>, {})
      BY DEF Lists
    <3> QED
      BY <1>8, <2>3, <2>4, <3>2, <3>3
  <2>5. CASE m \in LayersOf(g)
    BY <1>7, <1>8, <2>3, <2>5
  <2> QED
    BY <1>1, <2>4, <2>5
<1>11. Wired(L, J, O)
  BY <1>8, <1>9, <1>10 DEF Wired
<1>12. Lists(InsertAt(g.order, pos, n), L)
  BY <1>1, ListsInsert DEF Linked
<1>13. \E k \in Nat : L \subseteq 1 .. k
  <2>1. PICK k \in Nat : LayersOf(g) \subseteq 1 .. k
    BY DEF Linked
  <2>2. n >= 1 /\ k + n \in Nat /\ 1 .. k \subseteq 1 .. k + n /\ n \in 1 .. k + n
    BY DEF None
  <2> QED
    BY <1>1, <2>1, <2>2
<1>14. Linked(h)
  BY <1>5, <1>6, <1>11, <1>12, <1>13 DEF Linked
<1>15. Added(h, g, n, pos, kind, numInputs)
  BY <1>1, <1>5, <1>6, <1>8 DEF Added
<1> QED
  BY <1>14, <1>15

----------------------------------------------------------------------------
(* Sorting.  An acyclic graph has priorities, and the list sorted by them  *)
(* holds the layers it held.                                               *)

LEMMA StableSortIs ==
  ASSUME NEW s, NEW R, Lists(s, R), NEW p, \A x \in R : p[x] \in Nat
  PROVE  /\ Lists(StableSort(s, p), R) /\ Len(StableSort(s, p)) = Len(s)
         /\ \A i, j \in 1 .. Len(s) : i < j => p[StableSort(s, p)[i]] <= p[StableSort(s, p)[j]]
<1> DEFINE Key(i) == <<p[s[i]], i>>
           Before(a, b) == a[1] < b[1] \/ (a[1] = b[1] /\ a[2] < b[2])
<1>1. PICK n \in Nat : n = Len(s) /\ DOMAIN s = 1 .. n
  BY ListsToSet DEF Lists
<1>2. \A i \in 1 .. n : s[i] \in R /\ p[s[i]] \in Nat
  BY <1>1, ListsToSet
<1>3. PICK K : K = {Key(i) : i \in 1 .. n}
  OBVIOUS
<1> DEFINE Below(a) == {b \in K : Before(b, a)}
<1>4. \A a \in K : a[1] \in Nat /\ a[2] \in 1 .. n /\ a = Key(a[2])
  BY <1>2, <1>3
<1>5. IsFiniteSet(K) /\ Cardinality(K) \in Nat /\ Cardinality(K) <= n
  <2>1. PICK f : f = [i \in 1 .. n |-> Key(i)]
    OBVIOUS
  <2>2. f \in Surjection(1 .. n, K)
    BY <1>3, <2>1 DEF Surjection
  <2>3. IsFiniteSet(1 .. n) /\ Cardinality(1 .. n) = n
    BY FS_Interval
  <2> HIDE DEF Key
  <2>4. IsFiniteSet(K) /\ Cardinality(K) <= Cardinality(1 .. n)
    BY <2>2, <2>3, FS_Surjection
  <2> QED
    BY <2>3, <2>4, FS_CardinalityType
<1>6. \A a \in K : IsFiniteSet(Below(a)) /\ Cardinality(Below(a)) \in 0 .. n - 1
  <2> TAKE a \in K
  <2>1. Below(a) \in SUBSET K /\ a \notin Below(a)
    BY <1>4
  <2> HIDE DEF Below
  <2>2. IsFiniteSet(Below(a)) /\ Cardinality(Below(a)) <= Cardinality(K) /\ Cardinality(Below(a)) # Cardinality(K)
    BY <1>5, <2>1, FS_Subset
  <2>3. Cardinality(Below(a)) \in Nat
    BY <2>2, FS_CardinalityType
  <2> QED
    BY <1>5, <2>2, <2>3
<1>7. ASSUME NEW a \in K, NEW b \in K, Before(a, b)
      PROVE  Cardinality(Below(a)) < Cardinality(Below(b))
  <2>1. Below(a) \in SUBSET Below(b) /\ a \in Below(b) /\ a \notin Below(a)
    BY <1>4, <1>7
  <2> HIDE DEF Below
  <2>2. Cardinality(Below(a)) <= Cardinality(Below(b)) /\ Cardinality(Below(a)) # Cardinality(Below(b))
    BY <1>6, <2>1, FS_Subset
  <2> QED
    BY <1>6, <2>2
<1>8. \A a, b \in K : a = b \/ Before(a, b) \/ Before(b, a)
  <2> TAKE a, b \in K
  <2>1. a[1] \in Nat /\ b[1] \in Nat /\ a[2] \in Nat /\ b[2] \in Nat
    BY <1>1, <1>4
  <2>2. a[2] = b[2] => a = b
    BY <1>4
  <2> QED
    BY <2>1, <2>2
<1>9. PICK place : place = [a \in K |-> Cardinality(Below(a))]
  OBVIOUS
<1> HIDE DEF Key
<1>10. /\ \A a \in K : place[a] \in 0 .. n - 1
       /\ \A a, b \in K : Before(a, b) => place[a] < place[b]
       /\ \A a, b \in K : place[a] = place[b] => a = b
  <2> HIDE DEF Below, Before
  <2>1. \A a \in K : place[a] \in 0 .. n - 1
    BY <1>6, <1>9
  <2>2. \A a, b \in K : Before(a, b) => place[a] < place[b]
    BY <1>7, <1>9
  <2> QED
    BY <1>8, <2>1, <2>2
<1>11. \A k \in 1 .. n : \E a \in K : place[a] = k - 1
  <2>1. PICK f : f = [i \in 1 .. n |-> place[Key(i)]]
    OBVIOUS
  <2>2. f \in [1 .. n -> 0 .. n - 1] /\ \A i, j \in 1 .. n : f[i] = f[j] => i = j
    BY <1>3, <1>10, <2>1 DEF Key
  <2>3. f \in Injection(1 .. n, 0 .. n - 1)
    BY <2>2 DEF Injection, IsInjective
  <2>4. IsFiniteSet(1 .. n) /\ Cardinality(1 .. n) = n /\ IsFiniteSet(0 .. n - 1) /\ Cardinality(0 .. n - 1) = n
    <3>1. 1 \in Int /\ n \in Int /\ 0 \in Int /\ n - 1 \in Int
      OBVIOUS
    <3>2. IsFiniteSet(1 .. n) /\ Cardinality(1 .. n) = (IF 1 > n THEN 0 ELSE n - 1 + 1)
      BY <3>1, FS_Interval
    <3>3. IsFiniteSet(0 .. n - 1) /\ Cardinality(0 .. n - 1) = (IF 0 > n - 1 THEN 0 ELSE (n - 1) - 0 + 1)
      BY <3>1, FS_Interval
    <3> QED
      BY <3>2, <3>3
  <2>5. f \in Surjection(1 .. n, 0 .. n - 1)
    BY <2>3, <2>4, FS_Injection
  <2> TAKE k \in 1 .. n
  <2>6. k - 1 \in 0 .. n - 1
    OBVIOUS
  <2>7. PICK i \in 1 .. n : f[i] = k - 1
    BY <2>5, <2>6 DEF Surjection
  <2> QED
    BY <1>3, <2>1, <2>7
<1>12. PICK w : w = StableSort(s, p)
  OBVIOUS
<1>13. w = [k \in 1 .. n |-> s[(CHOOSE a \in K : Cardinality(Below(a)) = k - 1)[2]]]
  BY <1>1, <1>3, <1>12 DEF StableSort, Key
<1>14. \A k \in 1 .. n : \E a \in K : w[k] = s[a[2]] /\ place[a] = k - 1
  <2> TAKE k \in 1 .. n
  <2> DEFINE a == CHOOSE a \in K : Cardinality(Below(a)) = k - 1
  <2>1. \E c \in K : Cardinality(Below(c)) = k - 1
    BY <1>9, <1>11
  <2>2. a \in K /\ Cardinality(Below(a)) = k - 1
    BY <2>1
  <2>3. w[k] = s[a[2]]
    BY <1>13
  <2> HIDE DEF a
  <2>4. place[a] = k - 1
    BY <1>9, <2>2
  <2> QED
    BY <2>2, <2>3, <2>4
<1> HIDE DEF Below
<1>15. \A k \in 1 .. n : w[k] \in R
  BY <1>2, <1>4, <1>14
<1>16. w \in Seq(R) /\ Len(w) = n
  <2>1. w \in [1 .. n -> R]
    BY <1>13, <1>15
  <2> QED
    BY <2>1
<1>17. ASSUME NEW i \in 1 .. n, NEW j \in 1 .. n, w[i] = w[j] PROVE i = j
  <2>1. PICK a \in K : w[i] = s[a[2]] /\ place[a] = i - 1
    BY <1>14
  <2>2. PICK b \in K : w[j] = s[b[2]] /\ place[b] = j - 1
    BY <1>14
  <2>3. s[a[2]] = s[b[2]] /\ a[2] \in 1 .. Len(s) /\ b[2] \in 1 .. Len(s)
    BY <1>1, <1>4, <1>17, <2>1, <2>2
  <2>4. a[2] = b[2]
    BY <2>3, SMTT(30) DEF Lists
  <2>5. a = b
    BY <1>4, <2>4
  <2> QED
    BY <2>1, <2>2, <2>5
<1>18. ASSUME NEW x \in R PROVE \E k \in 1 .. n : w[k] = x
  <2>1. PICK i \in 1 .. n : s[i] = x
    BY <1>1 DEF Lists
  <2>2. PICK a \in K : a = Key(i)
    BY <1>3
  <2>3. a[2] = i
    BY <2>2 DEF Key
  <2>4. place[a] + 1 \in 1 .. n /\ (place[a] + 1) - 1 = place[a]
    BY <1>10
  <2>5. PICK b \in K : w[place[a] + 1] = s[b[2]] /\ place[b] = (place[a] + 1) - 1
    BY <1>14, <2>4
  <2>6. a = b
    BY <1>10, <2>4, <2>5
  <2> QED
    BY <2>1, <2>3, <2>4, <2>5, <2>6
<1>19. ASSUME NEW i \in 1 .. n, NEW j \in 1 .. n, i < j PROVE p[w[i]] <= p[w[j]]
  <2>1. PICK a \in K : w[i] = s[a[2]] /\ place[a] = i - 1
    BY <1>14
  <2>2. PICK b \in K : w[j] = s[b[2]] /\ place[b] = j - 1
    BY <1>14
  <2>3. place[a] < place[b]
    BY <1>19, <2>1, <2>2
  <2>4. ~Before(b, a)
    <3> HIDE DEF Before
    <3> QED
      BY <1>10, <2>3
  <2>5. a[1] = p[w[i]] /\ b[1] = p[w[j]]
    BY <1>4, <2>1, <2>2 DEF Key
  <2>6. a[1] \in Nat /\ b[1] \in Nat
    BY <1>4
  <2> QED
    BY <2>4, <2>5, <2>6
<1>20. Lists(w, R)
  BY <1>16, <1>17, <1>18 DEF Lists
<1> QED
  BY <1>1, <1>12, <1>16, <1>19, <1>20

(* r ranks the layers of a graph: a layer comes after those it reads.      *)
Ranks(r, M, g) ==
  /\ M \in Nat /\ r \in [LayersOf(g) -> 0 .. M]
  /\ \A l \in LayersOf(g) : \A i \in DOMAIN g.ins[l] :
       g.ins[l][i] # None => r[g.ins[l][i]] < r[l]

Acyclic(g) == \E M \in Nat : \E r \in [LayersOf(g) -> 0 .. M] : Ranks(r, M, g)

LEMMA LayersFinite ==
  ASSUME NEW g, Linked(g)
  PROVE  IsFiniteSet(LayersOf(g)) /\ Cardinality(LayersOf(g)) \in Nat
<1>1. PICK k \in Nat : LayersOf(g) \subseteq 1 .. k
  BY DEF Linked
<1>2. IsFiniteSet(1 .. k)
  BY FS_Interval
<1> QED
  BY <1>1, <1>2, FS_Subset, FS_CardinalityType

LEMMA ParentsAre ==
  ASSUME NEW g, Linked(g), NEW l \in LayersOf(g), NEW q \in Parents(g, l)
  PROVE  q \in LayersOf(g) /\ \E i \in DOMAIN g.ins[l] : g.ins[l][i] = q /\ q # None
<1>1. PICK n \in Nat : g.ins[l] \in [1 .. n -> LayersOf(g) \cup {None}]
  BY LinkedIs
<1> QED
  BY <1>1 DEF Parents, ToSet

(* What an equation for the priorities says of a layer.                    *)
PriorityStep(g, n, q, l) ==
  CASE g.kind[l] = "input" -> 0
    [] g.kind[l] = "output" -> n + 1
    [] OTHER -> 1 + Max({q[m] : m \in Parents(g, l)} \cup {0})

LEMMA PrioritiesExist ==
  ASSUME NEW g, Linked(g), Acyclic(g), NEW n
  PROVE  \E q : q = [l \in LayersOf(g) |-> PriorityStep(g, n, q, l)]
<1>0a. PICK M \in Nat : \E r \in [LayersOf(g) -> 0 .. M] : Ranks(r, M, g)
  BY DEF Acyclic
<1>1. PICK r \in [LayersOf(g) -> 0 .. M] : Ranks(r, M, g)
  BY <1>0a
<1> DEFINE Upto(m) == {l \in LayersOf(g) : r[l] < m}
           Is == {m \in 0 .. M + 1 : \E q : q = [l \in Upto(m) |-> PriorityStep(g, n, q, l)]}
<1>2. 0 \in Is
  <2>1. Upto(0) = {}
    BY <1>1
  <2>2. PICK q : q = [l \in {} |-> 0]
    OBVIOUS
  <2>3. q = [l \in Upto(0) |-> PriorityStep(g, n, q, l)]
    BY <2>1, <2>2
  <2> QED
    BY <2>3
<1>3. ASSUME NEW m \in 0 .. M + 1, m # M + 1, m \in Is PROVE m + 1 \in Is
  <2>1. PICK q : q = [l \in Upto(m) |-> PriorityStep(g, n, q, l)]
    BY <1>3
  <2>2. PICK h : h = [l \in Upto(m + 1) |-> IF r[l] < m THEN q[l] ELSE PriorityStep(g, n, q, l)]
    OBVIOUS
  <2>3. Upto(m) \subseteq Upto(m + 1)
    OBVIOUS
  <2>4. ASSUME NEW l \in Upto(m + 1) PROVE h[l] = PriorityStep(g, n, h, l)
    <3>1. \A k \in Parents(g, l) : k \in Upto(m)
      <4> TAKE k \in Parents(g, l)
      <4>1. k \in LayersOf(g) /\ r[k] < r[l]
        BY <1>1, ParentsAre DEF Ranks
      <4> QED
        BY <4>1
    <3>2. \A k \in Upto(m) : h[k] = q[k]
      BY <2>2, <2>3
    <3> HIDE DEF Upto
    <3>3. {h[k] : k \in Parents(g, l)} = {q[k] : k \in Parents(g, l)}
      BY <3>1, <3>2
    <3>4. PriorityStep(g, n, h, l) = PriorityStep(g, n, q, l)
      BY <3>3 DEF PriorityStep
    <3>5. h[l] = PriorityStep(g, n, q, l)
      BY <2>1, <2>2 DEF Upto
    <3> QED
      BY <3>4, <3>5
  <2>5. h = [l \in Upto(m + 1) |-> PriorityStep(g, n, h, l)]
    <3> HIDE DEF Upto
    <3> QED
      BY <2>2, <2>4
  <2>6. m \in 0 .. M + 1 /\ m # M + 1
    BY <1>3, Zenon
  <2>7. m + 1 \in 0 .. M + 1
    BY ONLY <2>6, M \in Nat
  <2> QED
    BY <2>5, <2>7
<1>4. M + 1 \in Is
  <2>1. M + 1 \in Nat /\ M + 1 \in 0 .. M + 1
    OBVIOUS
  <2> HIDE DEF Is
  <2> QED
    BY <1>2, <1>3, <2>1, ByTurns
<1>5. Upto(M + 1) = LayersOf(g)
  BY <1>1
<1> QED
  BY <1>4, <1>5

LEMMA PriorityBounds ==
  ASSUME NEW g, Linked(g), Acyclic(g),
         \A l \in LayersOf(g) : \A i \in DOMAIN g.ins[l] : g.ins[l][i] # None => g.kind[g.ins[l][i]] # "output",
         NEW n, n = Cardinality(LayersOf(g)),
         NEW p, p = [l \in LayersOf(g) |-> PriorityStep(g, n, p, l)]
  PROVE  \A l \in LayersOf(g) :
           /\ p[l] \in Nat
           /\ g.kind[l] = "input" => p[l] = 0
           /\ g.kind[l] = "output" => p[l] = n + 1
           /\ g.kind[l] \notin {"input", "output"} => p[l] \in 1 .. n
<1>0. IsFiniteSet(LayersOf(g)) /\ n \in Nat
  BY LayersFinite
<1>0a. PICK M \in Nat : \E r \in [LayersOf(g) -> 0 .. M] : Ranks(r, M, g)
  BY DEF Acyclic
<1>1. PICK r \in [LayersOf(g) -> 0 .. M] : Ranks(r, M, g)
  BY <1>0a
<1> DEFINE Below(l) == {k \in LayersOf(g) : r[k] < r[l]}
           c(l) == Cardinality(Below(l))
<1>2. \A l \in LayersOf(g) : IsFiniteSet(Below(l)) /\ c(l) \in Nat /\ c(l) < n
  <2> TAKE l \in LayersOf(g)
  <2>1. Below(l) \in SUBSET LayersOf(g) /\ l \notin Below(l)
    BY <1>1
  <2> HIDE DEF Below
  <2>2. IsFiniteSet(Below(l)) /\ c(l) <= n /\ c(l) # n
    BY <1>0, <2>1, FS_Subset
  <2> QED
    BY <1>0, <2>2, FS_CardinalityType
<1>3. ASSUME NEW k \in LayersOf(g), NEW l \in LayersOf(g), r[k] < r[l] PROVE c(k) < c(l)
  <2>1. Below(k) \in SUBSET Below(l) /\ k \in Below(l) /\ k \notin Below(k)
    BY <1>1, <1>3
  <2> HIDE DEF Below
  <2>2. c(k) <= c(l) /\ c(k) # c(l)
    BY <1>2, <2>1, FS_Subset
  <2> QED
    BY <1>2, <2>2
<1>4. PICK d : d = [l \in LayersOf(g) |-> c(l)]
  OBVIOUS
<1>5. /\ \A l \in LayersOf(g) : d[l] \in Nat /\ d[l] < n
      /\ \A k, l \in LayersOf(g) : r[k] < r[l] => d[k] < d[l]
  <2> HIDE DEF c
  <2> QED
    BY <1>2, <1>3, <1>4
<1> HIDE DEF c, Below
<1>6. \A l \in LayersOf(g) : p[l] = PriorityStep(g, n, p, l)
  OBVIOUS
<1> DEFINE Good == {m \in 0 .. M + 1 : \A l \in LayersOf(g) : r[l] < m =>
                      /\ p[l] \in Nat
                      /\ g.kind[l] # "output" => p[l] <= d[l] + 1
                      /\ g.kind[l] \notin {"input", "output"} => p[l] >= 1}
<1>7. 0 \in Good
  <2>1. \A l \in LayersOf(g) : ~(r[l] < 0)
    BY <1>1
  <2> QED
    BY <2>1
<1>8. ASSUME NEW m \in 0 .. M + 1, m # M + 1, m \in Good PROVE m + 1 \in Good
  <2>0. m \in 0 .. M + 1 /\ m # M + 1
    BY <1>8, Zenon
  <2>1. m + 1 \in 0 .. M + 1
    BY ONLY <2>0, M \in Nat
  <2> SUFFICES ASSUME NEW l \in LayersOf(g), r[l] < m + 1
               PROVE  /\ p[l] \in Nat
                      /\ g.kind[l] # "output" => p[l] <= d[l] + 1
                      /\ g.kind[l] \notin {"input", "output"} => p[l] >= 1
    BY <2>1
  <2>2. CASE g.kind[l] = "input"
    <3>1. p[l] = 0
      BY <1>6, <2>2 DEF PriorityStep
    <3> QED
      BY <1>5, <2>2, <3>1
  <2>3. CASE g.kind[l] = "output"
    <3>1. p[l] = n + 1
      BY <1>6, <2>3 DEF PriorityStep
    <3> QED
      BY <1>0, <2>3, <3>1
  <2>4. CASE g.kind[l] \notin {"input", "output"}
    <3> DEFINE S == {p[k] : k \in Parents(g, l)} \cup {0}
    <3>1. p[l] = 1 + Max(S)
      BY <1>6, <2>4 DEF PriorityStep
    <3>2. \A k \in Parents(g, l) : p[k] \in Nat /\ p[k] <= d[l]
      <4> TAKE k \in Parents(g, l)
      <4>1. k \in LayersOf(g) /\ r[k] < r[l] /\ g.kind[k] # "output"
        BY <1>1, ParentsAre DEF Ranks
      <4>2. r[k] < m /\ d[k] < d[l] /\ d[k] \in Nat /\ d[l] \in Nat
        BY <1>5, <4>1
      <4>3. p[k] \in Nat /\ p[k] <= d[k] + 1
        BY <1>8, <4>1, <4>2
      <4> QED
        BY <4>2, <4>3
    <3>3. S \in SUBSET Nat /\ S # {} /\ d[l] \in Nat /\ \A x \in S : x <= d[l]
      BY <1>5, <3>2
    <3> HIDE DEF S
    <3>4. Max(S) \in S
      BY <3>3, MaxIs
    <3>5. PICK x : x = Max(S)
      OBVIOUS
    <3>6. x \in Nat /\ x <= d[l] /\ d[l] \in Nat
      BY <3>3, <3>4, <3>5
    <3>7. p[l] = 1 + x
      BY <3>1, <3>5, Zenon
    <3>8. p[l] \in Nat /\ p[l] <= d[l] + 1 /\ p[l] >= 1
      BY ONLY <3>6, <3>7
    <3> QED
      BY <2>4, <3>8
  <2> QED
    BY <2>2, <2>3, <2>4
<1>9. M + 1 \in Good
  <2>1. M + 1 \in Nat /\ M + 1 \in 0 .. M + 1
    OBVIOUS
  <2> HIDE DEF Good
  <2> QED
    BY <1>7, <1>8, <2>1, ByTurns
<1> TAKE l \in LayersOf(g)
<1>10. r[l] < M + 1
  BY <1>1
<1>11. /\ p[l] \in Nat
       /\ g.kind[l] # "output" => p[l] <= d[l] + 1
       /\ g.kind[l] \notin {"input", "output"} => p[l] >= 1
  BY <1>9, <1>10
<1>12. (g.kind[l] = "input" => p[l] = 0) /\ (g.kind[l] = "output" => p[l] = n + 1)
  BY <1>6 DEF PriorityStep
<1> QED
  BY <1>0, <1>5, <1>11, <1>12

----------------------------------------------------------------------------
(* The inputs first, the outputs last.                                     *)

(* The inputs come first and the outputs last.                             *)
Regional(order, kind) ==
  \A i, j \in 1 .. Len(order) : i < j =>
    /\ kind[order[j]] = "input" => kind[order[i]] = "input"
    /\ kind[order[i]] = "output" => kind[order[j]] = "output"

LEMMA CountFirst ==
  ASSUME NEW n \in Nat, NEW P \in SUBSET (1 .. n),
         \A i, j \in 1 .. n : i < j /\ j \in P => i \in P
  PROVE  Cardinality(P) \in 0 .. n /\ P = 1 .. Cardinality(P)
<1>1. CASE P = {}
  BY <1>1, FS_EmptySet
<1>2. CASE P # {}
  <2>1. P \in SUBSET Nat /\ \A x \in P : x <= n
    OBVIOUS
  <2>2. PICK m \in P : \A x \in P : x <= m
    BY <1>2, <2>1, MaxIs
  <2>3. m \in 1 .. n /\ \A x \in 1 .. n : x < m => x \in P
    BY <2>2
  <2>3c. \A x \in P : x \in 1 .. m
    BY <2>2, <2>3
  <2>3d. \A x \in 1 .. m : x \in P
    <3> TAKE x \in 1 .. m
    <3>1. x \in 1 .. n /\ (x < m \/ x = m)
      BY <2>3
    <3> QED
      BY <2>2, <2>3, <3>1
  <2>3a. \A x : x \in P <=> x \in 1 .. m
    BY <2>3c, <2>3d
  <2>3b. P = 1 .. m
    BY <2>3a
  <2>4. Cardinality(1 .. m) = m
    <3>1. Cardinality(1 .. m) = IF 1 > m THEN 0 ELSE m - 1 + 1
      BY <2>3, FS_Interval
    <3> QED
      BY <2>3, <3>1
  <2> QED
    BY <2>3, <2>3b, <2>4
<1> QED
  BY <1>1, <1>2

LEMMA CountLast ==
  ASSUME NEW n \in Nat, NEW P \in SUBSET (1 .. n),
         \A i, j \in 1 .. n : i < j /\ i \in P => j \in P
  PROVE  Cardinality(P) \in 0 .. n /\ P = n - Cardinality(P) + 1 .. n
<1> DEFINE Q == (1 .. n) \ P
<1>1. PICK c : c = Cardinality(Q)
  OBVIOUS
<1>2. c \in 0 .. n /\ Q = 1 .. c
  BY <1>1, CountFirst
<1>3. P = c + 1 .. n
  <2>1. P = (1 .. n) \ Q
    OBVIOUS
  <2> HIDE DEF Q
  <2> QED
    BY <1>2, <2>1
<1>4. Cardinality(c + 1 .. n) = n - c
  <2>1. Cardinality(c + 1 .. n) = IF c + 1 > n THEN 0 ELSE n - (c + 1) + 1
    BY <1>2, FS_Interval
  <2> QED
    BY <1>2, <2>1
<1> QED
  BY <1>2, <1>3, <1>4

LEMMA CountListed ==
  ASSUME NEW s, NEW R, Lists(s, R), NEW S \in SUBSET R,
         NEW P, P = {i \in 1 .. Len(s) : s[i] \in S}
  PROVE  Cardinality(P) = Cardinality(S)
<1>1. Len(s) \in Nat
  BY ListsToSet
<1>2. IsFiniteSet(P)
  <2>1. IsFiniteSet(1 .. Len(s))
    BY <1>1, FS_Interval
  <2> QED
    BY <2>1, FS_Subset
<1>3. PICK f : f = [i \in P |-> s[i]]
  OBVIOUS
<1>4. f \in [P -> S] /\ \A i, j \in P : f[i] = f[j] => i = j
  BY <1>3 DEF Lists
<1>5. \A x \in S : \E i \in P : f[i] = x
  <2> TAKE x \in S
  <2>1. PICK i \in 1 .. Len(s) : s[i] = x
    BY DEF Lists
  <2>2. i \in P
    BY <2>1
  <2> QED
    BY <1>3, <2>1, <2>2
<1>6. f \in Bijection(P, S)
  BY <1>4, <1>5 DEF Bijection, Injection, Surjection, IsInjective
<1> QED
  BY <1>2, <1>6, FS_Bijection DEF ExistsBijection

LEMMA RegionsAre ==
  ASSUME NEW g, Linked(g), Regional(g.order, g.kind), NEW n, n = Len(g.order)
  PROVE  /\ n \in Nat /\ NumInputs(g) \in 0 .. n /\ NumOutputs(g) \in 0 .. n
         /\ NumInputs(g) + NumOutputs(g) <= n
         /\ \A i \in 1 .. n : g.kind[g.order[i]] = "input" <=> i <= NumInputs(g)
         /\ \A i \in 1 .. n : g.kind[g.order[i]] = "output" <=> i >= n - NumOutputs(g) + 1
<1>1. Lists(g.order, LayersOf(g)) /\ n \in Nat /\ \A i \in 1 .. n : g.order[i] \in LayersOf(g)
  BY ListsToSet DEF Linked
<1>2. PICK P : P = {i \in 1 .. n : g.kind[g.order[i]] = "input"}
  OBVIOUS
<1>3. PICK S : S = {l \in LayersOf(g) : g.kind[l] = "input"}
  OBVIOUS
<1>4. PICK Q : Q = {i \in 1 .. n : g.kind[g.order[i]] = "output"}
  OBVIOUS
<1>5. PICK T : T = {l \in LayersOf(g) : g.kind[l] = "output"}
  OBVIOUS
<1>6. PICK a : a = NumInputs(g)
  OBVIOUS
<1>7. PICK b : b = NumOutputs(g)
  OBVIOUS
<1>8. a = Cardinality(P) /\ b = Cardinality(Q)
  <2>1. P = {i \in 1 .. n : g.order[i] \in S} /\ Q = {i \in 1 .. n : g.order[i] \in T}
    BY <1>1, <1>2, <1>3, <1>4, <1>5
  <2>2. a = Cardinality(S) /\ b = Cardinality(T)
    BY <1>3, <1>5, <1>6, <1>7 DEF NumInputs, NumOutputs
  <2>3. S \in SUBSET LayersOf(g) /\ T \in SUBSET LayersOf(g)
    BY <1>3, <1>5
  <2> QED
    BY <1>1, <2>1, <2>2, <2>3, CountListed
<1>9. a \in 0 .. n /\ P = 1 .. a
  <2>1. P \in SUBSET (1 .. n) /\ \A i, j \in 1 .. n : i < j /\ j \in P => i \in P
    BY <1>2 DEF Regional
  <2> QED
    BY <1>1, <1>8, <2>1, CountFirst
<1>10. b \in 0 .. n /\ Q = n - b + 1 .. n
  <2>1. Q \in SUBSET (1 .. n) /\ \A i, j \in 1 .. n : i < j /\ i \in Q => j \in Q
    BY <1>4 DEF Regional
  <2> QED
    BY <1>1, <1>8, <2>1, CountLast
<1>11. P \cap Q = {}
  BY <1>2, <1>4
<1>12. a + b <= n
  <2> SUFFICES ASSUME a + b > n PROVE FALSE
    BY <1>1, <1>9, <1>10
  <2>1. a \in P /\ a \in Q
    BY <1>1, <1>9, <1>10
  <2> QED
    BY <1>11, <2>1
<1>13. \A i \in 1 .. n : g.kind[g.order[i]] = "input" <=> i <= a
  BY <1>1, <1>2, <1>9
<1>14. \A i \in 1 .. n : g.kind[g.order[i]] = "output" <=> i >= n - b + 1
  BY <1>1, <1>4, <1>10, SMTT(30)
<1> QED
  BY <1>1, <1>6, <1>7, <1>9, <1>10, <1>12, <1>13, <1>14

LEMMA RegionsKept ==
  ASSUME NEW g, Linked(g), Regional(g.order, g.kind)
  PROVE  InputsFirstOutputsLast(g)
<1>1. PICK n : n = Len(g.order)
  OBVIOUS
<1>2. PICK a : a = NumInputs(g)
  OBVIOUS
<1>3. PICK b : b = NumOutputs(g)
  OBVIOUS
<1>4. /\ n \in Nat /\ a \in 0 .. n /\ b \in 0 .. n
      /\ \A i \in 1 .. n : g.kind[g.order[i]] = "input" <=> i <= a
      /\ \A i \in 1 .. n : g.kind[g.order[i]] = "output" <=> i >= n - b + 1
  BY <1>1, <1>2, <1>3, RegionsAre
<1>5. (\A i \in 1 .. a : i \in 1 .. n /\ i <= a) /\ (\A i \in n - b + 1 .. n : i \in 1 .. n /\ i >= n - b + 1)
  BY <1>4
<1> QED
  BY <1>1, <1>2, <1>3, <1>4, <1>5 DEF InputsFirstOutputsLast

(* Where a new layer keeps the regions.                                    *)
RightPlace(g, pos, kind) ==
  /\ kind = "input" => pos = NumInputs(g) + 1
  /\ kind = "output" => pos = Len(g.order) + 1
  /\ kind \notin {"input", "output"} =>
       pos >= NumInputs(g) + 1 /\ pos <= Len(g.order) - NumOutputs(g) + 1

LEMMA RegionalInsert ==
  ASSUME NEW g, Linked(g), Regional(g.order, g.kind), NEW n, n \notin LayersOf(g), NEW pos \in Nat, NEW kind,
         RightPlace(g, pos, kind), NEW numInputs, NEW h, Added(h, g, n, pos, kind, numInputs)
  PROVE  pos \in 1 .. Len(g.order) + 1 /\ Regional(h.order, h.kind)
<1>1. PICK len : len = Len(g.order)
  OBVIOUS
<1>2. PICK a : a = NumInputs(g)
  OBVIOUS
<1>3. PICK b : b = NumOutputs(g)
  OBVIOUS
<1>4. /\ len \in Nat /\ a \in 0 .. len /\ b \in 0 .. len /\ a + b <= len
      /\ \A i \in 1 .. len : g.kind[g.order[i]] = "input" <=> i <= a
      /\ \A i \in 1 .. len : g.kind[g.order[i]] = "output" <=> i >= len - b + 1
  BY <1>1, <1>2, <1>3, RegionsAre
<1>5. /\ kind = "input" => pos = a + 1
      /\ kind = "output" => pos = len + 1
      /\ kind \notin {"input", "output"} => pos >= a + 1 /\ pos <= len - b + 1
  BY <1>1, <1>2, <1>3 DEF RightPlace
<1>6. pos \in 1 .. len + 1
  BY <1>4, <1>5
<1>7. Lists(g.order, LayersOf(g)) /\ \A i \in 1 .. len : g.order[i] \in LayersOf(g)
  BY <1>1, ListsToSet DEF Linked
<1>8. PICK w : w = h.order
  OBVIOUS
<1>9. Len(w) = len + 1 /\ \A i \in 1 .. len + 1 : w[i] = IF i < pos THEN g.order[i] ELSE IF i = pos THEN n ELSE g.order[i - 1]
  <2>1. w = InsertAt(g.order, pos, n) /\ g.order \in Seq(LayersOf(g))
    BY <1>7, <1>8 DEF Added, Lists
  <2>2. IsInserted(w, g.order, LayersOf(g), pos, n)
    BY <1>1, <1>6, <2>1, InsertAtIs
  <2> QED
    BY <1>1, <2>2 DEF IsInserted
<1>10. PICK c : c = [i \in 1 .. len + 1 |-> h.kind[w[i]]]
  OBVIOUS
<1>11. PICK d : d = [i \in 1 .. len |-> g.kind[g.order[i]]]
  OBVIOUS
<1>12. \A i \in 1 .. len + 1 :
         /\ i < pos => i \in 1 .. len /\ c[i] = d[i]
         /\ i = pos => c[i] = kind
         /\ i > pos => i - 1 \in 1 .. len /\ c[i] = d[i - 1]
  <2> TAKE i \in 1 .. len + 1
  <2>1. i < pos => i \in 1 .. len
    BY <1>4, <1>6
  <2>2. i > pos => i - 1 \in 1 .. len
    BY <1>4, <1>6
  <2>3. \A l \in LayersOf(g) : h.kind[l] = g.kind[l]
    BY DEF Added
  <2>4. h.kind[n] = kind
    BY DEF Added
  <2>5. i = pos => w[i] = n
    BY <1>9
  <2>6. i < pos => w[i] = g.order[i]
    BY <1>9
  <2>7. i > pos => w[i] = g.order[i - 1]
    BY <1>4, <1>6, <1>9
  <2> QED
    BY <1>7, <1>10, <1>11, <2>1, <2>2, <2>3, <2>4, <2>5, <2>6, <2>7
<1>13. \A i \in 1 .. len : (d[i] = "input" <=> i <= a) /\ (d[i] = "output" <=> i >= len - b + 1)
  BY <1>4, <1>11
<1>13a. ASSUME NEW i \in 1 .. len + 1
        PROVE  /\ i < pos => (c[i] = "input" <=> i <= a) /\ (c[i] = "output" <=> i >= len - b + 1)
               /\ i = pos => c[i] = kind
               /\ i > pos => (c[i] = "input" <=> i - 1 <= a) /\ (c[i] = "output" <=> i - 1 >= len - b + 1)
  <2>1. i < pos => i \in 1 .. len /\ c[i] = d[i]
    BY <1>12
  <2>2. i > pos => i - 1 \in 1 .. len /\ c[i] = d[i - 1]
    BY <1>12
  <2>3. i = pos => c[i] = kind
    BY <1>12
  <2> QED
    BY <1>13, <2>1, <2>2, <2>3
<1>14. ASSUME NEW i \in 1 .. len + 1, NEW j \in 1 .. len + 1, i < j
       PROVE  (c[j] = "input" => c[i] = "input") /\ (c[i] = "output" => c[j] = "output")
  <2>1. /\ i < pos => (c[i] = "input" <=> i <= a) /\ (c[i] = "output" <=> i >= len - b + 1)
        /\ i = pos => c[i] = kind
        /\ i > pos => (c[i] = "input" <=> i - 1 <= a) /\ (c[i] = "output" <=> i - 1 >= len - b + 1)
    BY <1>13a
  <2>2. /\ j < pos => (c[j] = "input" <=> j <= a) /\ (c[j] = "output" <=> j >= len - b + 1)
        /\ j = pos => c[j] = kind
        /\ j > pos => (c[j] = "input" <=> j - 1 <= a) /\ (c[j] = "output" <=> j - 1 >= len - b + 1)
    BY <1>13a
  <2>3. i \in 1 .. len + 1 /\ j \in 1 .. len + 1 /\ i < j /\ len \in Nat /\ a \in 0 .. len /\ b \in 0 .. len
        /\ a + b <= len /\ pos \in 1 .. len + 1
    BY <1>4, <1>6, <1>14, Zenon
  <2>4. c[j] = "input" => c[i] = "input"
    BY ONLY <1>5, <2>1, <2>2, <2>3
  <2>5. c[i] = "output" => c[j] = "output"
    BY ONLY <1>5, <2>1, <2>2, <2>3
  <2> QED
    BY <2>4, <2>5
<1>15. Regional(w, h.kind)
  BY <1>4, <1>9, <1>10, <1>14 DEF Regional
<1> QED
  BY <1>1, <1>6, <1>8, <1>15

LEMMA RegionalErase ==
  ASSUME NEW g, Linked(g), Regional(g.order, g.kind), NEW l, NEW h, Erased(h, g, l)
  PROVE  Regional(h.order, h.kind)
<1>1. Lists(g.order, LayersOf(g))
  BY DEF Linked
<1>2. PICK w : w = h.order
  OBVIOUS
<1>3. w = Without(g.order, {l}) /\ \A m \in LayersOf(g) \ {l} : h.kind[m] = g.kind[m]
  BY <1>2 DEF Erased
<1>4. /\ Lists(w, LayersOf(g) \ {l})
      /\ \A i, j \in 1 .. Len(w) : i < j =>
           \E a, b \in 1 .. Len(g.order) : a < b /\ w[i] = g.order[a] /\ w[j] = g.order[b]
  <2>1. Lists(w, LayersOf(g) \ {l}) /\ InTheOrderOf(w, g.order)
    BY <1>1, <1>3, ListsWithout
  <2> QED
    BY <2>1 DEF InTheOrderOf
<1>5. \A i \in 1 .. Len(w) : w[i] \in LayersOf(g) \ {l}
  BY <1>4, ListsToSet
<1>6. ASSUME NEW i \in 1 .. Len(w), NEW j \in 1 .. Len(w), i < j
      PROVE  (h.kind[w[j]] = "input" => h.kind[w[i]] = "input") /\ (h.kind[w[i]] = "output" => h.kind[w[j]] = "output")
  <2>1. PICK a, b \in 1 .. Len(g.order) : a < b /\ w[i] = g.order[a] /\ w[j] = g.order[b]
    BY <1>4, <1>6
  <2>2. (g.kind[w[j]] = "input" => g.kind[w[i]] = "input") /\ (g.kind[w[i]] = "output" => g.kind[w[j]] = "output")
    BY <2>1 DEF Regional
  <2> QED
    BY <1>3, <1>5, <2>2
<1> QED
  BY <1>2, <1>6 DEF Regional

(* The same layers, links and order.                                       *)
Same(h, g) == IsRecord(h) /\ h.kind = g.kind /\ h.ins = g.ins /\ h.outs = g.outs /\ h.order = g.order

LEMMA LinkedSame ==
  ASSUME NEW g, Linked(g), NEW h, Same(h, g)
  PROVE  Linked(h) /\ LayersOf(h) = LayersOf(g)
BY DEF Linked, Same, LayersOf

LEMMA SameInfo ==
  ASSUME NEW g, IsRecord(g), NEW n, NEW v, NEW h, h = [g EXCEPT !.info[n] = v]
  PROVE  Same(h, g) /\ h.inOrder = g.inOrder
<1>1. PICK x : x = [order |-> g.order, inOrder |-> g.inOrder, kind |-> g.kind, param |-> g.param,
                    info |-> g.info, ins |-> g.ins, outs |-> g.outs, prio |-> g.prio, backend |-> g.backend]
  OBVIOUS
<1>2. x = g
  BY <1>1 DEF IsRecord
<1>3. h = [[order |-> g.order, inOrder |-> g.inOrder, kind |-> g.kind, param |-> g.param,
            info |-> g.info, ins |-> g.ins, outs |-> g.outs, prio |-> g.prio, backend |-> g.backend]
             EXCEPT !.info[n] = v]
  BY <1>1, <1>2, Zenon
<1> QED
  BY ONLY <1>3 DEF Same, IsRecord

LEMMA SameGetPriority ==
  ASSUME NEW g, IsRecord(g), NEW l, NEW h, h = GetPriority(g, l)
  PROVE  Same(h, g) /\ h.inOrder = g.inOrder
<1>1. PICK x : x = [order |-> g.order, inOrder |-> g.inOrder, kind |-> g.kind, param |-> g.param,
                    info |-> g.info, ins |-> g.ins, outs |-> g.outs, prio |-> g.prio, backend |-> g.backend]
  OBVIOUS
<1>2. x = g
  BY <1>1 DEF IsRecord
<1>3. PICK p : p = Restrict(PriorityOf(g), Asked(g, l)) @@ g.prio
  OBVIOUS
<1>4. h = [g EXCEPT !.prio = p]
  BY <1>3 DEF GetPriority
<1>5. h = [[order |-> g.order, inOrder |-> g.inOrder, kind |-> g.kind, param |-> g.param,
            info |-> g.info, ins |-> g.ins, outs |-> g.outs, prio |-> g.prio, backend |-> g.backend]
             EXCEPT !.prio = p]
  BY <1>1, <1>2, <1>4, Zenon
<1> QED
  BY ONLY <1>5 DEF Same, IsRecord

LEMMA SameAddLayer ==
  ASSUME NEW g, Linked(g), Regional(g.order, g.kind), NEW n, NEW kind, NEW param, NEW numInputs,
         NEW h, h = AddLayer(g, n, kind, param, numInputs)
  PROVE  \E pos \in Nat :
                  /\ RightPlace(g, pos, kind)
                  /\ \E u : u = NewLayer(g, n, pos, kind, param, numInputs) /\ Same(h, u)
<1>1. PICK pos : pos = CASE kind = "input" -> NumInputs(g) + 1
                         [] kind = "output" -> Len(g.order) + 1
                         [] OTHER -> Len(g.order) - NumOutputs(g) + 1
  OBVIOUS
<1>2. PICK u : u = NewLayer(g, n, pos, kind, param, numInputs)
  OBVIOUS
<1>3. IsRecord(u)
  BY <1>2 DEF NewLayer, IsRecord
<1>4. h = [u EXCEPT !.inOrder = u.inOrder /\ kind \in {"input", "output"}]
  BY <1>1, <1>2 DEF AddLayer
<1>5. PICK v : v = (u.inOrder /\ kind \in {"input", "output"})
  OBVIOUS
<1>6. PICK x : x = [order |-> u.order, inOrder |-> u.inOrder, kind |-> u.kind, param |-> u.param,
                    info |-> u.info, ins |-> u.ins, outs |-> u.outs, prio |-> u.prio, backend |-> u.backend]
  OBVIOUS
<1>7. x = u
  BY <1>3, <1>6 DEF IsRecord
<1>8. h = [[order |-> u.order, inOrder |-> u.inOrder, kind |-> u.kind, param |-> u.param,
            info |-> u.info, ins |-> u.ins, outs |-> u.outs, prio |-> u.prio, backend |-> u.backend]
             EXCEPT !.inOrder = v]
  BY <1>4, <1>5, <1>6, <1>7, Zenon
<1>9. Same(h, u)
  BY ONLY <1>8 DEF Same, IsRecord
<1>10. PICK n1 : n1 = Len(g.order)
  OBVIOUS
<1>11. PICK a : a = NumInputs(g)
  OBVIOUS
<1>12. PICK b : b = NumOutputs(g)
  OBVIOUS
<1>13. n1 \in Nat /\ a \in 0 .. n1 /\ b \in 0 .. n1 /\ a + b <= n1
  BY <1>10, <1>11, <1>12, RegionsAre
<1>14. /\ kind = "input" => pos = a + 1
       /\ kind = "output" => pos = n1 + 1
       /\ kind \notin {"input", "output"} => pos = n1 - b + 1
  BY <1>1, <1>10, <1>11, <1>12
<1>15. pos \in Nat /\ (kind \notin {"input", "output"} => pos >= a + 1 /\ pos <= n1 - b + 1)
  BY <1>13, <1>14
<1> QED
  BY <1>2, <1>9, <1>10, <1>11, <1>12, <1>14, <1>15 DEF RightPlace

----------------------------------------------------------------------------
(* TopologicalSort.                                                        *)

(* No layer reads an output.                                               *)
OutputsUnread(g) ==
  \A l \in LayersOf(g) : \A i \in DOMAIN g.ins[l] :
    g.ins[l][i] # None => g.kind[g.ins[l][i]] # "output"

LEMMA PrioritiesAre ==
  ASSUME NEW g, Linked(g), Acyclic(g), OutputsUnread(g), NEW n, n = Cardinality(LayersOf(g)),
         NEW p, p = PriorityOf([g EXCEPT !.prio = [l \in LayersOf(g) |-> 0]])
  PROVE  \A l \in LayersOf(g) :
           /\ p[l] \in Nat
           /\ g.kind[l] = "input" => p[l] = 0
           /\ g.kind[l] = "output" => p[l] = n + 1
           /\ g.kind[l] \notin {"input", "output"} => p[l] \in 1 .. n
<1>1. PICK z : z = [l \in LayersOf(g) |-> 0]
  OBVIOUS
<1>2. PICK h : h = [g EXCEPT !.prio = z]
  OBVIOUS
<1>3. PICK x : x = [order |-> g.order, inOrder |-> g.inOrder, kind |-> g.kind, param |-> g.param,
                    info |-> g.info, ins |-> g.ins, outs |-> g.outs, prio |-> g.prio, backend |-> g.backend]
  OBVIOUS
<1>4. x = g
  BY <1>3 DEF Linked, IsRecord
<1>5. h = [[order |-> g.order, inOrder |-> g.inOrder, kind |-> g.kind, param |-> g.param,
            info |-> g.info, ins |-> g.ins, outs |-> g.outs, prio |-> g.prio, backend |-> g.backend]
             EXCEPT !.prio = z]
  BY <1>2, <1>3, <1>4, Zenon
<1>6. h.kind = g.kind /\ h.ins = g.ins /\ h.prio = z
  BY ONLY <1>5
<1>7. LayersOf(h) = LayersOf(g) /\ \A l \in LayersOf(g) : Parents(h, l) = Parents(g, l)
  BY <1>6 DEF LayersOf, Parents
<1> DEFINE Step(q, l) == CASE h.kind[l] = "input" -> InputPriority
                           [] h.kind[l] = "output" -> OutputPriority(h)
                           [] h.prio[l] # 0 -> h.prio[l]
                           [] OTHER -> 1 + Max({q[m] : m \in Parents(h, l)} \cup {0})
<1>8. ASSUME NEW q, NEW l \in LayersOf(g) PROVE Step(q, l) = PriorityStep(g, n, q, l)
  <2>1. h.prio[l] = 0 /\ OutputPriority(h) = n + 1 /\ InputPriority = 0 /\ Parents(h, l) = Parents(g, l)
    BY <1>1, <1>6, <1>7 DEF OutputPriority, InputPriority
  <2> QED
    BY <1>6, <2>1 DEF PriorityStep
<1>9. PICK q : q = [l \in LayersOf(g) |-> PriorityStep(g, n, q, l)]
  BY PrioritiesExist
<1>10. q = [l \in LayersOf(h) |-> Step(q, l)]
  <2> HIDE DEF Step
  <2> QED
    BY <1>7, <1>8, <1>9
<1> DEFINE r == CHOOSE f : f = [l \in LayersOf(h) |-> Step(f, l)]
<1>11. r = [l \in LayersOf(h) |-> Step(r, l)]
  <2> HIDE DEF Step
  <2> QED
    BY <1>10
<1>12. p = r
  BY <1>1, <1>2 DEF PriorityOf
<1>13. p = [l \in LayersOf(g) |-> PriorityStep(g, n, p, l)]
  <2> HIDE DEF Step, r
  <2> QED
    BY <1>7, <1>8, <1>11, <1>12
<1> QED
  BY <1>13, PriorityBounds DEF OutputsUnread

LEMMA LinkedSort ==
  ASSUME NEW g, Linked(g), Acyclic(g), OutputsUnread(g), Regional(g.order, g.kind),
         NEW h, h = TopologicalSort(g)
  PROVE  /\ Linked(h) /\ h.kind = g.kind /\ h.ins = g.ins /\ Regional(h.order, h.kind)
         /\ h.inOrder /\ (g.inOrder => h = g)
<1>1. CASE g.inOrder
  BY <1>1 DEF TopologicalSort
<1>2. CASE ~g.inOrder
  <2>1. PICK p : p = PriorityOf([g EXCEPT !.prio = [l \in LayersOf(g) |-> 0]])
    OBVIOUS
  <2>2. PICK w : w = StableSort(g.order, p)
    OBVIOUS
  <2>3. h = [g EXCEPT !.prio = p, !.order = w, !.inOrder = TRUE]
    BY <1>2, <2>1, <2>2 DEF TopologicalSort
  <2>4. PICK x : x = [order |-> g.order, inOrder |-> g.inOrder, kind |-> g.kind, param |-> g.param,
                      info |-> g.info, ins |-> g.ins, outs |-> g.outs, prio |-> g.prio, backend |-> g.backend]
    OBVIOUS
  <2>5. x = g
    BY <2>4 DEF Linked, IsRecord
  <2>6. h = [[order |-> g.order, inOrder |-> g.inOrder, kind |-> g.kind, param |-> g.param,
              info |-> g.info, ins |-> g.ins, outs |-> g.outs, prio |-> g.prio, backend |-> g.backend]
               EXCEPT !.prio = p, !.order = w, !.inOrder = TRUE]
    BY <2>3, <2>4, <2>5, Zenon
  <2>7. h.kind = g.kind /\ h.ins = g.ins /\ h.outs = g.outs /\ h.order = w /\ h.inOrder /\ IsRecord(h)
    BY ONLY <2>6 DEF IsRecord
  <2>8. PICK n : n = Cardinality(LayersOf(g))
    OBVIOUS
  <2>9. n \in Nat
    BY <2>8, LayersFinite
  <2>10. \A l \in LayersOf(g) :
           /\ p[l] \in Nat
           /\ g.kind[l] = "input" => p[l] = 0
           /\ g.kind[l] = "output" => p[l] = n + 1
           /\ g.kind[l] \notin {"input", "output"} => p[l] \in 1 .. n
    BY <2>1, <2>8, PrioritiesAre
  <2>11. PICK L : L = LayersOf(g)
    OBVIOUS
  <2>12. /\ Lists(w, L) /\ \A i, j \in 1 .. Len(w) : i < j => p[w[i]] <= p[w[j]]
    <3>1. PICK s : s = g.order
      OBVIOUS
    <3>2. Lists(s, L) /\ \A y \in L : p[y] \in Nat
      BY <2>10, <2>11, <3>1 DEF Linked
    <3>3. /\ Lists(StableSort(s, p), L) /\ Len(StableSort(s, p)) = Len(s)
          /\ \A i, j \in 1 .. Len(s) : i < j => p[StableSort(s, p)[i]] <= p[StableSort(s, p)[j]]
      BY <3>2, StableSortIs
    <3> QED
      BY <2>2, <3>1, <3>3
  <2>13. \A i \in 1 .. Len(w) : w[i] \in L
    BY <2>12, ListsToSet
  <2>14. ASSUME NEW i \in 1 .. Len(w), NEW j \in 1 .. Len(w), i < j
         PROVE  (g.kind[w[j]] = "input" => g.kind[w[i]] = "input") /\ (g.kind[w[i]] = "output" => g.kind[w[j]] = "output")
    <3>1. PICK a, b : a = p[w[i]] /\ b = p[w[j]]
      OBVIOUS
    <3>2. w[i] \in L /\ w[j] \in L
      BY <2>13
    <3>3. a <= b
      BY <2>12, <2>14, <3>1
    <3>4. /\ a \in Nat /\ (g.kind[w[i]] = "input" => a = 0) /\ (g.kind[w[i]] = "output" => a = n + 1)
          /\ g.kind[w[i]] \notin {"input", "output"} => a \in 1 .. n
      BY <2>10, <2>11, <3>1, <3>2
    <3>5. /\ b \in Nat /\ (g.kind[w[j]] = "input" => b = 0) /\ (g.kind[w[j]] = "output" => b = n + 1)
          /\ g.kind[w[j]] \notin {"input", "output"} => b \in 1 .. n
      BY <2>10, <2>11, <3>1, <3>2
    <3> QED
      BY <2>9, <3>3, <3>4, <3>5
  <2>15. Regional(w, g.kind)
    BY <2>14 DEF Regional
  <2>16. LayersOf(h) = LayersOf(g)
    BY <2>7 DEF LayersOf
  <2> QED
    BY <1>2, <2>7, <2>11, <2>12, <2>15, <2>16 DEF Linked
<1> QED
  BY <1>1, <1>2
=============================================================================
