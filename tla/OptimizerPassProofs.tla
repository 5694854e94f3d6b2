------------------------ MODULE OptimizerPassProofs -----------------------
(***************************************************************************)
(* Proofs about OptimizerPass.tla: whatever layers the optimizations insert,*)
(* move and erase while the pass goes through the list, the graph stays    *)
(* whole, for every network, every kind of layer and every shape.          *)
(***************************************************************************)
EXTENDS OptimizerPass, GraphProofs

----------------------------------------------------------------------------
(* The place of the layers.  The pass goes by the list: where a layer is   *)
(* among those there were is not changed by inserting and erasing others.  *)

Precedes(s, a, b) == \E i, j \in 1 .. Len(s) : i < j /\ s[i] = a /\ s[j] = b

(* No layer of g comes before another one in h that it came behind in g.   *)
InPlace(h, g) ==
  /\ h.inOrder = g.inOrder
  /\ \A a, b \in LayersOf(g) : Precedes(h.order, a, b) => Precedes(g.order, a, b)

LEMMA PrecedesIs ==
  ASSUME NEW s, NEW R, Lists(s, R)
  PROVE  \A a, b : Precedes(s, a, b) => a \in R /\ b \in R /\ ~Precedes(s, b, a) /\ a # b
<1>1. \A i \in 1 .. Len(s) : s[i] \in R
  BY ListsToSet
<1>2. ASSUME NEW a, NEW b, NEW i \in 1 .. Len(s), NEW j \in 1 .. Len(s), i < j, s[i] = a, s[j] = b,
             NEW x \in 1 .. Len(s), NEW y \in 1 .. Len(s), x < y, s[x] = b, s[y] = a
      PROVE  FALSE
  <2>1. i = y /\ j = x
    BY <1>2 DEF Lists
  <2> QED
    BY <1>2, <2>1
<1>3. ASSUME NEW a, NEW b, Precedes(s, a, b) PROVE a \in R /\ b \in R /\ ~Precedes(s, b, a) /\ a # b
  <2>1. PICK i, j \in 1 .. Len(s) : i < j /\ s[i] = a /\ s[j] = b
    BY <1>3 DEF Precedes
  <2>2. ~Precedes(s, b, a)
    BY <1>2, <2>1 DEF Precedes
  <2>3. a # b
    BY <1>2, <2>1
  <2> QED
    BY <1>1, <2>1, <2>2, <2>3
<1> QED
  BY <1>3

LEMMA InPlaceSame ==
  ASSUME NEW g, NEW h, h.order = g.order, h.inOrder = g.inOrder
  PROVE  InPlace(h, g)
BY DEF InPlace

(* First layers are inserted, then some of them are erased.                *)
LEMMA InPlaceMore ==
  ASSUME NEW g, NEW h, InPlace(h, g), LayersOf(g) \subseteq LayersOf(h), NEW u, InPlace(u, h)
  PROVE  InPlace(u, g)
BY DEF InPlace

LEMMA InPlaceLess ==
  ASSUME NEW g, NEW h, InPlace(h, g), NEW u, Linked(u), LayersOf(u) \subseteq LayersOf(h), InPlace(u, h)
  PROVE  InPlace(u, g)
<1>1. \A a, b : Precedes(u.order, a, b) => a \in LayersOf(h) /\ b \in LayersOf(h)
  BY PrecedesIs DEF Linked
<1> QED
  BY <1>1 DEF InPlace

LEMMA InsertInPlace ==
  ASSUME NEW g, Linked(g), NEW n, n \notin LayersOf(g), NEW pos \in 1 .. Len(g.order) + 1,
         NEW h, h.order = InsertAt(g.order, pos, n), h.inOrder = g.inOrder
  PROVE  InPlace(h, g)
<1>1. PICK s : s = g.order
  OBVIOUS
<1>2. PICK w : w = h.order
  OBVIOUS
<1>3. PICK len \in Nat : len = Len(s) /\ pos \in 1 .. len + 1
  BY <1>1, ListsToSet DEF Linked
<1>4. /\ Len(w) = len + 1
      /\ \A i \in 1 .. len + 1 : w[i] = IF i < pos THEN s[i] ELSE IF i = pos THEN n ELSE s[i - 1]
  <2>1. s \in Seq(LayersOf(g))
    BY <1>1 DEF Linked, Lists
  <2>2. IsInserted(InsertAt(s, pos, n), s, LayersOf(g), pos, n)
    BY <1>1, <2>1, InsertAtIs
  <2> QED
    BY <1>2, <1>3, <1>1, <2>2 DEF IsInserted
<1>5. ASSUME NEW a \in LayersOf(g), NEW b \in LayersOf(g), Precedes(w, a, b) PROVE Precedes(s, a, b)
  <2>1. PICK i, j \in 1 .. len + 1 : i < j /\ w[i] = a /\ w[j] = b
    BY <1>4, <1>5 DEF Precedes
  <2>2. i # pos /\ j # pos
    BY <1>4, <2>1
  <2>3. PICK x, y : x = (IF i < pos THEN i ELSE i - 1) /\ y = (IF j < pos THEN j ELSE j - 1)
    OBVIOUS
  <2>4. x \in 1 .. len /\ y \in 1 .. len /\ x < y
    BY <1>3, <2>1, <2>2, <2>3
  <2>5. s[x] = a /\ s[y] = b
    BY <1>4, <2>1, <2>2, <2>3
  <2> QED
    BY <1>3, <2>4, <2>5 DEF Precedes
<1> QED
  BY <1>1, <1>2, <1>5 DEF InPlace

LEMMA EraseInPlace ==
  ASSUME NEW g, Linked(g), NEW l, NEW h, Erased(h, g, l)
  PROVE  InPlace(h, g)
<1>1. InTheOrderOf(h.order, g.order) /\ h.inOrder = g.inOrder
  <2>1. Lists(g.order, LayersOf(g)) /\ h.order = Without(g.order, {l}) /\ h.inOrder = g.inOrder
    BY DEF Linked, Erased
  <2> QED
    BY <2>1, ListsWithout
<1>2. \A a, b : Precedes(h.order, a, b) => Precedes(g.order, a, b)
  <2> SUFFICES ASSUME NEW a, NEW b, Precedes(h.order, a, b) PROVE Precedes(g.order, a, b)
    OBVIOUS
  <2>1. PICK i, j \in 1 .. Len(h.order) : i < j /\ h.order[i] = a /\ h.order[j] = b
    BY DEF Precedes
  <2>2. \E x, y \in 1 .. Len(g.order) : x < y /\ a = g.order[x] /\ b = g.order[y]
    BY <1>1, <2>1 DEF InTheOrderOf
  <2> QED
    BY <2>2 DEF Precedes
<1> QED
  BY <1>1, <1>2 DEF InPlace

----------------------------------------------------------------------------
(* Whole graphs.  That the links agree and the regions of the list are kept*)
(* is not inductive: a sort needs an acyclic graph, an optimization needs  *)
(* every input slot connected and every layer but one read.                *)

(* What every operation of the pass keeps of the graph.                    *)
Whole(g) ==
  /\ Linked(g)
  /\ Regional(g.order, g.kind)
  /\ Acyclic(g)
  /\ \A l \in LayersOf(g) :
       /\ DOMAIN g.ins[l] = 1 .. NumInputSlots(g.kind[l])
       /\ \A i \in DOMAIN g.ins[l] : g.ins[l][i] \in LayersOf(g) /\ g.kind[g.ins[l][i]] # "output"

LEMMA WholeIs ==
  ASSUME NEW g, Whole(g)
  PROVE  /\ Linked(g) /\ OutputsUnread(g) /\ None \notin LayersOf(g) /\ DOMAIN g.ins = LayersOf(g)
         /\ \A l \in LayersOf(g) : l \in Nat /\ DOMAIN g.ins[l] = 1 .. NumInputSlots(g.kind[l])
         /\ \A l \in LayersOf(g) : \A i \in DOMAIN g.ins[l] :
              i \in Nat /\ g.ins[l][i] \in LayersOf(g) /\ g.ins[l][i] # None /\ g.kind[g.ins[l][i]] # "output"
         /\ \A l \in LayersOf(g) : ToSet(g.outs[l]) = Readers(g.ins, l)
         /\ \A l \in LayersOf(g) : Lists(g.outs[l], Readers(g.ins, l))
BY LinkedIs DEF Whole, OutputsUnread

LEMMA UnreadIs ==
  ASSUME NEW g, Whole(g), NEW l \in LayersOf(g)
  PROVE  l \in Unread(g) <=>
           g.kind[l] # "output" /\ \A x \in LayersOf(g) : \A i \in DOMAIN g.ins[x] : g.ins[x][i] # l
<1>1. Lists(g.outs[l], Readers(g.ins, l))
  BY WholeIs
<1>2. g.outs[l] = <<>> <=> Readers(g.ins, l) = {}
  BY <1>1, ListsEmpty
<1>3. Readers(g.ins, l) = {} <=> \A x \in LayersOf(g) : \A i \in DOMAIN g.ins[x] : g.ins[x][i] # l
  <2>1. ASSUME Readers(g.ins, l) = {}, NEW x \in LayersOf(g), NEW i \in DOMAIN g.ins[x] PROVE g.ins[x][i] # l
    <3>1. i \in Nat /\ x \in DOMAIN g.ins
      BY WholeIs
    <3>2. <<x, i>> \notin Readers(g.ins, l)
      BY <2>1
    <3> QED
      BY <3>1, <3>2, ReaderIs
  <2>2. ASSUME \A x \in LayersOf(g) : \A i \in DOMAIN g.ins[x] : g.ins[x][i] # l PROVE Readers(g.ins, l) = {}
    <3> SUFFICES ASSUME NEW e \in Readers(g.ins, l) PROVE FALSE
      OBVIOUS
    <3>1. e[1] \in DOMAIN g.ins /\ e[2] \in DOMAIN g.ins[e[1]] /\ g.ins[e[1]][e[2]] = l
      BY ReaderIsSlot
    <3>2. DOMAIN g.ins = LayersOf(g)
      BY WholeIs
    <3> QED
      BY <2>2, <3>1, <3>2
  <2> QED
    BY <2>1, <2>2
<1> QED
  BY <1>2, <1>3 DEF Unread, IsOutputUnconnected

LEMMA WholeSame ==
  ASSUME NEW g, Whole(g), NEW h, Same(h, g)
  PROVE  Whole(h) /\ LayersOf(h) = LayersOf(g) /\ h.kind = g.kind /\ h.ins = g.ins /\ h.outs = g.outs
         /\ h.order = g.order
<1>1. Linked(h) /\ LayersOf(h) = LayersOf(g) /\ h.kind = g.kind /\ h.ins = g.ins /\ h.order = g.order
      /\ h.outs = g.outs
  BY LinkedSame DEF Whole, Same
<1>2. Acyclic(h)
  BY <1>1 DEF Whole, Acyclic, Ranks
<1> QED
  BY <1>1, <1>2 DEF Whole

LEMMA WholeInfo ==
  ASSUME NEW g, Whole(g), NEW n, NEW v, NEW h, h = [g EXCEPT !.info[n] = v]
  PROVE  Whole(h) /\ LayersOf(h) = LayersOf(g) /\ h.kind = g.kind /\ h.ins = g.ins /\ h.outs = g.outs
         /\ InPlace(h, g)
<1>1. IsRecord(g)
  BY DEF Whole, Linked
<1>2. Same(h, g) /\ h.inOrder = g.inOrder
  BY <1>1, SameInfo
<1>3. h.order = g.order
  BY <1>2 DEF Same
<1> QED
  BY <1>2, <1>3, WholeSame, InPlaceSame

(* What read s reads d.                                                    *)
Redirected(h, g, s, d) ==
  /\ LayersOf(h) = LayersOf(g) /\ h.kind = g.kind /\ InPlace(h, g)
  /\ \A x \in LayersOf(g) : DOMAIN h.ins[x] = DOMAIN g.ins[x]
  /\ \A x \in LayersOf(g) : \A i \in DOMAIN g.ins[x] :
       h.ins[x][i] = IF g.ins[x][i] = s THEN d ELSE g.ins[x][i]

LEMMA WholeMoveAll ==
  ASSUME NEW g, Whole(g), NEW s \in LayersOf(g), NEW d \in LayersOf(g), s # d, g.kind[d] # "output",
         NEW M, NEW r, Ranks(r, M, g), r[d] <= r[s], NEW h, h = MoveAllConnections(g, s, d)
  PROVE  Whole(h) /\ Redirected(h, g, s, d) /\ h.order = g.order /\ Ranks(r, M, h)
<1>1. /\ Linked(h) /\ h.kind = g.kind /\ h.order = g.order /\ h.inOrder = g.inOrder
      /\ Moved(g.ins, h.ins, Readers(g.ins, s), d)
  BY LinkedMoveAll DEF Whole
<1>2. LayersOf(h) = LayersOf(g)
  BY <1>1 DEF LayersOf
<1>3. DOMAIN g.ins = LayersOf(g)
  BY WholeIs
<1>4. ASSUME NEW x \in LayersOf(g), NEW i \in DOMAIN g.ins[x]
      PROVE  h.ins[x][i] = IF g.ins[x][i] = s THEN d ELSE g.ins[x][i]
  <2>1. <<x, i>> \in Readers(g.ins, s) <=> g.ins[x][i] = s
    BY <1>3, WholeIs, ReaderIs
  <2>2. h.ins[x][i] = IF <<x, i>> \in Readers(g.ins, s) THEN d ELSE g.ins[x][i]
    BY <1>1, <1>3 DEF Moved
  <2> QED
    BY <2>1, <2>2
<1>5. Redirected(h, g, s, d)
  BY <1>1, <1>2, <1>3, <1>4, InPlaceSame DEF Redirected, Moved
<1>6. M \in Nat /\ r \in [LayersOf(g) -> 0 .. M]
      /\ \A x \in LayersOf(g) : \A i \in DOMAIN g.ins[x] : r[g.ins[x][i]] < r[x]
  BY WholeIs DEF Ranks
<1>7. \A x \in LayersOf(h) : \A i \in DOMAIN h.ins[x] : r[h.ins[x][i]] < r[x]
  <2> TAKE x \in LayersOf(h)
  <2> TAKE i \in DOMAIN h.ins[x]
  <2>1. x \in LayersOf(g) /\ i \in DOMAIN g.ins[x]
    BY <1>2, <1>5 DEF Redirected
  <2>2. r[g.ins[x][i]] < r[x] /\ r[x] \in Nat /\ r[d] \in Nat /\ r[s] \in Nat
    BY <1>6, <2>1
  <2>3. g.ins[x][i] = s => h.ins[x][i] = d
    BY <1>4, <2>1
  <2>4. g.ins[x][i] # s => h.ins[x][i] = g.ins[x][i]
    BY <1>4, <2>1
  <2> QED
    BY <2>2, <2>3, <2>4
<1>8. Ranks(r, M, h)
  BY <1>2, <1>6, <1>7 DEF Ranks
<1>9. Acyclic(h)
  BY <1>2, <1>6, <1>8 DEF Acyclic
<1>10. \A x \in LayersOf(h) : /\ DOMAIN h.ins[x] = 1 .. NumInputSlots(h.kind[x])
                              /\ \A i \in DOMAIN h.ins[x] : h.ins[x][i] \in LayersOf(h) /\ h.kind[h.ins[x][i]] # "output"
  BY <1>1, <1>2, <1>5 DEF Whole, Redirected
<1>11. Regional(h.order, h.kind)
  BY <1>1 DEF Whole
<1> QED
  BY <1>1, <1>5, <1>8, <1>9, <1>10, <1>11 DEF Whole

LEMMA WholeErase ==
  ASSUME NEW g, Whole(g), NEW l \in Unread(g), NEW h, h = EraseLayer(g, l)
  PROVE  /\ Whole(h) /\ LayersOf(h) = LayersOf(g) \ {l} /\ l \in LayersOf(g) /\ InPlace(h, g)
         /\ \A x \in LayersOf(h) : h.ins[x] = g.ins[x] /\ h.kind[x] = g.kind[x]
<1>1. l \in LayersOf(g) /\ Linked(g)
  BY DEF Unread, Whole
<1>2. Linked(h) /\ Erased(h, g, l)
  BY <1>1, LinkedErase
<1>3. LayersOf(h) = LayersOf(g) \ {l} /\ \A x \in LayersOf(h) : h.kind[x] = g.kind[x]
  BY <1>2 DEF Erased
<1>4. \A x \in LayersOf(g) : \A i \in DOMAIN g.ins[x] : g.ins[x][i] # l
  BY <1>1, UnreadIs
<1>5. \A x \in LayersOf(h) : DOMAIN h.ins[x] = DOMAIN g.ins[x] /\ \A i \in DOMAIN g.ins[x] : h.ins[x][i] = g.ins[x][i]
  BY <1>2, <1>3, <1>4 DEF Erased
<1>6. \A x \in LayersOf(h) : h.ins[x] = g.ins[x]
  <2> TAKE x \in LayersOf(h)
  <2>1. PICK a \in Nat : g.ins[x] \in [1 .. a -> LayersOf(g) \cup {None}]
    BY <1>1, <1>3, LinkedIs
  <2>2. PICK b \in Nat : h.ins[x] \in [1 .. b -> LayersOf(h) \cup {None}]
    BY <1>2, LinkedIs
  <2> QED
    BY <1>5, <2>1, <2>2
<1>7. PICK M \in Nat : \E r \in [LayersOf(g) -> 0 .. M] : Ranks(r, M, g)
  BY DEF Whole, Acyclic
<1>8. PICK r \in [LayersOf(g) -> 0 .. M] : Ranks(r, M, g)
  BY <1>7
<1>9. PICK q : q = [x \in LayersOf(h) |-> r[x]]
  OBVIOUS
<1>10. ASSUME NEW x \in LayersOf(h), NEW i \in DOMAIN h.ins[x] PROVE h.ins[x][i] \in LayersOf(h) /\ h.kind[h.ins[x][i]] # "output" /\ q[h.ins[x][i]] < q[x]
  <2>1. x \in LayersOf(g) /\ i \in DOMAIN g.ins[x] /\ h.ins[x][i] = g.ins[x][i]
    BY <1>3, <1>5
  <2>2. g.ins[x][i] \in LayersOf(g) /\ g.ins[x][i] # None /\ g.kind[g.ins[x][i]] # "output" /\ g.ins[x][i] # l
    BY <1>4, <2>1, WholeIs
  <2>3. r[g.ins[x][i]] < r[x]
    BY <1>8, <2>1, <2>2 DEF Ranks
  <2> QED
    BY <1>3, <1>9, <2>1, <2>2, <2>3
<1>11. Acyclic(h)
  <2>1. q \in [LayersOf(h) -> 0 .. M]
    BY <1>3, <1>8, <1>9
  <2> QED
    BY <1>7, <1>10, <2>1 DEF Acyclic, Ranks
<1>12. Regional(h.order, h.kind)
  BY <1>1, <1>2, RegionalErase DEF Whole
<1>13. \A x \in LayersOf(h) : DOMAIN h.ins[x] = 1 .. NumInputSlots(h.kind[x])
  BY <1>3, <1>5, WholeIs
<1> QED
  BY <1>1, <1>2, <1>3, <1>6, <1>10, <1>11, <1>12, <1>13, EraseInPlace DEF Whole

LEMMA WholeSort ==
  ASSUME NEW g, Whole(g), NEW h, h = TopologicalSort(g)
  PROVE  /\ Whole(h) /\ LayersOf(h) = LayersOf(g) /\ h.kind = g.kind /\ h.ins = g.ins
         /\ h.inOrder /\ (g.inOrder => h = g)
<1>1. /\ Linked(h) /\ h.kind = g.kind /\ h.ins = g.ins /\ Regional(h.order, h.kind)
      /\ h.inOrder /\ (g.inOrder => h = g)
  BY WholeIs, LinkedSort DEF Whole
<1>2. LayersOf(h) = LayersOf(g)
  BY <1>1 DEF LayersOf
<1>3. Acyclic(h)
  BY <1>1, <1>2 DEF Whole, Acyclic, Ranks
<1> QED
  BY <1>1, <1>2, <1>3 DEF Whole

----------------------------------------------------------------------------
(* Inserting a layer.                                                      *)

LEMMA NewIs ==
  ASSUME NEW g, Linked(g), LayersOf(g) # {}
  PROVE  New(g) \in Nat /\ New(g) # None /\ New(g) \notin LayersOf(g)
<1>1. PICK k \in Nat : LayersOf(g) \subseteq 1 .. k
  BY DEF Linked
<1>2. LayersOf(g) \in SUBSET Nat /\ \A l \in LayersOf(g) : l <= k
  BY <1>1
<1>3. Max(LayersOf(g)) \in LayersOf(g) /\ \A l \in LayersOf(g) : l <= Max(LayersOf(g))
  BY <1>2, MaxIs
<1> QED
  BY <1>2, <1>3 DEF New, None

LEMMA BetweenIs ==
  ASSUME NEW g, Linked(g), Regional(g.order, g.kind), NEW pos \in Nat, NEW kind, kind \notin {"input", "output"}
  PROVE  Between(g, pos) \in Nat /\ RightPlace(g, Between(g, pos), kind)
<1>1. PICK n : n = Len(g.order)
  OBVIOUS
<1>2. PICK a : a = NumInputs(g)
  OBVIOUS
<1>3. PICK b : b = NumOutputs(g)
  OBVIOUS
<1>4. n \in Nat /\ a \in 0 .. n /\ b \in 0 .. n /\ a + b <= n
  BY <1>1, <1>2, <1>3, RegionsAre
<1>5. PICK c : c = Between(g, pos)
  OBVIOUS
<1>6. c = IF pos > n - b + 1 THEN n - b + 1 ELSE IF pos < a + 1 THEN a + 1 ELSE pos
  BY <1>1, <1>2, <1>3, <1>5 DEF Between
<1>7. c \in Nat /\ c >= a + 1 /\ c <= n - b + 1
  BY <1>4, <1>6
<1> QED
  BY <1>1, <1>2, <1>3, <1>5, <1>7 DEF RightPlace

LEMMA PosIs ==
  ASSUME NEW g, Linked(g), NEW l \in LayersOf(g)
  PROVE  PosInGraph(g, l) \in 1 .. Len(g.order) /\ g.order[PosInGraph(g, l)] = l /\ Len(g.order) \in Nat
<1>1. Lists(g.order, LayersOf(g))
  BY DEF Linked
<1>2. DOMAIN g.order = 1 .. Len(g.order) /\ Len(g.order) \in Nat
  BY <1>1, ListsToSet
<1>3. \E i \in DOMAIN g.order : g.order[i] = l
  BY <1>1, <1>2 DEF Lists
<1> QED
  BY <1>2, <1>3 DEF PosInGraph

(* The layer n of that kind reads what the input slot i of x read, which   *)
(* reads n.                                                                *)
Inserted(h, g, n, x, i, kind) ==
  /\ n \notin LayersOf(g) /\ LayersOf(h) = LayersOf(g) \cup {n} /\ InPlace(h, g)
  /\ h.kind[n] = kind /\ \A m \in LayersOf(g) : h.kind[m] = g.kind[m]
  /\ DOMAIN h.ins[n] = 1 .. 1 /\ h.ins[n][1] = g.ins[x][i]
  /\ h.ins[x][i] = n
  /\ \A m \in LayersOf(g) : DOMAIN h.ins[m] = DOMAIN g.ins[m]
  /\ \A m \in LayersOf(g) : \A j \in DOMAIN g.ins[m] :
       m # x \/ j # i => h.ins[m][j] = g.ins[m][j]

(* The ranks when n comes right behind p.                                  *)
RankedBehind(q, r, g, n, p) ==
  q[n] = 2 * r[p] + 1 /\ \A m \in LayersOf(g) : q[m] = 2 * r[m]

LEMMA LinkedInsert ==
  ASSUME NEW g, Whole(g), NEW x \in LayersOf(g), NEW i \in DOMAIN g.ins[x], NEW kind, kind \notin {"input", "output"},
         NEW param, NEW n \in Nat, n # None, n \notin LayersOf(g),
         NEW h, h = InsertNewLayer(g, n, <<x, i>>, kind, param)
  PROVE  Linked(h) /\ Inserted(h, g, n, x, i, kind) /\ Regional(h.order, h.kind)
<1>0. PICK e : e = <<x, i>> /\ e[1] = x /\ e[2] = i
  OBVIOUS
<1>1. PICK p : p = g.ins[x][i]
  OBVIOUS
<1>2. p \in LayersOf(g) /\ p # None /\ Linked(g) /\ i \in Nat
  BY <1>1, WholeIs
<1>3. PICK pos : pos = InsertPosition(g, e)
  OBVIOUS
<1>4. pos \in Nat /\ RightPlace(g, pos, kind)
  <2>1. PosInGraph(g, p) + 1 \in Nat
    BY <1>2, PosIs
  <2>2. pos = Between(g, PosInGraph(g, p) + 1)
    BY <1>0, <1>1, <1>2, <1>3 DEF InsertPosition
  <2> QED
    BY <2>1, <2>2, BetweenIs DEF Whole
<1>5. PICK h0 : h0 = NewLayer(g, n, pos, kind, param, 1)
  OBVIOUS
<1>6. pos \in 1 .. Len(g.order) + 1
  <2>1. PICK len : len = Len(g.order)
    OBVIOUS
  <2>2. PICK a : a = NumInputs(g)
    OBVIOUS
  <2>3. PICK b : b = NumOutputs(g)
    OBVIOUS
  <2>4. len \in Nat /\ a \in 0 .. len /\ b \in 0 .. len
    BY <2>1, <2>2, <2>3, RegionsAre DEF Whole
  <2>5. pos >= a + 1 /\ pos <= len - b + 1
    BY <1>4, <2>1, <2>2, <2>3 DEF RightPlace
  <2> QED
    BY <1>4, <2>1, <2>4, <2>5
<1>7. Linked(h0) /\ Added(h0, g, n, pos, kind, 1)
  BY <1>2, <1>5, <1>6, LinkedNewLayer
<1>8. Regional(h0.order, h0.kind)
  BY <1>4, <1>7, RegionalInsert DEF Whole
<1>9. /\ LayersOf(h0) = LayersOf(g) \cup {n} /\ \A m \in LayersOf(g) : h0.ins[m] = g.ins[m]
      /\ h0.ins[n] = [j \in 1 .. 1 |-> None] /\ DOMAIN h0.ins = LayersOf(h0)
      /\ h0.kind[n] = kind /\ \A m \in LayersOf(g) : h0.kind[m] = g.kind[m]
  BY <1>7 DEF Added
<1>10. PICK h1 : h1 = Disconnect(h0, p, e)
  OBVIOUS
<1>11. /\ Linked(h1) /\ h1.kind = h0.kind /\ h1.order = h0.order /\ h1.inOrder = h0.inOrder
       /\ Moved(h0.ins, h1.ins, {<<x, i>>}, None)
  <2>1. x \in LayersOf(h0) /\ p \in LayersOf(h0) /\ i \in DOMAIN h0.ins[x] /\ h0.ins[x][i] = p
    BY <1>1, <1>2, <1>9
  <2> QED
    BY <1>0, <1>7, <1>10, <2>1, LinkedDisconnect
<1>12. LayersOf(h1) = LayersOf(h0)
  BY <1>11 DEF LayersOf
<1>13. /\ DOMAIN h1.ins = LayersOf(h0)
       /\ \A m \in LayersOf(h0) : DOMAIN h1.ins[m] = DOMAIN h0.ins[m]
       /\ \A m \in LayersOf(h0) : \A j \in DOMAIN h0.ins[m] :
            h1.ins[m][j] = IF m = x /\ j = i THEN None ELSE h0.ins[m][j]
  BY <1>9, <1>11 DEF Moved
<1>14. PICK h2 : h2 = Connect(h1, p, <<n, 1>>)
  OBVIOUS
<1>15. /\ Linked(h2) /\ h2.kind = h1.kind /\ h2.order = h1.order /\ h2.inOrder = h1.inOrder
       /\ Moved(h1.ins, h2.ins, {<<n, 1>>}, p)
  <2>1. n \in LayersOf(h1) /\ p \in LayersOf(h1) /\ 1 \in DOMAIN h1.ins[n] /\ h1.ins[n][1] = None
    BY <1>2, <1>9, <1>12, <1>13
  <2> QED
    BY ONLY <1>11, <1>14, <2>1, LinkedConnect, SMTT(30)
<1>16. LayersOf(h2) = LayersOf(h0)
  BY <1>12, <1>15 DEF LayersOf
<1>17. /\ DOMAIN h2.ins = LayersOf(h0)
       /\ \A m \in LayersOf(h0) : DOMAIN h2.ins[m] = DOMAIN h0.ins[m]
       /\ \A m \in LayersOf(h0) : \A j \in DOMAIN h0.ins[m] :
            h2.ins[m][j] = IF m = n /\ j = 1 THEN p ELSE h1.ins[m][j]
  BY <1>13, <1>15 DEF Moved
<1>18. PICK h3 : h3 = [h2 EXCEPT !.info[n] = h0.info[p]]
  OBVIOUS
<1>19. Same(h3, h2) /\ h3.inOrder = h2.inOrder
  <2>1. IsRecord(h2)
    BY <1>15 DEF Linked
  <2> QED
    BY ONLY <1>18, <2>1, SameInfo
<1>20. Linked(h3) /\ LayersOf(h3) = LayersOf(h0) /\ h3.kind = h2.kind /\ h3.order = h2.order /\ h3.ins = h2.ins
  BY <1>15, <1>16, <1>19, LinkedSame DEF Same
<1>21. h = Connect(h3, n, e)
  BY <1>0, <1>1, <1>2, <1>3, <1>5, <1>10, <1>14, <1>18 DEF InsertNewLayer
<1>22. /\ Linked(h) /\ h.kind = h3.kind /\ h.order = h3.order /\ h.inOrder = h3.inOrder
       /\ Moved(h3.ins, h.ins, {<<x, i>>}, n)
  <2>1. x # n /\ x \in LayersOf(h3) /\ n \in LayersOf(h3) /\ i \in DOMAIN h3.ins[x] /\ h3.ins[x][i] = None
    BY <1>9, <1>13, <1>17, <1>20
  <2> QED
    BY <1>0, <1>20, <1>21, <2>1, LinkedConnect
<1>23. LayersOf(h) = LayersOf(h0)
  BY <1>20, <1>22 DEF LayersOf
<1>24. /\ \A m \in LayersOf(h0) : DOMAIN h.ins[m] = DOMAIN h0.ins[m]
       /\ \A m \in LayersOf(h0) : \A j \in DOMAIN h0.ins[m] :
            h.ins[m][j] = IF m = x /\ j = i THEN n ELSE h2.ins[m][j]
  BY <1>17, <1>20, <1>22 DEF Moved
<1>25. h.kind = h0.kind /\ h.order = h0.order /\ h.inOrder = h0.inOrder
  BY <1>11, <1>15, <1>19, <1>20, <1>22
<1>26. /\ DOMAIN h.ins[n] = 1 .. 1 /\ h.ins[n][1] = p /\ h.ins[x][i] = n
       /\ \A m \in LayersOf(g) : DOMAIN h.ins[m] = DOMAIN g.ins[m]
       /\ \A m \in LayersOf(g) : \A j \in DOMAIN g.ins[m] : m # x \/ j # i => h.ins[m][j] = g.ins[m][j]
  BY <1>9, <1>13, <1>17, <1>24
<1>27. InPlace(h, g)
  <2>1. h.order = InsertAt(g.order, pos, n) /\ h.inOrder = g.inOrder
    BY <1>7, <1>25 DEF Added
  <2> QED
    BY <1>2, <1>6, <2>1, InsertInPlace
<1>28. Inserted(h, g, n, x, i, kind)
  BY <1>1, <1>9, <1>23, <1>25, <1>26, <1>27 DEF Inserted
<1> QED
  BY <1>8, <1>22, <1>25, <1>28

LEMMA WholeInsert ==
  ASSUME NEW g, Whole(g), NEW x \in LayersOf(g), NEW i \in DOMAIN g.ins[x],
         NEW kind, kind \notin {"input", "output"}, NumInputSlots(kind) = 1, NEW param,
         NEW n, n = New(g), NEW h, h = InsertNewLayer(g, n, <<x, i>>, kind, param)
  PROVE  /\ Whole(h) /\ Inserted(h, g, n, x, i, kind)
         /\ \A M, r : Ranks(r, M, g) => \E q : Ranks(q, 2 * M + 1, h) /\ RankedBehind(q, r, g, n, g.ins[x][i])
<1>1. n \in Nat /\ n # None /\ n \notin LayersOf(g)
  BY NewIs DEF Whole
<1>2. Linked(h) /\ Inserted(h, g, n, x, i, kind) /\ Regional(h.order, h.kind)
  BY <1>1, LinkedInsert
<1>3. PICK p : p = g.ins[x][i]
  OBVIOUS
<1>4. p \in LayersOf(g) /\ g.kind[p] # "output"
  BY <1>3, WholeIs
<1>5. ASSUME NEW M, NEW r, Ranks(r, M, g) PROVE \E q : Ranks(q, 2 * M + 1, h) /\ RankedBehind(q, r, g, n, p)
  <2>1. M \in Nat /\ r \in [LayersOf(g) -> 0 .. M]
        /\ \A y \in LayersOf(g) : \A j \in DOMAIN g.ins[y] : r[g.ins[y][j]] < r[y]
    BY <1>5, WholeIs DEF Ranks
  <2>2. PICK q : q = [m \in LayersOf(g) \cup {n} |-> IF m = n THEN 2 * r[p] + 1 ELSE 2 * r[m]]
    OBVIOUS
  <2>3. q[n] = 2 * r[p] + 1 /\ \A m \in LayersOf(g) : q[m] = 2 * r[m]
    BY <1>1, <2>2
  <2>4. r[p] \in 0 .. M /\ \A m \in LayersOf(g) : r[m] \in 0 .. M
    BY <1>4, <2>1
  <2>5. q \in [LayersOf(h) -> 0 .. 2 * M + 1]
    <3>1. \A m \in LayersOf(g) \cup {n} : q[m] \in 0 .. 2 * M + 1
      <4> TAKE m \in LayersOf(g) \cup {n}
      <4>1. CASE m = n
        BY <2>1, <2>3, <2>4, <4>1
      <4>2. CASE m \in LayersOf(g)
        <5>1. r[m] \in 0 .. M /\ q[m] = 2 * r[m]
          BY <2>3, <2>4, <4>2
        <5> QED
          BY <2>1, <5>1
      <4> QED
        BY <4>1, <4>2
    <3> QED
      BY <1>2, <2>2, <3>1 DEF Inserted
  <2>6. ASSUME NEW y \in LayersOf(h), NEW j \in DOMAIN h.ins[y] PROVE q[h.ins[y][j]] < q[y]
    <3>1. CASE y = n
      <4>1. h.ins[y][j] = p
        BY <1>2, <1>3, <2>6, <3>1 DEF Inserted
      <4>2. q[p] = 2 * r[p] /\ r[p] \in Nat
        BY <1>4, <2>1, <2>3
      <4> QED
        BY <2>3, <3>1, <4>1, <4>2
    <3>2. CASE y = x /\ j = i
      <4>1. h.ins[y][j] = n /\ r[p] < r[x] /\ r[p] \in Nat /\ r[x] \in Nat /\ q[x] = 2 * r[x]
        BY <1>2, <1>3, <1>4, <2>1, <2>3, <3>2 DEF Inserted
      <4> QED
        BY <2>3, <3>2, <4>1
    <3>3. CASE y # n /\ ~(y = x /\ j = i)
      <4>1. y \in LayersOf(g) /\ j \in DOMAIN g.ins[y] /\ h.ins[y][j] = g.ins[y][j]
        BY <1>2, <3>3 DEF Inserted
      <4>2. g.ins[y][j] \in LayersOf(g)
        BY <4>1, WholeIs
      <4>3. PICK a, b : a = r[g.ins[y][j]] /\ b = r[y]
        OBVIOUS
      <4>4. a \in Nat /\ b \in Nat /\ a < b
        BY <2>1, <4>1, <4>2, <4>3
      <4>5. q[g.ins[y][j]] = 2 * a /\ q[y] = 2 * b
        BY <2>3, <4>1, <4>2, <4>3
      <4> QED
        BY <4>1, <4>4, <4>5
    <3> QED
      BY <3>1, <3>2, <3>3
  <2>7. Ranks(q, 2 * M + 1, h)
    BY <2>1, <2>5, <2>6 DEF Ranks
  <2> QED
    BY <2>3, <2>7 DEF RankedBehind
<1>6. Acyclic(h)
  <2>1. PICK M \in Nat : \E r \in [LayersOf(g) -> 0 .. M] : Ranks(r, M, g)
    BY DEF Whole, Acyclic
  <2>2. PICK r \in [LayersOf(g) -> 0 .. M] : Ranks(r, M, g)
    BY <2>1
  <2>3. PICK q : Ranks(q, 2 * M + 1, h)
    BY <1>5, <2>2
  <2>4. PICK K : K = 2 * M + 1
    OBVIOUS
  <2>5. Ranks(q, K, h)
    BY <2>3, <2>4
  <2> QED
    BY <2>5 DEF Acyclic, Ranks
<1>7. ASSUME NEW y \in LayersOf(h)
      PROVE  /\ DOMAIN h.ins[y] = 1 .. NumInputSlots(h.kind[y])
             /\ \A j \in DOMAIN h.ins[y] : h.ins[y][j] \in LayersOf(h) /\ h.kind[h.ins[y][j]] # "output"
  <2>1. CASE y = n
    <3>1. DOMAIN h.ins[y] = 1 .. 1 /\ h.ins[y][1] = p /\ h.kind[y] = kind /\ h.kind[p] = g.kind[p] /\ p \in LayersOf(h)
      BY <1>2, <1>3, <1>4, <2>1 DEF Inserted
    <3>2. NumInputSlots(h.kind[y]) = 1 /\ \A j \in 1 .. 1 : j = 1
      BY <3>1
    <3>3. h.kind[p] # "output"
      BY <1>4, <3>1
    <3> QED
      BY <3>1, <3>2, <3>3
  <2>2. CASE y # n
    <3>1. y \in LayersOf(g) /\ DOMAIN h.ins[y] = DOMAIN g.ins[y] /\ h.kind[y] = g.kind[y]
      BY <1>2, <2>2 DEF Inserted
    <3>2. DOMAIN g.ins[y] = 1 .. NumInputSlots(g.kind[y])
      BY <3>1, WholeIs
    <3>3. ASSUME NEW j \in DOMAIN h.ins[y] PROVE h.ins[y][j] \in LayersOf(h) /\ h.kind[h.ins[y][j]] # "output"
      <4>1. CASE y = x /\ j = i
        BY <1>2, <4>1 DEF Inserted
      <4>2. CASE ~(y = x /\ j = i)
        <5>1. j \in DOMAIN g.ins[y] /\ h.ins[y][j] = g.ins[y][j]
          BY <1>2, <3>1, <4>2 DEF Inserted
        <5>2. g.ins[y][j] \in LayersOf(g) /\ g.kind[g.ins[y][j]] # "output"
          BY <3>1, <5>1, WholeIs
        <5> QED
          BY <1>2, <5>1, <5>2 DEF Inserted
      <4> QED
        BY <4>1, <4>2
    <3> QED
      BY <3>1, <3>2, <3>3
  <2> QED
    BY <2>1, <2>2
<1>8. Whole(h)
  BY <1>2, <1>6, <1>7 DEF Whole
<1> QED
  BY <1>2, <1>3, <1>5, <1>8

----------------------------------------------------------------------------
(* Reading.  An optimization gives the readers of a layer to another one;  *)
(* the layer it runs on is kept, or can be done without.                   *)

Reads(g, x, s) == x \in LayersOf(g) /\ \E i \in DOMAIN g.ins[x] : g.ins[x][i] = s

(* Either the layer l stays read, or what l reads does without it.         *)
Kept(g, l) ==
  \/ \E x \in LayersOf(g) \ Unread(g) : Reads(g, x, l)
  \/ /\ DOMAIN g.ins[l] = 1 .. 1
     /\ \E x \in LayersOf(g) \ Unread(g) : x # l /\ Reads(g, x, g.ins[l][1])

LEMMA UnreadReads ==
  ASSUME NEW g, Whole(g), NEW l \in LayersOf(g)
  PROVE  l \in Unread(g) <=> g.kind[l] # "output" /\ \A x : ~Reads(g, x, l)
BY UnreadIs DEF Reads

LEMMA UnreadLayers ==
  ASSUME NEW g
  PROVE  Unread(g) \subseteq LayersOf(g)
BY DEF Unread

LEMMA ReadIs ==
  ASSUME NEW g, Whole(g), NEW x, NEW s, Reads(g, x, s)
  PROVE  /\ x \in LayersOf(g) /\ s \in LayersOf(g) /\ s # None /\ g.kind[s] # "output" /\ x # s
         /\ \A M, r : Ranks(r, M, g) => r[s] < r[x] /\ r[s] \in Nat /\ r[x] \in Nat
<1>1. PICK i \in DOMAIN g.ins[x] : g.ins[x][i] = s
  BY DEF Reads
<1>2. x \in LayersOf(g) /\ s \in LayersOf(g) /\ s # None /\ g.kind[s] # "output"
  BY <1>1, WholeIs DEF Reads
<1>3. ASSUME NEW M, NEW r, Ranks(r, M, g) PROVE r[s] < r[x] /\ r[s] \in Nat /\ r[x] \in Nat
  BY <1>1, <1>2, <1>3 DEF Ranks
<1>4. PICK M \in Nat : \E r \in [LayersOf(g) -> 0 .. M] : Ranks(r, M, g)
  BY DEF Whole, Acyclic
<1>5. PICK r \in [LayersOf(g) -> 0 .. M] : Ranks(r, M, g)
  BY <1>4
<1>6. x # s
  BY <1>3, <1>5
<1> QED
  BY <1>2, <1>3, <1>6

LEMMA RedirectedReads ==
  ASSUME NEW g, Whole(g), NEW h, Whole(h), NEW s, NEW d, Redirected(h, g, s, d)
  PROVE  /\ \A x, y : Reads(g, x, y) /\ y # s => Reads(h, x, y)
         /\ \A x : Reads(g, x, s) => Reads(h, x, d)
         /\ \A x, y : Reads(h, x, y) => (Reads(g, x, y) /\ y # s) \/ (y = d /\ Reads(g, x, s))
BY DEF Redirected, Reads

(* The readers of c, a reader of l, are given to d, which is l, or what l  *)
(* reads, or a layer beside l.                                             *)
LEMMA MoveChild ==
  ASSUME NEW g, Whole(g), NEW l, NEW c, Reads(g, c, l), c \notin Unread(g), g.kind[c] # "output",
         \A x \in Unread(g) : ~Reads(g, x, c),
         NEW d, d \in LayersOf(g), d # c, g.kind[d] # "output",
         d = l \/ (DOMAIN g.ins[l] = 1 .. 1 /\ (d = g.ins[l][1] \/ (d # l /\ Reads(g, d, g.ins[l][1])))),
         NEW M, NEW r, Ranks(r, M, g), r[d] <= r[c],
         NEW h, h = MoveAllConnections(g, c, d)
  PROVE  Whole(h) /\ Redirected(h, g, c, d) /\ Unread(h) \subseteq (Unread(g) \ {d}) \cup {c} /\ Kept(h, l)
<1>1. c \in LayersOf(g) /\ l \in LayersOf(g) /\ c # l /\ r[l] < r[c] /\ r[l] \in Nat /\ r[c] \in Nat
  BY ReadIs
<1>2. Whole(h) /\ Redirected(h, g, c, d)
  BY <1>1, WholeMoveAll
<1>3. LayersOf(h) = LayersOf(g) /\ h.kind = g.kind
  BY <1>2 DEF Redirected
<1>4. PICK f : Reads(g, f, c)
  BY <1>1, UnreadReads
<1>5. f \in LayersOf(g) /\ f # c /\ r[c] < r[f] /\ r[f] \in Nat
  BY <1>4, ReadIs
<1>6. Reads(h, f, d)
  BY <1>2, <1>4, RedirectedReads
<1>7. ASSUME NEW x \in LayersOf(g), x \notin Unread(g), x # c PROVE x \notin Unread(h)
  <2>1. CASE g.kind[x] = "output"
    BY <1>2, <1>3, <2>1, UnreadReads
  <2>2. CASE g.kind[x] # "output"
    <3>1. PICK y : Reads(g, y, x)
      BY <1>7, <2>2, UnreadReads
    <3>2. Reads(h, y, x)
      BY <1>2, <1>7, <3>1, RedirectedReads
    <3> QED
      BY <1>2, <1>3, <3>2, UnreadReads
  <2> QED
    BY <2>1, <2>2
<1>8. d \notin Unread(h)
  BY <1>2, <1>3, <1>6, UnreadReads
<1>9. Unread(h) \subseteq (Unread(g) \ {d}) \cup {c}
  BY <1>3, <1>7, <1>8, UnreadLayers
<1>10. f \in LayersOf(h) \ Unread(h)
  <2>1. f \notin Unread(g)
    BY <1>4
  <2> QED
    BY <1>3, <1>5, <1>7, <2>1
<1>11. ASSUME d = l PROVE Kept(h, l)
  <2>1. Reads(h, f, l)
    BY <1>6, <1>11
  <2> QED
    BY <1>10, <2>1 DEF Kept
<1>12. ASSUME DOMAIN g.ins[l] = 1 .. 1, d = g.ins[l][1] \/ (d # l /\ Reads(g, d, g.ins[l][1]))
       PROVE  Kept(h, l)
  <2>1. PICK p : p = g.ins[l][1]
    OBVIOUS
  <2>2. Reads(g, l, p)
    <3>1. 1 \in DOMAIN g.ins[l]
      BY <1>12
    <3> QED
      BY <1>1, <2>1, <3>1 DEF Reads
  <2>3. r[p] < r[l] /\ r[p] \in Nat
    BY <2>2, ReadIs
  <2>4. p # c
    BY <1>1, <2>3
  <2>5. DOMAIN h.ins[l] = 1 .. 1 /\ h.ins[l][1] = p
    <3>1. 1 \in DOMAIN g.ins[l]
      BY <1>12
    <3> QED
      BY <1>1, <1>2, <1>12, <2>1, <2>4, <3>1 DEF Redirected
  <2>6. CASE d = p
    <3>1. f # l
      BY <1>1, <1>5
    <3>2. Reads(h, f, h.ins[l][1])
      BY <1>6, <2>5, <2>6
    <3> QED
      BY <1>10, <2>5, <3>1, <3>2 DEF Kept
  <2>7. CASE d # l /\ Reads(g, d, p)
    <3>1. Reads(h, d, p)
      BY <1>2, <2>4, <2>7, RedirectedReads
    <3>2. Reads(h, d, h.ins[l][1])
      BY <2>5, <3>1
    <3>3. d \in LayersOf(h) \ Unread(h)
      BY <1>3, <1>8
    <3> QED
      BY <2>5, <2>7, <3>2, <3>3 DEF Kept
  <2> QED
    BY <1>12, <2>1, <2>6, <2>7
<1> QED
  BY <1>2, <1>9, <1>11, <1>12

----------------------------------------------------------------------------
(* One connection of a layer.  Each optimization, run for a layer and one of*)
(* its children, keeps what a turn of OptimizeForConnection needs.         *)

LEMMA RankedIs ==
  ASSUME NEW g, Whole(g)
  PROVE  \E M, r : Ranks(r, M, g)
BY DEF Whole, Acyclic

LEMMA OneInput ==
  ASSUME NEW g, Whole(g), NEW c, NEW l, Reads(g, c, l), NumInputSlots(g.kind[c]) = 1
  PROVE  DOMAIN g.ins[c] = 1 .. 1 /\ g.ins[c][1] = l /\ \A s : Reads(g, c, s) => s = l
<1>1. c \in LayersOf(g)
  BY DEF Reads
<1>2. DOMAIN g.ins[c] = 1 .. 1
  BY <1>1, WholeIs
<1>3. \A i \in 1 .. 1 : i = 1
  OBVIOUS
<1> QED
  BY <1>2, <1>3 DEF Reads

(* The layers of a kind that read l.                                       *)
Children(g, l, kd) == {c \in LayersOf(g) : g.kind[c] = kd /\ Reads(g, c, l)}

(* The layers there were in g are still in h, in their places, and its     *)
(* children still read l.                                                  *)
Extends(h, g, l, kd) ==
  /\ LayersOf(g) \subseteq LayersOf(h) /\ InPlace(h, g)
  /\ \A x \in LayersOf(g) : h.kind[x] = g.kind[x]
  /\ \A c \in Children(g, l, kd) : Reads(h, c, l)

(* While an optimization runs for the connections of the layer l of g: all *)
(* that nothing reads are children in D, and l can do without them.        *)
Turn(h, g, l, kd, D) ==
  Whole(h) /\ Extends(h, g, l, kd) /\ Unread(h) \subseteq D /\ Kept(h, l)

LEMMA ChildIs ==
  ASSUME NEW g, Whole(g), NEW l, NEW kd \in {"permute", "reshape"}, NEW h, Whole(h), Extends(h, g, l, kd),
         NEW c \in Children(g, l, kd)
  PROVE  /\ c \in LayersOf(h) /\ l \in LayersOf(h) /\ h.kind[c] = kd /\ Reads(h, c, l) /\ c # l
         /\ DOMAIN h.ins[c] = 1 .. 1 /\ h.ins[c][1] = l /\ \A s : Reads(h, c, s) => s = l
<1>1. c \in LayersOf(h) /\ h.kind[c] = kd /\ Reads(h, c, l)
  BY DEF Extends, Children
<1>2. NumInputSlots(h.kind[c]) = 1
  BY <1>1 DEF NumInputSlots
<1> QED
  BY <1>1, <1>2, OneInput, ReadIs

LEMMA TurnMove ==
  ASSUME NEW g, Whole(g), NEW l, NEW kd \in {"permute", "reshape"},
         NEW D \in SUBSET Children(g, l, kd), NEW c \in Children(g, l, kd), c \notin D,
         NEW u, Whole(u), Extends(u, g, l, kd), NEW d, Unread(u) \subseteq D \cup {d},
         d \in LayersOf(u), d # c, u.kind[d] # "output", ~Reads(u, d, c),
         d = l \/ (DOMAIN u.ins[l] = 1 .. 1 /\ (d = u.ins[l][1] \/ (d # l /\ Reads(u, d, u.ins[l][1])))),
         NEW M, NEW r, Ranks(r, M, u), r[d] <= r[c],
         NEW h, h = MoveAllConnections(u, c, d)
  PROVE  Turn(h, g, l, kd, D \cup {c})
<1>1. c \in LayersOf(u) /\ u.kind[c] = kd /\ Reads(u, c, l) /\ c # l
  BY ChildIs
<1>2. c \notin Unread(u)
  OBVIOUS
<1>3. \A x \in Unread(u) : ~Reads(u, x, c)
  <2> TAKE x \in Unread(u)
  <2>1. CASE x = d
    BY <2>1
  <2>2. CASE x \in D
    <3>1. \A s : Reads(u, x, s) => s = l
      BY <2>2, ChildIs
    <3> QED
      BY <1>1, <3>1
  <2> QED
    BY <2>1, <2>2
<1>4. Whole(h) /\ Redirected(h, u, c, d) /\ Unread(h) \subseteq (Unread(u) \ {d}) \cup {c} /\ Kept(h, l)
  BY <1>1, <1>2, <1>3, MoveChild
<1>5. LayersOf(h) = LayersOf(u) /\ h.kind = u.kind
  BY <1>4 DEF Redirected
<1>6. \A b \in Children(g, l, kd) : Reads(h, b, l)
  <2> TAKE b \in Children(g, l, kd)
  <2>1. Reads(u, b, l)
    BY DEF Extends
  <2> QED
    BY <1>1, <1>4, <2>1, RedirectedReads
<1>7. Extends(h, g, l, kd)
  <2>1. InPlace(h, g)
    BY <1>4, InPlaceMore DEF Redirected, Extends
  <2> QED
    BY <1>5, <1>6, <2>1 DEF Extends
<1>8. Unread(h) \subseteq D \cup {c}
  BY <1>4
<1> QED
  BY <1>4, <1>7, <1>8 DEF Turn

(* A layer that is there before another cannot read it.                    *)
LEMMA ParentFirst ==
  ASSUME NEW g, Whole(g), NEW l, NEW c, Reads(g, c, l), NEW p, Reads(g, l, p)
  PROVE  p # c /\ ~Reads(g, p, c) /\ ~Reads(g, l, c) /\ p # l /\ c # l
         /\ \A M, r : Ranks(r, M, g) => r[p] < r[l] /\ r[l] < r[c] /\ r[p] \in Nat /\ r[l] \in Nat /\ r[c] \in Nat
<1>1. PICK M, r : Ranks(r, M, g)
  BY RankedIs
<1>2. r[p] < r[l] /\ r[l] < r[c] /\ r[p] \in Nat /\ r[l] \in Nat /\ r[c] \in Nat
  BY <1>1, ReadIs
<1>3. ~Reads(g, p, c)
  <2> SUFFICES ASSUME Reads(g, p, c) PROVE FALSE
    OBVIOUS
  <2>1. r[c] < r[p]
    BY <1>1, ReadIs
  <2> QED
    BY <1>2, <2>1
<1>4. ~Reads(g, l, c)
  <2> SUFFICES ASSUME Reads(g, l, c) PROVE FALSE
    OBVIOUS
  <2>1. r[c] < r[l]
    BY <1>1, ReadIs
  <2> QED
    BY <1>2, <2>1
<1>5. p # c /\ p # l /\ c # l
  BY <1>2
<1>6. ASSUME NEW K, NEW q, Ranks(q, K, g)
      PROVE  q[p] < q[l] /\ q[l] < q[c] /\ q[p] \in Nat /\ q[l] \in Nat /\ q[c] \in Nat
  BY <1>6, ReadIs
<1> QED
  BY <1>3, <1>4, <1>5, <1>6

LEMMA TurnMore ==
  ASSUME NEW g, NEW l, NEW kd, NEW D, NEW h, Turn(h, g, l, kd, D), NEW c
  PROVE  Turn(h, g, l, kd, D \cup {c})
BY DEF Turn

(* The readers of a child are given to what l reads.                       *)
LEMMA TurnToParent ==
  ASSUME NEW g, Whole(g), NEW l, NEW kd \in {"permute", "reshape"},
         NEW D \in SUBSET Children(g, l, kd), NEW c \in Children(g, l, kd), c \notin D,
         NEW h, Turn(h, g, l, kd, D), DOMAIN h.ins[l] = 1 .. 1,
         NEW u, u = MoveAllConnections(h, c, h.ins[l][1])
  PROVE  Turn(u, g, l, kd, D \cup {c})
<1>1. Whole(h) /\ Extends(h, g, l, kd) /\ Unread(h) \subseteq D
  BY DEF Turn
<1>2. Reads(h, c, l) /\ l \in LayersOf(h)
  BY <1>1, ChildIs
<1>3. PICK p : p = h.ins[l][1]
  OBVIOUS
<1>4. Reads(h, l, p)
  <2>1. 1 \in DOMAIN h.ins[l]
    OBVIOUS
  <2> QED
    BY <1>2, <1>3, <2>1 DEF Reads
<1>5. p \in LayersOf(h) /\ h.kind[p] # "output"
  BY <1>1, <1>4, ReadIs
<1>6. PICK M, r : Ranks(r, M, h)
  BY <1>1, RankedIs
<1>7. p # c /\ ~Reads(h, p, c)
  BY <1>1, <1>2, <1>4, ParentFirst
<1>8. r[p] <= r[c]
  <2>1. r[p] < r[l] /\ r[l] < r[c] /\ r[p] \in Nat /\ r[l] \in Nat /\ r[c] \in Nat
    BY <1>1, <1>2, <1>4, <1>6, ParentFirst
  <2> QED
    BY <2>1
<1>9. Unread(h) \subseteq D \cup {p}
  BY <1>1
<1> QED
  BY <1>1, <1>3, <1>5, <1>6, <1>7, <1>8, <1>9, TurnMove

LEMMA InversePermutesTurn ==
  ASSUME NEW g, Whole(g), NEW l, NEW kd \in {"permute", "reshape"},
         NEW D \in SUBSET Children(g, l, kd), NEW c \in Children(g, l, kd), c \notin D,
         NEW h, Turn(h, g, l, kd, D), DOMAIN h.ins[l] = 1 .. 1,
         NEW u, u = OptimizeInversePermutes(h, <<c, 1>>)
  PROVE  Turn(u, g, l, kd, D \cup {c})
<1>1. h.ins[c][1] = l
  BY ChildIs DEF Turn
<1>2. PICK e : e = <<c, 1>> /\ e[1] = c
  OBVIOUS
<1>3. u = IF IsInverse(h.param[c], h.param[l]) THEN MoveAllConnections(h, c, h.ins[l][1]) ELSE h
  BY <1>1, <1>2 DEF OptimizeInversePermutes
<1> QED
  BY <1>3, TurnToParent, TurnMore

(* The reshape n reads p beside l.                                         *)
Beside(u, g, l, n, p) ==
  /\ Whole(u) /\ n \notin LayersOf(g) /\ LayersOf(u) = LayersOf(g) \cup {n} /\ InPlace(u, g)
  /\ \A x \in LayersOf(g) : u.kind[x] = g.kind[x]
  /\ u.kind[n] = "reshape" /\ DOMAIN u.ins[l] = 1 .. 1 /\ u.ins[l][1] = p
  /\ \A s : Reads(u, n, s) <=> s = p
  /\ \A x, y : Reads(g, x, y) => Reads(u, x, y)
  /\ Unread(u) \subseteq Unread(g) \cup {n}
  /\ \A M, r : Ranks(r, M, g) => \E q : Ranks(q, 2 * M + 1, u) /\ RankedBehind(q, r, g, n, p)

(* A layer n of one input comes between the layer l and what it reads, and *)
(* is left beside l when l reads that again.                               *)
LEMMA InsertBeside ==
  ASSUME NEW g, Whole(g), NEW l \in LayersOf(g), DOMAIN g.ins[l] = 1 .. 1, NEW p, p = g.ins[l][1],
         NEW param, NEW v, NEW n, n = New(g),
         NEW u, u = MoveAllConnections([InsertNewLayer(g, n, <<l, 1>>, "reshape", param) EXCEPT !.info[n] = v], n, p)
  PROVE  Beside(u, g, l, n, p)
<1>1. PICK h : h = InsertNewLayer(g, n, <<l, 1>>, "reshape", param)
  OBVIOUS
<1>2. 1 \in DOMAIN g.ins[l] /\ p \in LayersOf(g) /\ g.kind[p] # "output" /\ Reads(g, l, p)
  <2>1. 1 \in DOMAIN g.ins[l]
    OBVIOUS
  <2> QED
    BY <2>1, WholeIs DEF Reads
<1>3. /\ Whole(h) /\ Inserted(h, g, n, l, 1, "reshape")
      /\ \A M, r : Ranks(r, M, g) => \E q : Ranks(q, 2 * M + 1, h) /\ RankedBehind(q, r, g, n, p)
  <2>1. NumInputSlots("reshape") = 1 /\ "reshape" \notin {"input", "output"}
    BY DEF NumInputSlots
  <2> QED
    BY <1>1, <1>2, <2>1, WholeInsert
<1>4. PICK k : k = [h EXCEPT !.info[n] = v]
  OBVIOUS
<1>5. Whole(k) /\ LayersOf(k) = LayersOf(h) /\ k.kind = h.kind /\ k.ins = h.ins /\ InPlace(k, h)
  <2>1. Whole(h)
    BY <1>3
  <2> QED
    BY ONLY <1>4, <2>1, WholeInfo
<1>6. \A M, r : Ranks(r, M, k) <=> Ranks(r, M, h)
  BY <1>5 DEF Ranks
<1>7. u = MoveAllConnections(k, n, p)
  BY <1>1, <1>4
<1>8. n \in LayersOf(k) /\ p \in LayersOf(k) /\ n # p /\ k.kind[p] # "output" /\ n \notin LayersOf(g)
  BY <1>2, <1>3, <1>5 DEF Inserted
<1>9. ASSUME NEW M, NEW r, Ranks(r, M, g), NEW q, Ranks(q, 2 * M + 1, h), RankedBehind(q, r, g, n, p)
      PROVE  Whole(u) /\ Redirected(u, k, n, p) /\ Ranks(q, 2 * M + 1, u)
  <2>1. q[p] <= q[n]
    <3>1. q[p] = 2 * r[p] /\ q[n] = 2 * r[p] + 1 /\ r[p] \in Nat
      BY <1>2, <1>9, ReadIs DEF RankedBehind
    <3> QED
      BY <3>1
  <2>2. PICK K : K = 2 * M + 1
    OBVIOUS
  <2>3. Ranks(q, K, k)
    BY <1>6, <1>9, <2>2
  <2>4. Whole(u) /\ Redirected(u, k, n, p) /\ Ranks(q, K, u)
    BY <1>5, <1>7, <1>8, <2>1, <2>3, WholeMoveAll
  <2> QED
    BY <2>2, <2>4
<1>10. Whole(u) /\ Redirected(u, k, n, p)
  <2>1. PICK M, r : Ranks(r, M, g)
    BY RankedIs
  <2>2. PICK q : Ranks(q, 2 * M + 1, h) /\ RankedBehind(q, r, g, n, p)
    BY <1>3, <2>1
  <2> QED
    BY <1>9, <2>1, <2>2
<1>11. \A M, r : Ranks(r, M, g) => \E q : Ranks(q, 2 * M + 1, u) /\ RankedBehind(q, r, g, n, p)
  <2> TAKE M, r
  <2> HAVE Ranks(r, M, g)
  <2>1. PICK q : Ranks(q, 2 * M + 1, h) /\ RankedBehind(q, r, g, n, p)
    BY <1>3
  <2>2. Ranks(q, 2 * M + 1, u)
    BY <1>9, <2>1
  <2> QED
    BY <2>1, <2>2
<1>12. LayersOf(u) = LayersOf(g) \cup {n} /\ u.kind = h.kind
  BY <1>3, <1>5, <1>10 DEF Redirected, Inserted
<1>12a. InPlace(u, g)
  <2>1. InPlace(h, g) /\ LayersOf(g) \subseteq LayersOf(h) /\ InPlace(u, k)
    BY <1>3, <1>10 DEF Inserted, Redirected
  <2>2. InPlace(k, g)
    BY <1>5, <2>1, InPlaceMore
  <2> QED
    BY <1>5, <2>1, <2>2, InPlaceMore
<1>13. u.kind[n] = "reshape" /\ \A x \in LayersOf(g) : u.kind[x] = g.kind[x]
  BY <1>3, <1>12 DEF Inserted
<1>14. ASSUME NEW x \in LayersOf(g), NEW i \in DOMAIN g.ins[x]
       PROVE  DOMAIN u.ins[x] = DOMAIN g.ins[x] /\ u.ins[x][i] = g.ins[x][i]
  <2>1. x \in LayersOf(k) /\ DOMAIN k.ins[x] = DOMAIN g.ins[x]
    BY <1>3, <1>5 DEF Inserted
  <2>2. DOMAIN u.ins[x] = DOMAIN g.ins[x] /\ u.ins[x][i] = IF k.ins[x][i] = n THEN p ELSE k.ins[x][i]
    BY <1>10, <2>1 DEF Redirected
  <2>3. CASE x = l /\ i = 1
    BY <1>3, <1>5, <2>2, <2>3 DEF Inserted
  <2>4. CASE x # l \/ i # 1
    <3>1. k.ins[x][i] = g.ins[x][i]
      BY <1>3, <1>5, <2>4 DEF Inserted
    <3>2. g.ins[x][i] \in LayersOf(g)
      BY WholeIs
    <3> QED
      BY <1>8, <2>2, <3>1, <3>2
  <2> QED
    BY <2>2, <2>3, <2>4
<1>15. \A x, y : Reads(g, x, y) => Reads(u, x, y)
  BY <1>12, <1>14 DEF Reads
<1>16. DOMAIN u.ins[l] = 1 .. 1 /\ u.ins[l][1] = p
  BY <1>2, <1>14
<1>17. \A s : Reads(u, n, s) <=> s = p
  <2>1. DOMAIN k.ins[n] = 1 .. 1 /\ k.ins[n][1] = p
    BY <1>3, <1>5 DEF Inserted
  <2>2. DOMAIN u.ins[n] = 1 .. 1 /\ u.ins[n][1] = p
    <3>1. 1 \in DOMAIN k.ins[n]
      BY <2>1
    <3> QED
      BY <1>8, <1>10, <2>1, <3>1 DEF Redirected
  <2>3. \A i \in 1 .. 1 : i = 1
    OBVIOUS
  <2>4. 1 \in 1 .. 1 /\ n \in LayersOf(u)
    BY <1>12
  <2> QED
    BY <2>2, <2>3, <2>4, ZenonT(60) DEF Reads
<1>18. Unread(u) \subseteq Unread(g) \cup {n}
  <2> SUFFICES ASSUME NEW x \in Unread(u), x # n PROVE x \in Unread(g)
    OBVIOUS
  <2>1. x \in LayersOf(u) /\ x \in LayersOf(g)
    BY <1>12, UnreadLayers
  <2>2. u.kind[x] # "output" /\ \A y : ~Reads(u, y, x)
    BY <1>10, <2>1, UnreadReads
  <2>3. g.kind[x] # "output" /\ \A y : ~Reads(g, y, x)
    BY <1>13, <1>15, <2>1, <2>2
  <2> QED
    BY <2>1, <2>3, UnreadReads
<1> QED
  BY <1>8, <1>10, <1>11, <1>12, <1>12a, <1>13, <1>15, <1>16, <1>17, <1>18 DEF Beside

LEMMA ConsecutiveReshapesTurn ==
  ASSUME NEW g, Whole(g), NEW l, NEW kd \in {"permute", "reshape"},
         NEW D \in SUBSET Children(g, l, kd), NEW c \in Children(g, l, kd), c \notin D,
         NEW h, Turn(h, g, l, kd, D), DOMAIN h.ins[l] = 1 .. 1,
         NEW u, u = OptimizeConsecutiveReshapes(h, <<c, 1>>)
  PROVE  Turn(u, g, l, kd, D \cup {c})
<1>1. Whole(h) /\ Extends(h, g, l, kd) /\ Unread(h) \subseteq D
  BY DEF Turn
<1>2. Reads(h, c, l) /\ h.ins[c][1] = l /\ l \in LayersOf(h) /\ c \in LayersOf(h)
  BY <1>1, ChildIs
<1>3. PICK p : p = h.ins[l][1]
  OBVIOUS
<1>4. PICK e : e = <<c, 1>> /\ e[1] = c
  OBVIOUS
<1>5. PICK n : n = New(h)
  OBVIOUS
<1>6. PICK k : k = MoveAllConnections([InsertNewLayer(h, n, <<l, 1>>, "reshape", h.info[c]) EXCEPT !.info[n] = h.info[c]], n, p)
  OBVIOUS
<1>7. u = IF h.info[p] # h.info[c] THEN MoveAllConnections(k, c, n) ELSE MoveAllConnections(h, c, p)
  BY <1>2, <1>3, <1>4, <1>5, <1>6 DEF OptimizeConsecutiveReshapes
<1>8. CASE h.info[p] = h.info[c]
  BY <1>3, <1>7, <1>8, TurnToParent
<1>9. CASE h.info[p] # h.info[c]
  <2>1. u = MoveAllConnections(k, c, n)
    BY <1>7, <1>9
  <2>2. /\ Whole(k) /\ n \notin LayersOf(h) /\ LayersOf(k) = LayersOf(h) \cup {n} /\ InPlace(k, h)
        /\ \A x \in LayersOf(h) : k.kind[x] = h.kind[x]
        /\ k.kind[n] = "reshape" /\ DOMAIN k.ins[l] = 1 .. 1 /\ k.ins[l][1] = p
        /\ \A s : Reads(k, n, s) <=> s = p
        /\ \A x, y : Reads(h, x, y) => Reads(k, x, y)
        /\ Unread(k) \subseteq Unread(h) \cup {n}
        /\ \A M, r : Ranks(r, M, h) => \E q : Ranks(q, 2 * M + 1, k) /\ RankedBehind(q, r, h, n, p)
    <3>1. Beside(k, h, l, n, p)
      BY <1>1, <1>2, <1>3, <1>5, <1>6, InsertBeside
    <3> QED
      BY <3>1 DEF Beside
  <2>3. Reads(h, l, p)
    <3>1. 1 \in DOMAIN h.ins[l]
      OBVIOUS
    <3> QED
      BY <1>2, <1>3, <3>1 DEF Reads
  <2>4. PICK M, r : Ranks(r, M, h)
    BY <1>1, RankedIs
  <2>5. p # c /\ p # l /\ r[p] < r[l] /\ r[l] < r[c] /\ r[p] \in Nat /\ r[l] \in Nat /\ r[c] \in Nat
    BY <1>1, <1>2, <2>3, <2>4, ParentFirst
  <2>6. PICK q : Ranks(q, 2 * M + 1, k) /\ RankedBehind(q, r, h, n, p)
    BY <2>2, <2>4
  <2>7. q[n] <= q[c]
    <3>1. q[n] = 2 * r[p] + 1 /\ q[c] = 2 * r[c]
      BY <1>2, <2>6 DEF RankedBehind
    <3> QED
      BY <2>5, <3>1
  <2>8. Extends(k, g, l, kd)
    <3>1. InPlace(k, g)
      BY <1>1, <2>2, InPlaceMore DEF Extends
    <3> QED
      BY <1>1, <2>2, <3>1 DEF Extends
  <2>9. Unread(k) \subseteq D \cup {n}
    BY <1>1, <2>2
  <2>10. n \in LayersOf(k) /\ n # c /\ n # l /\ k.kind[n] # "output" /\ ~Reads(k, n, c) /\ Reads(k, n, k.ins[l][1])
    BY <1>2, <2>2, <2>5
  <2> QED
    BY <2>1, <2>2, <2>6, <2>7, <2>8, <2>9, <2>10, TurnMove
<1> QED
  BY <1>8, <1>9

(* The graph while a permute comes before every input of the layer l of g. *)
Permuting(u, g, l) ==
  /\ Whole(u) /\ LayersOf(g) \subseteq LayersOf(u) /\ InPlace(u, g)
  /\ \A x \in LayersOf(g) : u.kind[x] = g.kind[x]
  /\ DOMAIN u.ins[l] = DOMAIN g.ins[l]
  /\ \A x, s : x # l /\ Reads(g, x, s) => Reads(u, x, s)
  /\ Unread(u) \subseteq Unread(g)

LEMMA InsertPermuteKeeps ==
  ASSUME NEW g, NEW l \in LayersOf(g), NEW u, Permuting(u, g, l), NEW i \in DOMAIN g.ins[l], NEW perm,
         NEW h, h = InsertPermuteBefore(u, <<l, i>>, perm)
  PROVE  Permuting(h, g, l)
<1>1. Whole(u) /\ l \in LayersOf(u) /\ i \in DOMAIN u.ins[l]
  BY DEF Permuting
<1>2. PICK n : n = New(u)
  OBVIOUS
<1>3. PICK k : k = InsertNewLayer(u, n, <<l, i>>, "permute", perm)
  OBVIOUS
<1>4. Whole(k) /\ Inserted(k, u, n, l, i, "permute")
  <2>1. NumInputSlots("permute") = 1 /\ "permute" \notin {"input", "output"}
    BY DEF NumInputSlots
  <2> QED
    BY <1>1, <1>2, <1>3, <2>1, WholeInsert
<1>5. PICK v : v = Permuted(k.info[k.ins[n][1]], perm)
  OBVIOUS
<1>6. h = [k EXCEPT !.info[n] = v]
  BY <1>2, <1>3, <1>5 DEF InsertPermuteBefore
<1>7. Whole(h) /\ LayersOf(h) = LayersOf(k) /\ h.kind = k.kind /\ h.ins = k.ins /\ InPlace(h, k)
  BY <1>4, <1>6, WholeInfo, SMTT(30)
<1>8. PICK p : p = u.ins[l][i]
  OBVIOUS
<1>9. /\ n \notin LayersOf(u) /\ LayersOf(h) = LayersOf(u) \cup {n}
      /\ h.kind[n] = "permute" /\ \A x \in LayersOf(u) : h.kind[x] = u.kind[x]
      /\ DOMAIN h.ins[n] = 1 .. 1 /\ h.ins[n][1] = p /\ h.ins[l][i] = n
      /\ \A x \in LayersOf(u) : DOMAIN h.ins[x] = DOMAIN u.ins[x]
      /\ \A x \in LayersOf(u) : \A j \in DOMAIN u.ins[x] : x # l \/ j # i => h.ins[x][j] = u.ins[x][j]
  BY <1>4, <1>7, <1>8 DEF Inserted
<1>10. Reads(h, n, p) /\ Reads(h, l, n)
  <2>1. 1 \in DOMAIN h.ins[n] /\ n \in LayersOf(h) /\ l \in LayersOf(h) /\ i \in DOMAIN h.ins[l]
    BY <1>1, <1>9
  <2> QED
    BY <1>9, <2>1 DEF Reads
<1>11. \A x, s : x # l /\ Reads(u, x, s) => Reads(h, x, s)
  BY <1>9 DEF Reads
<1>12. \A s : Reads(u, l, s) => s = p \/ Reads(h, l, s)
  <2> TAKE s
  <2> HAVE Reads(u, l, s)
  <2>1. PICK j \in DOMAIN u.ins[l] : u.ins[l][j] = s
    BY DEF Reads
  <2>2. j # i => Reads(h, l, s)
    BY <1>1, <1>9, <2>1 DEF Reads
  <2> QED
    BY <1>8, <2>1, <2>2
<1>13. ASSUME NEW x \in Unread(h) PROVE x \in Unread(u)
  <2>1. x \in LayersOf(h)
    BY UnreadLayers
  <2>2. h.kind[x] # "output" /\ \A y : ~Reads(h, y, x)
    BY <1>7, <2>1, UnreadReads
  <2>3. x # n /\ x # p
    BY <1>10, <2>2
  <2>4. x \in LayersOf(u) /\ u.kind[x] # "output"
    BY <1>9, <2>1, <2>2, <2>3
  <2>5. \A y : ~Reads(u, y, x)
    BY <1>11, <1>12, <2>2, <2>3
  <2> QED
    BY <1>1, <2>4, <2>5, UnreadReads
<1>14. \A x \in LayersOf(g) : x \in LayersOf(u) /\ u.kind[x] = g.kind[x]
  BY DEF Permuting
<1>15. DOMAIN h.ins[l] = DOMAIN g.ins[l]
  BY <1>1, <1>9 DEF Permuting
<1>16. \A x, s : x # l /\ Reads(g, x, s) => Reads(h, x, s)
  BY <1>11 DEF Permuting
<1>17. Unread(h) \subseteq Unread(g)
  BY <1>13 DEF Permuting
<1>18. InPlace(h, g)
  <2>1. InPlace(k, u) /\ LayersOf(u) \subseteq LayersOf(k)
    BY <1>4 DEF Inserted
  <2>2. InPlace(h, u)
    BY <1>7, <2>1, InPlaceMore
  <2> QED
    BY <2>2, InPlaceMore DEF Permuting
<1> QED
  BY <1>7, <1>9, <1>14, <1>15, <1>16, <1>17, <1>18 DEF Permuting

LEMMA PermuteInputsKeeps ==
  ASSUME NEW g, Whole(g), NEW l \in LayersOf(g), NEW perm
  PROVE  Permuting(PermuteInputs(g, l, perm), g, l)
<1>0. PICK n \in Nat : n = Len(g.ins[l]) /\ DOMAIN g.ins[l] = 1 .. n
  <2>1. PICK m \in Nat : g.ins[l] \in [1 .. m -> LayersOf(g) \cup {None}]
    BY WholeIs, LinkedIs
  <2>2. g.ins[l] \in Seq(LayersOf(g) \cup {None})
    BY <2>1
  <2> QED
    BY <2>2
<1> DEFINE Step(f, k) == IF k = 0 THEN g ELSE InsertPermuteBefore(f[k - 1], <<l, k>>, perm)
           after == CHOOSE f : f = [k \in 0 .. n |-> Step(f, k)]
           Is == {m \in 0 .. n : \E f : f = [k \in 0 .. m |-> Step(f, k)]}
<1>1. \E f : f = [k \in 0 .. n |-> Step(f, k)]
  <2>1. 0 \in Is
    <3>1. PICK f : f = [k \in 0 .. 0 |-> Step(<<>>, 0)]
      OBVIOUS
    <3>2. f = [k \in 0 .. 0 |-> Step(f, k)]
      BY <3>1
    <3> QED
      BY <3>2
  <2>2. ASSUME NEW m \in 0 .. n, m # n, m \in Is PROVE m + 1 \in Is
    <3>1. PICK f : f = [k \in 0 .. m |-> Step(f, k)]
      BY <2>2
    <3>2. PICK v : v = [k \in 0 .. m + 1 |-> IF k = m + 1 THEN Step(f, k) ELSE f[k]]
      OBVIOUS
    <3>3. ASSUME NEW k \in 0 .. m + 1 PROVE v[k] = Step(v, k)
      <4>1. k # 0 => k - 1 \in 0 .. m /\ v[k - 1] = f[k - 1]
        BY <3>2
      <4>2. k \in 0 .. m \/ k = m + 1
        OBVIOUS
      <4>3. v[k] = Step(f, k)
        BY <3>1, <3>2, <4>2
      <4> QED
        BY <4>1, <4>3
    <3>4. v = [k \in 0 .. m + 1 |-> Step(v, k)]
      <4> HIDE DEF Step
      <4> QED
        BY <3>2, <3>3
    <3>5. m \in 0 .. n /\ m # n
      BY <2>2, Zenon
    <3>6. m + 1 \in 0 .. n
      BY ONLY <3>5, n \in Nat
    <3> QED
      BY <3>4, <3>6
  <2>3. \A m \in 0 .. n : m \in Is
    <3> HIDE DEF Is
    <3> QED
      BY <2>1, <2>2, ByTurns
  <2>4. n \in 0 .. n
    OBVIOUS
  <2> QED
    BY <2>3, <2>4
<1>2. after = [k \in 0 .. n |-> Step(after, k)]
  <2> HIDE DEF Step
  <2> QED
    BY <1>1
<1>3. PermuteInputs(g, l, perm) = after[n]
  BY <1>0 DEF PermuteInputs
<1> HIDE DEF after
<1>4. \A k \in 0 .. n : after[k] = Step(after, k)
  <2> HIDE DEF Step
  <2> QED
    BY <1>2
<1>5. 0 \in 0 .. n /\ n \in 0 .. n /\ \A k \in 0 .. n : k # n => k + 1 \in 0 .. n /\ k + 1 # 0 /\ (k + 1) - 1 = k /\ k + 1 \in 1 .. n
  OBVIOUS
<1> DEFINE Good == {k \in 0 .. n : Permuting(after[k], g, l)}
<1>6. 0 \in Good
  <2>1. after[0] = g
    BY <1>4, <1>5
  <2>2. Permuting(g, g, l)
    BY InPlaceSame DEF Permuting
  <2> QED
    BY <1>5, <2>1, <2>2
<1>7. ASSUME NEW k \in 0 .. n, k # n, k \in Good PROVE k + 1 \in Good
  <2>1. k + 1 \in 0 .. n /\ k + 1 # 0 /\ (k + 1) - 1 = k /\ k + 1 \in DOMAIN g.ins[l]
    BY <1>0, <1>5, <1>7
  <2>2. after[k + 1] = InsertPermuteBefore(after[k], <<l, k + 1>>, perm)
    BY <1>4, <2>1
  <2>3. Permuting(after[k], g, l)
    BY <1>7
  <2>4. Permuting(after[k + 1], g, l)
    BY <2>1, <2>2, <2>3, InsertPermuteKeeps
  <2> QED
    BY <2>1, <2>4
<1>8. n \in Good
  <2> HIDE DEF Good
  <2> QED
    BY <1>5, <1>6, <1>7, ByTurns
<1> QED
  BY <1>3, <1>8

LEMMA MovePermuteUpTurn ==
  ASSUME NEW g, Whole(g), NEW l,
         NEW D \in SUBSET Children(g, l, "permute"), NEW c \in Children(g, l, "permute"), c \notin D,
         NEW h, Turn(h, g, l, "permute", D),
         NEW u, u = MovePermuteUp(h, <<c, 1>>)
  PROVE  Turn(u, g, l, "permute", D \cup {c})
<1>1. Whole(h) /\ Extends(h, g, l, "permute") /\ Unread(h) \subseteq D /\ "permute" \in {"permute", "reshape"}
  BY DEF Turn
<1>2. Reads(h, c, l) /\ h.ins[c][1] = l /\ l \in LayersOf(h) /\ c # l
  BY <1>1, ChildIs
<1>3. PICK e : e = <<c, 1>> /\ e[1] = c
  OBVIOUS
<1>4. PICK k : k = PermuteInputs(h, l, h.param[c])
  OBVIOUS
<1>5. PICK v : v = k.info[c]
  OBVIOUS
<1>6. PICK m : m = [k EXCEPT !.info[l] = v]
  OBVIOUS
<1>7. u = MoveAllConnections(m, c, l) \/ u = h
  BY <1>2, <1>3, <1>4, <1>5, <1>6 DEF MovePermuteUp
<1>8. Permuting(k, h, l)
  BY <1>1, <1>2, <1>4, PermuteInputsKeeps
<1>9. /\ Whole(m) /\ LayersOf(m) = LayersOf(k) /\ m.kind = k.kind /\ m.ins = k.ins /\ m.outs = k.outs
      /\ InPlace(m, k)
  <2>1. Whole(k)
    BY <1>8 DEF Permuting
  <2> QED
    BY ONLY <1>6, <2>1, WholeInfo
<1>10. /\ LayersOf(h) \subseteq LayersOf(m) /\ \A x \in LayersOf(h) : m.kind[x] = h.kind[x]
       /\ \A x, s : x # l /\ Reads(h, x, s) => Reads(m, x, s)
       /\ Unread(m) \subseteq D
  <2>1. \A x, s : Reads(m, x, s) <=> Reads(k, x, s)
    BY <1>9 DEF Reads
  <2>2. Unread(m) = Unread(k)
    BY <1>9 DEF Unread, IsOutputUnconnected
  <2> QED
    BY <1>1, <1>8, <1>9, <2>1, <2>2 DEF Permuting
<1>11. Extends(m, g, l, "permute")
  <2>1. ASSUME NEW b \in Children(g, l, "permute") PROVE Reads(m, b, l)
    <3>1. Reads(h, b, l) /\ b # l
      BY <1>1, ChildIs
    <3> QED
      BY <1>10, <3>1
  <2>2. InPlace(m, h)
    BY <1>8, <1>9, InPlaceMore DEF Permuting
  <2>3. InPlace(m, g)
    BY <1>1, <2>2, InPlaceMore DEF Extends
  <2> QED
    BY <1>1, <1>10, <2>1, <2>3 DEF Extends
<1>12. Reads(m, c, l)
  BY <1>2, <1>10
<1>13. l \in LayersOf(m) /\ l # c /\ m.kind[l] # "output"
  BY <1>9, <1>12, ReadIs
<1>14. PICK M, r : Ranks(r, M, m)
  BY <1>9, RankedIs
<1>15. r[l] <= r[c]
  <2>1. r[l] < r[c] /\ r[l] \in Nat /\ r[c] \in Nat
    BY <1>9, <1>12, <1>14, ReadIs
  <2> QED
    BY <2>1
<1>16. ~Reads(m, l, c)
  <2> SUFFICES ASSUME Reads(m, l, c) PROVE FALSE
    OBVIOUS
  <2>1. r[c] < r[l] /\ r[l] < r[c] /\ r[l] \in Nat /\ r[c] \in Nat
    BY <1>9, <1>12, <1>14, ReadIs
  <2> QED
    BY <2>1
<1>17. Unread(m) \subseteq D \cup {l}
  BY <1>10
<1>18. CASE u = h
  BY <1>18, TurnMore
<1>19. CASE u = MoveAllConnections(m, c, l)
  BY <1>1, <1>9, <1>11, <1>13, <1>14, <1>15, <1>16, <1>17, <1>19, TurnMove
<1> QED
  BY <1>7, <1>18, <1>19

LEMMA LowerRank ==
  ASSUME NEW g, Whole(g), NEW l, NEW a, NEW b, Reads(g, a, l), Reads(g, b, l), a # b, \A s : Reads(g, a, s) => s = l
  PROVE  \E M, r : Ranks(r, M, g) /\ r[a] <= r[b]
<1>1. PICK M, r : Ranks(r, M, g)
  BY RankedIs
<1>2. M \in Nat /\ r \in [LayersOf(g) -> 0 .. M]
  BY <1>1 DEF Ranks
<1>3. a \in LayersOf(g) /\ b \in LayersOf(g) /\ a # l /\ r[l] < r[a] /\ r[l] < r[b] /\ r[l] \in Nat /\ r[a] \in 0 .. M /\ r[b] \in 0 .. M
  BY <1>1, <1>2, ReadIs
<1>4. PICK m : m = IF r[b] < r[a] THEN r[b] ELSE r[a]
  OBVIOUS
<1>5. m \in 0 .. M /\ m <= r[a] /\ m <= r[b] /\ r[l] < m
  BY <1>2, <1>3, <1>4
<1>6. PICK q : q = [x \in LayersOf(g) |-> IF x = a THEN m ELSE r[x]]
  OBVIOUS
<1>7. q \in [LayersOf(g) -> 0 .. M] /\ q[a] = m /\ \A x \in LayersOf(g) : x # a => q[x] = r[x]
  BY <1>2, <1>3, <1>5, <1>6
<1>8. ASSUME NEW x \in LayersOf(g), NEW i \in DOMAIN g.ins[x] PROVE q[g.ins[x][i]] < q[x]
  <2>1. PICK y : y = g.ins[x][i]
    OBVIOUS
  <2>2. Reads(g, x, y)
    BY <2>1 DEF Reads
  <2>3. y \in LayersOf(g) /\ r[y] < r[x] /\ r[y] \in Nat /\ r[x] \in Nat
    BY <1>1, <2>2, ReadIs
  <2>4. CASE x = a
    <3>1. y = l
      BY <2>2, <2>4
    <3>2. q[y] = r[l] /\ q[x] = m
      BY <1>3, <1>7, <2>3, <2>4, <3>1
    <3> QED
      BY <1>5, <2>1, <3>2
  <2>5. CASE x # a /\ y = a
    <3>1. q[y] = m /\ q[x] = r[x] /\ r[a] < r[x]
      BY <1>7, <2>3, <2>5
    <3> QED
      BY <1>3, <1>5, <2>1, <2>3, <3>1
  <2>6. CASE x # a /\ y # a
    BY <1>7, <2>1, <2>3, <2>6
  <2> QED
    BY <2>4, <2>5, <2>6
<1>9. Ranks(q, M, g)
  BY <1>2, <1>7, <1>8 DEF Ranks
<1>10. q[a] <= q[b]
  BY <1>3, <1>5, <1>7
<1> QED
  BY <1>9, <1>10

(* The readers of a layer are given to its sibling d.                      *)
LEMMA TurnSquash ==
  ASSUME NEW g, Whole(g), NEW l, NEW kd \in {"permute", "reshape"}, NEW D, D = Children(g, l, kd),
         NEW u, Turn(u, g, l, kd, D), \A x : Reads(u, x, l) => Reads(g, x, l),
         NEW s \in D, NEW d \in D, s # d, s \notin Unread(u) \/ d \notin Unread(u),
         NEW h, h = MoveAllConnections(u, s, d)
  PROVE  Turn(h, g, l, kd, D) /\ (\A x : Reads(h, x, l) => Reads(g, x, l)) /\ d \notin Unread(h)
<1>1. Whole(u) /\ Extends(u, g, l, kd) /\ Unread(u) \subseteq D
  BY DEF Turn
<1>2. /\ s \in LayersOf(u) /\ u.kind[s] = kd /\ Reads(u, s, l) /\ s # l
      /\ d \in LayersOf(u) /\ u.kind[d] = kd /\ Reads(u, d, l) /\ d # l /\ \A x : Reads(u, d, x) => x = l
  BY <1>1, ChildIs
<1>3. PICK M, r : Ranks(r, M, u) /\ r[d] <= r[s]
  BY <1>1, <1>2, LowerRank
<1>4. Whole(h) /\ Redirected(h, u, s, d)
  BY <1>1, <1>2, <1>3, WholeMoveAll
<1>5. LayersOf(h) = LayersOf(u) /\ h.kind = u.kind
  BY <1>4 DEF Redirected
<1>6. \A b \in D : Reads(h, b, l)
  <2> TAKE b \in D
  <2>1. Reads(u, b, l)
    BY <1>1 DEF Extends
  <2> QED
    BY <1>1, <1>2, <1>4, <2>1, RedirectedReads
<1>7. Extends(h, g, l, kd)
  <2>1. InPlace(h, g)
    BY <1>1, <1>4, InPlaceMore DEF Redirected, Extends
  <2> QED
    BY <1>1, <1>5, <1>6, <2>1 DEF Extends
<1>8. \A x : Reads(h, x, l) => Reads(g, x, l)
  <2> TAKE x
  <2> HAVE Reads(h, x, l)
  <2>1. Reads(u, x, l)
    BY <1>1, <1>2, <1>4, RedirectedReads
  <2> QED
    BY <2>1
<1>9. d \notin Unread(h)
  <2>1. CASE s \notin Unread(u)
    <3>1. PICK f : Reads(u, f, s)
      BY <1>1, <1>2, <2>1, UnreadReads
    <3>2. Reads(h, f, d)
      BY <1>1, <1>4, <3>1, RedirectedReads
    <3> QED
      BY <1>2, <1>4, <1>5, <3>2, UnreadReads
  <2>2. CASE d \notin Unread(u)
    <3>1. PICK f : Reads(u, f, d)
      BY <1>1, <1>2, <2>2, UnreadReads
    <3>2. Reads(h, f, d)
      BY <1>1, <1>4, <3>1, RedirectedReads
    <3> QED
      BY <1>2, <1>4, <1>5, <3>2, UnreadReads
  <2> QED
    BY <2>1, <2>2
<1>10. ASSUME NEW x \in Unread(h) PROVE x \in D
  <2>1. x \in LayersOf(u) /\ h.kind[x] # "output" /\ \A y : ~Reads(h, y, x)
    BY <1>4, <1>5, UnreadLayers, UnreadReads
  <2>2. CASE x = s
    BY <2>2
  <2>3. CASE x # s
    <3>1. \A y : ~Reads(u, y, x)
      BY <1>1, <1>4, <2>1, <2>3, RedirectedReads
    <3>2. x \in Unread(u)
      BY <1>1, <1>5, <2>1, <3>1, UnreadReads
    <3> QED
      BY <1>1, <3>2
  <2> QED
    BY <2>2, <2>3
<1>11. Kept(h, l)
  <2>1. d \in LayersOf(h) \ Unread(h) /\ Reads(h, d, l)
    BY <1>2, <1>5, <1>6, <1>9
  <2> QED
    BY <2>1 DEF Kept
<1>12. Unread(h) \subseteq D
  BY <1>10
<1> QED
  BY <1>4, <1>7, <1>8, <1>9, <1>11, <1>12 DEF Turn

LEMMA TurnSame ==
  ASSUME NEW g, NEW l, NEW kd, NEW D, NEW u, Turn(u, g, l, kd, D),
         NEW h, Same(h, u), h.inOrder = u.inOrder
  PROVE  Turn(h, g, l, kd, D) /\ Unread(h) = Unread(u) /\ \A x, y : Reads(h, x, y) <=> Reads(u, x, y)
<1>1. Whole(h) /\ LayersOf(h) = LayersOf(u) /\ h.kind = u.kind /\ h.ins = u.ins /\ h.outs = u.outs
  BY WholeSame DEF Turn
<1>2. \A x, y : Reads(h, x, y) <=> Reads(u, x, y)
  BY <1>1 DEF Reads
<1>3. Unread(h) = Unread(u)
  BY <1>1 DEF Unread, IsOutputUnconnected
<1>4. Extends(h, g, l, kd)
  <2>1. InPlace(h, g)
    BY InPlaceSame, InPlaceMore DEF Same, Turn, Extends
  <2> QED
    BY <1>1, <1>2, <2>1 DEF Turn, Extends
<1>5. Kept(h, l)
  BY <1>1, <1>2, <1>3 DEF Turn, Kept
<1> QED
  BY <1>1, <1>2, <1>3, <1>4, <1>5 DEF Turn

(* While the siblings of a child are squashed.                             *)
Squashing(a, g, l, kd) ==
  /\ Turn(a.g, g, l, kd, Children(g, l, kd))
  /\ \A x : Reads(a.g, x, l) => Reads(g, x, l)
  /\ a.lowest \in Children(g, l, kd) /\ a.lowest \notin Unread(a.g)

LEMMA SquashSiblingKeeps ==
  ASSUME NEW g, Whole(g), NEW l, NEW kd \in {"permute", "reshape"}, NEW a, Squashing(a, g, l, kd),
         NEW c \in Children(g, l, kd), NEW s, Reads(g, s, l), NEW b, b = SquashSibling(a, c, s)
  PROVE  Squashing(b, g, l, kd)
<1>1. CASE s = a.lowest \/ ~IsEqual(a.g, c, s)
  BY <1>1 DEF SquashSibling
<1>2. CASE s # a.lowest /\ IsEqual(a.g, c, s)
  <2>1. Turn(a.g, g, l, kd, Children(g, l, kd)) /\ Whole(a.g) /\ Extends(a.g, g, l, kd)
    BY DEF Squashing, Turn
  <2>2. s \in Children(g, l, kd)
    <3>1. a.g.kind[s] = a.g.kind[c] /\ a.g.kind[c] = kd /\ s \in LayersOf(g)
      BY <1>2, <2>1, ChildIs DEF IsEqual, Reads
    <3>2. a.g.kind[s] = g.kind[s]
      BY <2>1, <3>1 DEF Extends
    <3> QED
      BY <3>1, <3>2 DEF Children
  <2>3. PICK k : k = GetPriority(a.g, s)
    OBVIOUS
  <2>4. PICK h : h = GetPriority(k, a.lowest)
    OBVIOUS
  <2>5. Same(k, a.g) /\ k.inOrder = a.g.inOrder
    BY <2>1, <2>3, SameGetPriority DEF Whole, Linked
  <2>6. Same(h, k) /\ h.inOrder = k.inOrder
    BY <2>4, <2>5, SameGetPriority DEF Same
  <2>7. Same(h, a.g) /\ h.inOrder = a.g.inOrder
    BY <2>5, <2>6 DEF Same
  <2>8. Turn(h, g, l, kd, Children(g, l, kd)) /\ Unread(h) = Unread(a.g) /\ \A x, y : Reads(h, x, y) <=> Reads(a.g, x, y)
    BY <2>1, <2>7, TurnSame
  <2>9. PICK d, o : d = (IF PriorityOf(h)[s] < PriorityOf(h)[a.lowest] THEN s ELSE a.lowest)
                    /\ o = (IF d = s THEN a.lowest ELSE s)
    OBVIOUS
  <2>10. (d = s /\ o = a.lowest) \/ (d = a.lowest /\ o = s)
    BY <1>2, <2>9
  <2>11. PICK u : u = MoveAllConnections(h, o, d)
    OBVIOUS
  <2>12. b = [g |-> u, lowest |-> d]
    BY <1>2, <2>3, <2>4, <2>9, <2>11 DEF SquashSibling
  <2>13. \A x : Reads(h, x, l) => Reads(g, x, l)
    BY <2>8 DEF Squashing
  <2>14. o \in Children(g, l, kd) /\ d \in Children(g, l, kd) /\ o # d /\ (o \notin Unread(h) \/ d \notin Unread(h))
    BY <1>2, <2>2, <2>8, <2>10 DEF Squashing
  <2>15. Turn(u, g, l, kd, Children(g, l, kd)) /\ (\A x : Reads(u, x, l) => Reads(g, x, l)) /\ d \notin Unread(u)
    BY <2>8, <2>11, <2>13, <2>14, TurnSquash
  <2>16. b.g = u /\ b.lowest = d
    BY <2>12
  <2> QED
    BY <2>14, <2>15, <2>16 DEF Squashing
<1> QED
  BY <1>1, <1>2

LEMMA SquashTurn ==
  ASSUME NEW g, Whole(g), NEW l, NEW kd \in {"permute", "reshape"}, NEW c \in Children(g, l, kd),
         NEW h, Turn(h, g, l, kd, Children(g, l, kd)), \A x : Reads(h, x, l) => Reads(g, x, l),
         NEW u, u = SquashEqualSiblings(h, <<c, 1>>)
  PROVE  Turn(u, g, l, kd, Children(g, l, kd)) /\ \A x : Reads(u, x, l) => Reads(g, x, l)
<1>0. PICK e : e = <<c, 1>> /\ e[1] = c
  OBVIOUS
<1>0a. Whole(h) /\ h.ins[c][1] = l /\ h.kind[c] = kd /\ l \in LayersOf(h) /\ c \in LayersOf(h)
  BY ChildIs DEF Turn
<1>0b. PICK siblings : siblings = h.outs[l]
  OBVIOUS
<1>0c. PICK n \in Nat : n = Len(siblings) /\ \A k \in 1 .. n : siblings[k] \in Readers(h.ins, l)
  <2>1. Lists(siblings, Readers(h.ins, l))
    BY <1>0a, <1>0b, WholeIs
  <2> QED
    BY <2>1, ListsToSet
<1>0d. \A k \in 1 .. n : Reads(g, siblings[k][1], l)
  <2> TAKE k \in 1 .. n
  <2>1. siblings[k][1] \in DOMAIN h.ins /\ siblings[k][2] \in DOMAIN h.ins[siblings[k][1]] /\ h.ins[siblings[k][1]][siblings[k][2]] = l
    BY <1>0c, ReaderIsSlot
  <2>2. Reads(h, siblings[k][1], l)
    BY <1>0a, <2>1, WholeIs DEF Reads
  <2> QED
    BY <2>2
<1>0e. SUFFICES ASSUME ~IsOutputUnconnected(h, c)
       PROVE  Turn(u, g, l, kd, Children(g, l, kd)) /\ \A x : Reads(u, x, l) => Reads(g, x, l)
  <2>1. IsOutputUnconnected(h, c) => u = h
    BY <1>0 DEF SquashEqualSiblings
  <2> QED
    BY <2>1
<1> DEFINE Step(f, k) == IF k = 0 THEN [g |-> h, lowest |-> c] ELSE SquashSibling(f[k - 1], c, siblings[k][1])
           after == CHOOSE f : f = [k \in 0 .. n |-> Step(f, k)]
           Is == {m \in 0 .. n : \E f : f = [k \in 0 .. m |-> Step(f, k)]}
<1>1. \E f : f = [k \in 0 .. n |-> Step(f, k)]
  <2>1. 0 \in Is
    <3>1. PICK f : f = [k \in 0 .. 0 |-> Step(<<>>, 0)]
      OBVIOUS
    <3>2. f = [k \in 0 .. 0 |-> Step(f, k)]
      BY <3>1
    <3> QED
      BY <3>2
  <2>2. ASSUME NEW m \in 0 .. n, m # n, m \in Is PROVE m + 1 \in Is
    <3>1. PICK f : f = [k \in 0 .. m |-> Step(f, k)]
      BY <2>2
    <3>2. PICK v : v = [k \in 0 .. m + 1 |-> IF k = m + 1 THEN Step(f, k) ELSE f[k]]
      OBVIOUS
    <3>3. ASSUME NEW k \in 0 .. m + 1 PROVE v[k] = Step(v, k)
      <4>1. k # 0 => k - 1 \in 0 .. m /\ v[k - 1] = f[k - 1]
        BY <3>2
      <4>2. k \in 0 .. m \/ k = m + 1
        OBVIOUS
      <4>3. v[k] = Step(f, k)
        BY <3>1, <3>2, <4>2
      <4> QED
        BY <4>1, <4>3
    <3>4. v = [k \in 0 .. m + 1 |-> Step(v, k)]
      <4> HIDE DEF Step
      <4> QED
        BY <3>2, <3>3
    <3>5. m \in 0 .. n /\ m # n
      BY <2>2, Zenon
    <3>6. m + 1 \in 0 .. n
      BY ONLY <3>5, n \in Nat
    <3> QED
      BY <3>4, <3>6
  <2>3. \A m \in 0 .. n : m \in Is
    <3> HIDE DEF Is
    <3> QED
      BY <2>1, <2>2, ByTurns
  <2>4. n \in 0 .. n
    OBVIOUS
  <2> QED
    BY <2>3, <2>4
<1>2. after = [k \in 0 .. n |-> Step(after, k)]
  <2> HIDE DEF Step
  <2> QED
    BY <1>1
<1>3. SquashEqualSiblings(h, <<c, 1>>) = after[n].g
  BY <1>0, <1>0a, <1>0b, <1>0c, <1>0e, ZenonT(60) DEF SquashEqualSiblings
<1> HIDE DEF after
<1>4. \A k \in 0 .. n : after[k] = Step(after, k)
  <2> HIDE DEF Step
  <2> QED
    BY <1>2
<1>5. 0 \in 0 .. n /\ n \in 0 .. n /\ \A k \in 0 .. n : k # n => k + 1 \in 0 .. n /\ k + 1 # 0 /\ (k + 1) - 1 = k /\ k + 1 \in 1 .. n
  OBVIOUS
<1> DEFINE Good == {k \in 0 .. n : Squashing(after[k], g, l, kd)}
<1>6. 0 \in Good
  <2>1. after[0] = [g |-> h, lowest |-> c]
    BY <1>4, <1>5
  <2>2. after[0].g = h /\ after[0].lowest = c
    BY <2>1
  <2>3. c \notin Unread(h)
    BY <1>0e DEF Unread
  <2>4. Squashing(after[0], g, l, kd)
    BY <2>2, <2>3 DEF Squashing
  <2> QED
    BY <1>5, <2>4
<1>7. ASSUME NEW k \in 0 .. n, k # n, k \in Good PROVE k + 1 \in Good
  <2>1. k + 1 \in 0 .. n /\ k + 1 # 0 /\ (k + 1) - 1 = k /\ k + 1 \in 1 .. n
    BY <1>5, <1>7
  <2>2. after[k + 1] = SquashSibling(after[k], c, siblings[k + 1][1])
    BY <1>4, <2>1
  <2>3. Squashing(after[k], g, l, kd)
    BY <1>7
  <2>4. Reads(g, siblings[k + 1][1], l)
    BY <1>0d, <2>1
  <2>5. Squashing(after[k + 1], g, l, kd)
    BY <2>2, <2>3, <2>4, SquashSiblingKeeps
  <2> QED
    BY <2>1, <2>5
<1>8. n \in Good
  <2> HIDE DEF Good
  <2> QED
    BY <1>5, <1>6, <1>7, ByTurns
<1> QED
  BY <1>3, <1>8 DEF Squashing

----------------------------------------------------------------------------
(* A whole turn: the connections of a layer, then the children nothing reads.*)

IsSquash(o) == o \in {"squashPermutes", "squashReshapes"}

ForChildren == {"squashPermutes", "squashReshapes", "inversePermutes", "movePermuteUp", "consecutiveReshapes"}

LEMMA OptimizeTurn ==
  ASSUME NEW g, Whole(g), NEW l \in LayersOf(g), NEW o \in ForChildren, g.kind[l] \in BaseKinds(o),
         NEW kd, kd = ChildKind(o), NEW D \in SUBSET Children(g, l, kd), NEW c \in Children(g, l, kd),
         NEW h, Turn(h, g, l, kd, D),
         IsSquash(o) => D = Children(g, l, kd) /\ \A x : Reads(h, x, l) => Reads(g, x, l),
         ~IsSquash(o) => c \notin D,
         NEW u, u = Optimize(o, h, <<c, 1>>)
  PROVE  Turn(u, g, l, kd, D \cup {c}) /\ (IsSquash(o) => \A x : Reads(u, x, l) => Reads(g, x, l))
<1>1. kd \in {"permute", "reshape"}
  BY DEF ChildKind
<1>2. CASE IsSquash(o)
  <2>1. u = SquashEqualSiblings(h, <<c, 1>>)
    BY <1>2 DEF IsSquash, Optimize
  <2>2. Turn(u, g, l, kd, Children(g, l, kd)) /\ \A x : Reads(u, x, l) => Reads(g, x, l)
    BY <1>1, <1>2, <2>1, SquashTurn, ZenonT(60)
  <2>3. D \cup {c} = Children(g, l, kd)
    BY <1>2
  <2> QED
    BY <2>2, <2>3
<1>3. CASE o \in {"inversePermutes", "consecutiveReshapes"}
  <2>1. ~IsSquash(o)
    BY <1>3 DEF IsSquash
  <2>2. NumInputSlots(g.kind[l]) = 1
    BY <1>3 DEF BaseKinds, NumInputSlots
  <2>3. Whole(h) /\ l \in LayersOf(h) /\ h.kind[l] = g.kind[l]
    BY DEF Turn, Extends
  <2>4. DOMAIN h.ins[l] = 1 .. 1
    BY <2>2, <2>3, WholeIs
  <2>5. CASE o = "inversePermutes"
    <3>1. u = OptimizeInversePermutes(h, <<c, 1>>)
      BY <2>5 DEF Optimize
    <3> QED
      BY <1>1, <2>1, <2>4, <3>1, InversePermutesTurn
  <2>6. CASE o = "consecutiveReshapes"
    <3>1. u = OptimizeConsecutiveReshapes(h, <<c, 1>>)
      BY <2>6 DEF Optimize
    <3> QED
      BY <1>1, <2>1, <2>4, <3>1, ConsecutiveReshapesTurn
  <2> QED
    BY <1>3, <2>5, <2>6
<1>4. CASE o = "movePermuteUp"
  <2>1. ~IsSquash(o) /\ kd = "permute"
    BY <1>4 DEF IsSquash, ChildKind
  <2>2. u = MovePermuteUp(h, <<c, 1>>)
    BY <1>4 DEF Optimize
  <2> QED
    BY <2>1, <2>2, MovePermuteUpTurn
<1> QED
  BY <1>2, <1>3, <1>4 DEF ForChildren, IsSquash

LEMMA TurnBegins ==
  ASSUME NEW g, Whole(g), Unread(g) = {}, NEW l \in LayersOf(g), g.kind[l] # "output", NEW kd, NEW D
  PROVE  Turn(g, g, l, kd, D)
<1>1. PICK x : Reads(g, x, l)
  BY UnreadReads
<1>2. x \in LayersOf(g) \ Unread(g)
  BY <1>1, ReadIs
<1>3. Kept(g, l)
  BY <1>1, <1>2 DEF Kept
<1>4. Extends(g, g, l, kd)
  BY InPlaceSame DEF Extends, Children
<1> QED
  BY <1>3, <1>4 DEF Turn

LEMMA TurnWith ==
  ASSUME NEW g, NEW l, NEW kd, NEW D, NEW h, Turn(h, g, l, kd, D), NEW E, D \subseteq E
  PROVE  Turn(h, g, l, kd, E)
BY DEF Turn

(* What is left of h when some children of l are erased.                   *)
Erasing(u, h, l, U) ==
  /\ Whole(u) /\ l \in LayersOf(u) /\ InPlace(u, h)
  /\ LayersOf(u) \subseteq LayersOf(h) /\ LayersOf(h) \ Unread(h) \subseteq LayersOf(u)
  /\ \A x \in LayersOf(u) : u.ins[x] = h.ins[x] /\ u.kind[x] = h.kind[x]
  /\ Unread(u) \subseteq U \cup {l}

LEMMA EraseChildKeeps ==
  ASSUME NEW g, Whole(g), NEW l \in LayersOf(g), NEW kd \in {"permute", "reshape"},
         NEW h, Turn(h, g, l, kd, Children(g, l, kd)),
         NEW U, NEW u, Erasing(u, h, l, U), NEW c, Reads(h, c, l), NEW v,
         v = IF c \in LayersOf(u) /\ IsOutputUnconnected(u, c) THEN EraseLayer(u, c) ELSE u
  PROVE  Erasing(v, h, l, U \ {c})
<1>1. Whole(u) /\ Whole(h) /\ c # l
  BY ReadIs DEF Erasing, Turn
<1>2. CASE c \in Unread(u)
  <2>1. v = EraseLayer(u, c)
    BY <1>2 DEF Unread
  <2>2. /\ Whole(v) /\ LayersOf(v) = LayersOf(u) \ {c} /\ c \in LayersOf(u) /\ InPlace(v, u)
        /\ \A x \in LayersOf(v) : v.ins[x] = u.ins[x] /\ v.kind[x] = u.kind[x]
    BY <1>1, <1>2, <2>1, WholeErase
  <2>3. \A x : Reads(u, x, l) => Reads(h, x, l)
    BY DEF Erasing, Reads
  <2>4. c \in Unread(h)
    <3>1. c \in LayersOf(h) /\ h.kind[c] = u.kind[c] /\ u.kind[c] # "output" /\ \A y : ~Reads(u, y, c)
      BY <1>1, <1>2, <2>2, UnreadReads DEF Erasing
    <3>2. SUFFICES ASSUME c \notin Unread(h) PROVE FALSE
      OBVIOUS
    <3>3. PICK y : Reads(h, y, c)
      BY <1>1, <3>1, <3>2, UnreadReads
    <3>4. y \notin Unread(h)
      <4> SUFFICES ASSUME y \in Unread(h) PROVE FALSE
        OBVIOUS
      <4>1. \A s : Reads(h, y, s) => s = l
        BY <1>1, ChildIs DEF Turn
      <4> QED
        BY <1>1, <3>3, <4>1
    <3>5. y \in LayersOf(u) /\ u.ins[y] = h.ins[y]
      BY <3>3, <3>4 DEF Erasing, Reads
    <3> QED
      BY <3>1, <3>3, <3>5 DEF Reads
  <2>5. \A s : Reads(u, c, s) => s = l
    <3>1. \A s : Reads(h, c, s) => s = l
      BY <1>1, <2>4, ChildIs DEF Turn
    <3>2. \A s : Reads(u, c, s) => Reads(h, c, s)
      BY <2>2 DEF Erasing, Reads
    <3> QED
      BY <3>1, <3>2
  <2>6. ASSUME NEW x \in Unread(v), x # l PROVE x \in U \ {c}
    <3>1. x \in LayersOf(v) /\ x \in LayersOf(u) /\ x # c /\ v.kind[x] # "output" /\ \A y : ~Reads(v, y, x)
      BY <2>2, UnreadLayers, UnreadReads
    <3>2. \A y : ~Reads(u, y, x)
      <4> SUFFICES ASSUME NEW y, Reads(u, y, x) PROVE FALSE
        OBVIOUS
      <4>1. y # c
        BY <2>5, <2>6
      <4>2. Reads(v, y, x)
        BY <2>2, <4>1 DEF Reads
      <4> QED
        BY <3>1, <4>2
    <3>3. x \in Unread(u)
      BY <1>1, <2>2, <3>1, <3>2, UnreadReads
    <3> QED
      BY <2>6, <3>1, <3>3 DEF Erasing
  <2>7. Unread(v) \subseteq (U \ {c}) \cup {l}
    BY <2>6
  <2>8. LayersOf(h) \ Unread(h) \subseteq LayersOf(v) /\ LayersOf(v) \subseteq LayersOf(h) /\ l \in LayersOf(v)
    BY <1>1, <2>2, <2>4 DEF Erasing
  <2>9. \A x \in LayersOf(v) : v.ins[x] = h.ins[x] /\ v.kind[x] = h.kind[x]
    BY <2>2 DEF Erasing
  <2>10. InPlace(v, h)
    BY <2>2, InPlaceLess DEF Erasing, Whole
  <2> QED
    BY <2>2, <2>7, <2>8, <2>9, <2>10 DEF Erasing
<1>3. CASE c \notin Unread(u)
  <2>1. v = u
    BY <1>3 DEF Unread
  <2>2. Unread(u) \subseteq (U \ {c}) \cup {l}
    BY <1>3 DEF Erasing
  <2> QED
    BY <2>1, <2>2 DEF Erasing
<1> QED
  BY <1>2, <1>3

(* What an optimization leaves: only the layer it ran on may have lost its *)
(* last reader, and then what it reads has another.                        *)
Optimized(u, g, l) ==
  /\ Whole(u) /\ InPlace(u, g) /\ l \in LayersOf(u) /\ Unread(u) \subseteq {l}
  /\ l \in Unread(u) => DOMAIN u.ins[l] = 1 .. 1 /\ \E x \in LayersOf(u) : x # l /\ Reads(u, x, u.ins[l][1])

LEMMA EraseChildrenKeeps ==
  ASSUME NEW g, Whole(g), NEW l \in LayersOf(g), NEW kd \in {"permute", "reshape"},
         NEW h, Turn(h, g, l, kd, Children(g, l, kd))
  PROVE  Optimized(EraseUnconnectedChildren(h, l), g, l)
<1>0a. Whole(h) /\ l \in LayersOf(h) /\ Unread(h) \subseteq Children(g, l, kd) /\ Kept(h, l) /\ Extends(h, g, l, kd)
  BY DEF Turn, Extends
<1>0b. PICK es : es = h.outs[l]
  OBVIOUS
<1>0c. PICK n \in Nat : n = Len(es) /\ \A k \in 1 .. n : es[k] \in Readers(h.ins, l)
  <2>1. Lists(es, Readers(h.ins, l))
    BY <1>0a, <1>0b, WholeIs
  <2> QED
    BY <2>1, ListsToSet
<1>0d. \A k \in 1 .. n : Reads(h, es[k][1], l)
  <2> TAKE k \in 1 .. n
  <2>1. es[k][1] \in DOMAIN h.ins /\ es[k][2] \in DOMAIN h.ins[es[k][1]] /\ h.ins[es[k][1]][es[k][2]] = l
    BY <1>0c, ReaderIsSlot
  <2> QED
    BY <1>0a, <2>1, WholeIs DEF Reads
<1>0e. \A c \in Unread(h) : \E k \in 1 .. n : es[k][1] = c
  <2> TAKE c \in Unread(h)
  <2>1. c \in LayersOf(h) /\ DOMAIN h.ins[c] = 1 .. 1 /\ h.ins[c][1] = l
    BY <1>0a, ChildIs
  <2>2. 1 \in DOMAIN h.ins[c] /\ c \in DOMAIN h.ins
    BY <1>0a, <2>1, WholeIs
  <2>3. <<c, 1>> \in Readers(h.ins, l)
    BY <2>1, <2>2, ReaderIs
  <2>4. Lists(es, Readers(h.ins, l))
    BY <1>0a, <1>0b, WholeIs
  <2>5. PICK k \in 1 .. n : es[k] = <<c, 1>>
    BY <1>0c, <2>3, <2>4 DEF Lists
  <2>6. es[k][1] = c
    BY <2>5
  <2> QED
    BY <2>6
<1> DEFINE Step(f, k) == IF k = 0 THEN h ELSE IF es[k][1] \in LayersOf(f[k - 1]) /\ IsOutputUnconnected(f[k - 1], es[k][1])
                         THEN EraseLayer(f[k - 1], es[k][1]) ELSE f[k - 1]
           after == CHOOSE f : f = [k \in 0 .. n |-> Step(f, k)]
           Is == {m \in 0 .. n : \E f : f = [k \in 0 .. m |-> Step(f, k)]}
<1>1. \E f : f = [k \in 0 .. n |-> Step(f, k)]
  <2>1. 0 \in Is
    <3>1. PICK f : f = [k \in 0 .. 0 |-> Step(<<>>, 0)]
      OBVIOUS
    <3>2. f = [k \in 0 .. 0 |-> Step(f, k)]
      BY <3>1
    <3> QED
      BY <3>2
  <2>2. ASSUME NEW m \in 0 .. n, m # n, m \in Is PROVE m + 1 \in Is
    <3>1. PICK f : f = [k \in 0 .. m |-> Step(f, k)]
      BY <2>2
    <3>2. PICK u : u = [k \in 0 .. m + 1 |-> IF k = m + 1 THEN Step(f, k) ELSE f[k]]
      OBVIOUS
    <3>3. ASSUME NEW k \in 0 .. m + 1 PROVE u[k] = Step(u, k)
      <4>1. k # 0 => k - 1 \in 0 .. m /\ u[k - 1] = f[k - 1]
        BY <3>2
      <4>2. k \in 0 .. m \/ k = m + 1
        OBVIOUS
      <4>3. u[k] = Step(f, k)
        BY <3>1, <3>2, <4>2
      <4> QED
        BY <4>1, <4>3
    <3>4. u = [k \in 0 .. m + 1 |-> Step(u, k)]
      <4> HIDE DEF Step
      <4> QED
        BY <3>2, <3>3
    <3>5. m \in 0 .. n /\ m # n
      BY <2>2, Zenon
    <3>6. m + 1 \in 0 .. n
      BY ONLY <3>5, n \in Nat
    <3> QED
      BY <3>4, <3>6
  <2>3. \A m \in 0 .. n : m \in Is
    <3> HIDE DEF Is
    <3> QED
      BY <2>1, <2>2, ByTurns
  <2>4. n \in 0 .. n
    OBVIOUS
  <2> QED
    BY <2>3, <2>4
<1>2. after = [k \in 0 .. n |-> Step(after, k)]
  <2> HIDE DEF Step
  <2> QED
    BY <1>1
<1>3. EraseUnconnectedChildren(h, l) = after[n]
  BY <1>0b, <1>0c DEF EraseUnconnectedChildren
<1> HIDE DEF after
<1>4. \A k \in 0 .. n : after[k] = Step(after, k)
  <2> HIDE DEF Step
  <2> QED
    BY <1>2
<1>5. 0 \in 0 .. n /\ n \in 0 .. n /\ \A k \in 0 .. n : k # n => k + 1 \in 0 .. n /\ k + 1 # 0 /\ (k + 1) - 1 = k /\ k + 1 \in 1 .. n
  OBVIOUS
<1> DEFINE Left(k) == Unread(h) \ {es[j][1] : j \in 1 .. k}
           Good == {k \in 0 .. n : Erasing(after[k], h, l, Left(k))}
<1>6. 0 \in Good
  <2>1. after[0] = h
    BY <1>4, <1>5
  <2>2. Unread(h) \subseteq Left(0) \cup {l}
    OBVIOUS
  <2>3. Erasing(h, h, l, Left(0))
    <3> HIDE DEF Left
    <3> QED
      BY <1>0a, <2>2, InPlaceSame DEF Erasing
  <2>4. Erasing(after[0], h, l, Left(0))
    <3> HIDE DEF Left
    <3> QED
      BY <2>1, <2>3
  <2> QED
    BY <1>5, <2>4
<1>7. ASSUME NEW k \in 0 .. n, k # n, k \in Good PROVE k + 1 \in Good
  <2>1. k + 1 \in 0 .. n /\ k + 1 # 0 /\ (k + 1) - 1 = k /\ k + 1 \in 1 .. n
    BY <1>5, <1>7
  <2>2. PICK c : c = es[k + 1][1]
    OBVIOUS
  <2>3. after[k + 1] = IF c \in LayersOf(after[k]) /\ IsOutputUnconnected(after[k], c) THEN EraseLayer(after[k], c) ELSE after[k]
    BY <1>4, <2>1, <2>2
  <2>4. Erasing(after[k], h, l, Left(k))
    BY <1>7
  <2>5. Reads(h, c, l)
    BY <1>0d, <2>1, <2>2
  <2>6. Left(k + 1) = Left(k) \ {c}
    <3>1. \A j : j \in 1 .. k + 1 <=> j \in 1 .. k \/ j = k + 1
      BY <2>1
    <3> QED
      BY <2>2, <3>1
  <2>7. Erasing(after[k + 1], h, l, Left(k + 1))
    <3> HIDE DEF Left
    <3>1. PICK U : U = Left(k)
      OBVIOUS
    <3>2. PICK u, v : u = after[k] /\ v = after[k + 1]
      OBVIOUS
    <3>3. Erasing(u, h, l, U) /\ v = IF c \in LayersOf(u) /\ IsOutputUnconnected(u, c) THEN EraseLayer(u, c) ELSE u
      BY <2>3, <2>4, <3>1, <3>2
    <3>4. Erasing(v, h, l, U \ {c})
      BY ONLY <2>5, <3>3, EraseChildKeeps, Whole(g), l \in LayersOf(g), kd \in {"permute", "reshape"},
              Turn(h, g, l, kd, Children(g, l, kd)), ZenonT(60)
    <3> QED
      BY <2>6, <3>1, <3>2, <3>4
  <2> QED
    BY <2>1, <2>7
<1>8. n \in Good
  <2> HIDE DEF Good
  <2> QED
    BY <1>5, <1>6, <1>7, ByTurns
<1>9. PICK u : u = EraseUnconnectedChildren(h, l)
  OBVIOUS
<1>10. Erasing(u, h, l, Left(n))
  BY <1>3, <1>8, <1>9
<1>11. Left(n) = {}
  BY <1>0e
<1>12. Erasing(u, h, l, {})
  <2> HIDE DEF Left
  <2> QED
    BY <1>10, <1>11
<1>13. \A x, s : x \in LayersOf(u) /\ Reads(h, x, s) => Reads(u, x, s)
  BY <1>12 DEF Erasing, Reads
<1>14. Whole(u) /\ l \in LayersOf(u) /\ Unread(u) \subseteq {l} /\ InPlace(u, g)
  BY <1>0a, <1>12, InPlaceMore DEF Erasing, Extends
<1>15. ASSUME l \in Unread(u) PROVE DOMAIN u.ins[l] = 1 .. 1 /\ \E x \in LayersOf(u) : x # l /\ Reads(u, x, u.ins[l][1])
  <2>1. \A x : ~Reads(u, x, l)
    BY <1>14, <1>15, UnreadReads
  <2>2. \A x \in LayersOf(h) \ Unread(h) : x \in LayersOf(u)
    BY <1>12 DEF Erasing
  <2>3. DOMAIN h.ins[l] = 1 .. 1 /\ \E x \in LayersOf(h) \ Unread(h) : x # l /\ Reads(h, x, h.ins[l][1])
    BY <1>0a, <1>13, <2>1, <2>2 DEF Kept
  <2>4. u.ins[l] = h.ins[l]
    BY <1>12 DEF Erasing
  <2> QED
    BY <1>13, <2>2, <2>3, <2>4
<1> QED
  BY <1>9, <1>14, <1>15 DEF Optimized

LEMMA ConnectionsOptimized ==
  ASSUME NEW g, Whole(g), Unread(g) = {}, NEW l \in LayersOf(g), NEW o \in ForChildren,
         g.kind[l] \in BaseKinds(o), g.kind[l] # "output"
  PROVE  Optimized(Run(o, g, l), g, l)
<1>0. PICK kd : kd = ChildKind(o)
  OBVIOUS
<1>0a. kd \in {"permute", "reshape"} /\ NumInputSlots(kd) = 1
  BY <1>0 DEF ChildKind, NumInputSlots
<1>0b. PICK es : es = g.outs[l]
  OBVIOUS
<1>0c. PICK n \in Nat : n = Len(es) /\ (\A k \in 1 .. n : es[k] \in Readers(g.ins, l)) /\ \A j, k \in 1 .. n : es[j] = es[k] => j = k
  <2>1. Lists(es, Readers(g.ins, l))
    BY <1>0b, WholeIs
  <2> QED
    BY <2>1, ListsToSet DEF Lists
<1>0d. PICK Ch : Ch = Children(g, l, kd)
  OBVIOUS
<1>0e. \A k \in 1 .. n : /\ es[k][1] \in LayersOf(g)
                         /\ g.kind[es[k][1]] = kd => es[k][1] \in Ch /\ es[k] = <<es[k][1], 1>>
  <2> TAKE k \in 1 .. n
  <2>1. PICK c, i : c = es[k][1] /\ i = es[k][2]
    OBVIOUS
  <2>2. es[k] = <<c, i>> /\ c \in DOMAIN g.ins /\ i \in DOMAIN g.ins[c] /\ g.ins[c][i] = l
    BY <1>0c, <2>1, ReaderIsSlot
  <2>3. c \in LayersOf(g) /\ DOMAIN g.ins[c] = 1 .. NumInputSlots(g.kind[c])
    BY <2>2, WholeIs
  <2>4. ASSUME g.kind[c] = kd PROVE c \in Ch /\ i = 1
    <3>1. i \in 1 .. 1
      BY <1>0a, <2>2, <2>3, <2>4
    <3>2. Reads(g, c, l)
      BY <2>2, <2>3 DEF Reads
    <3> QED
      BY <1>0d, <2>3, <2>4, <3>1, <3>2 DEF Children
  <2> QED
    BY <2>1, <2>2, <2>3, <2>4
<1> DEFINE Step(f, k) == IF k = 0 THEN g ELSE IF f[k - 1].kind[es[k][1]] = kd THEN Optimize(o, f[k - 1], es[k]) ELSE f[k - 1]
           after == CHOOSE f : f = [k \in 0 .. n |-> Step(f, k)]
           Is == {m \in 0 .. n : \E f : f = [k \in 0 .. m |-> Step(f, k)]}
<1>1. \E f : f = [k \in 0 .. n |-> Step(f, k)]
  <2>1. 0 \in Is
    <3>1. PICK f : f = [k \in 0 .. 0 |-> Step(<<>>, 0)]
      OBVIOUS
    <3>2. f = [k \in 0 .. 0 |-> Step(f, k)]
      BY <3>1
    <3> QED
      BY <3>2
  <2>2. ASSUME NEW m \in 0 .. n, m # n, m \in Is PROVE m + 1 \in Is
    <3>1. PICK f : f = [k \in 0 .. m |-> Step(f, k)]
      BY <2>2
    <3>2. PICK u : u = [k \in 0 .. m + 1 |-> IF k = m + 1 THEN Step(f, k) ELSE f[k]]
      OBVIOUS
    <3>3. ASSUME NEW k \in 0 .. m + 1 PROVE u[k] = Step(u, k)
      <4>1. k # 0 => k - 1 \in 0 .. m /\ u[k - 1] = f[k - 1]
        BY <3>2
      <4>2. k \in 0 .. m \/ k = m + 1
        OBVIOUS
      <4>3. u[k] = Step(f, k)
        BY <3>1, <3>2, <4>2
      <4> QED
        BY <4>1, <4>3
    <3>4. u = [k \in 0 .. m + 1 |-> Step(u, k)]
      <4> HIDE DEF Step
      <4> QED
        BY <3>2, <3>3
    <3>5. m \in 0 .. n /\ m # n
      BY <2>2, Zenon
    <3>6. m + 1 \in 0 .. n
      BY ONLY <3>5, n \in Nat
    <3> QED
      BY <3>4, <3>6
  <2>3. \A m \in 0 .. n : m \in Is
    <3> HIDE DEF Is
    <3> QED
      BY <2>1, <2>2, ByTurns
  <2>4. n \in 0 .. n
    OBVIOUS
  <2> QED
    BY <2>3, <2>4
<1>2. after = [k \in 0 .. n |-> Step(after, k)]
  <2> HIDE DEF Step
  <2> QED
    BY <1>1
<1>3. Run(o, g, l) = EraseUnconnectedChildren(after[n], l)
  <2> DEFINE A(s, kind, m) ==
        CHOOSE f : f = [k \in 0 .. m |->
          IF k = 0 THEN g ELSE IF f[k - 1].kind[s[k][1]] = kind THEN Optimize(o, f[k - 1], s[k]) ELSE f[k - 1]]
  <2>1. o # "permuteAsReshape"
    BY DEF ForChildren
  <2>2. Run(o, g, l) = EraseUnconnectedChildren(A(g.outs[l], ChildKind(o), Len(g.outs[l]))[Len(g.outs[l])], l)
    BY <2>1 DEF Run, ForConnections
  <2>3. A(g.outs[l], ChildKind(o), Len(g.outs[l])) = A(es, kd, n)
    <3> HIDE DEF A
    <3> QED
      BY <1>0, <1>0b, <1>0c
  <2>4. Run(o, g, l) = EraseUnconnectedChildren(A(es, kd, n)[n], l)
    <3> HIDE DEF A
    <3> QED
      BY <1>0b, <1>0c, <2>2, <2>3
  <2> QED
    BY <2>4
<1> HIDE DEF after
<1>4. \A k \in 0 .. n : after[k] = Step(after, k)
  <2> HIDE DEF Step
  <2> QED
    BY <1>2
<1>5. 0 \in 0 .. n /\ n \in 0 .. n /\ \A k \in 0 .. n : k # n => k + 1 \in 0 .. n /\ k + 1 # 0 /\ (k + 1) - 1 = k /\ k + 1 \in 1 .. n
  OBVIOUS
<1> DEFINE Turned(k) == IF IsSquash(o) THEN Ch ELSE {es[j][1] : j \in 1 .. k} \cap Ch
           Good == {k \in 0 .. n : /\ Turn(after[k], g, l, kd, Turned(k))
                                   /\ IsSquash(o) => \A x : Reads(after[k], x, l) => Reads(g, x, l)}
<1>6. 0 \in Good
  <2>1. after[0] = g
    BY <1>4, <1>5
  <2>2. Turn(g, g, l, kd, Turned(0))
    BY TurnBegins
  <2>3. Turn(after[0], g, l, kd, Turned(0)) /\ \A x : Reads(after[0], x, l) => Reads(g, x, l)
    <3> HIDE DEF Turned
    <3> QED
      BY <2>1, <2>2
  <2> QED
    BY <1>5, <2>3
<1>7. ASSUME NEW k \in 0 .. n, k # n, k \in Good PROVE k + 1 \in Good
  <2>1. k + 1 \in 0 .. n /\ k + 1 # 0 /\ (k + 1) - 1 = k /\ k + 1 \in 1 .. n
    BY <1>5, <1>7
  <2>2. PICK c : c = es[k + 1][1]
    OBVIOUS
  <2>3. PICK h, u : h = after[k] /\ u = after[k + 1]
    OBVIOUS
  <2>4. u = IF h.kind[c] = kd THEN Optimize(o, h, es[k + 1]) ELSE h
    BY <1>4, <2>1, <2>2, <2>3
  <2>5. Turn(h, g, l, kd, Turned(k)) /\ (IsSquash(o) => \A x : Reads(h, x, l) => Reads(g, x, l))
    BY <1>7, <2>3
  <2>6. \A j : j \in 1 .. k + 1 <=> j \in 1 .. k \/ j = k + 1
    BY <2>1
  <2>7. Turned(k) \subseteq Turned(k + 1) /\ Turned(k) \subseteq Ch /\ (IsSquash(o) => Turned(k) = Ch)
        /\ (c \in Ch => Turned(k) \cup {c} = Turned(k + 1))
    BY <2>2, <2>6
  <2>8. PICK D, E : D = Turned(k) /\ E = Turned(k + 1)
    OBVIOUS
  <2>9. c \in LayersOf(g) /\ (g.kind[c] = kd => c \in Ch /\ es[k + 1] = <<c, 1>>)
    BY <1>0e, <2>1, <2>2
  <2>10. CASE h.kind[c] = kd
    <3>1. g.kind[c] = kd
      BY <2>5, <2>9, <2>10 DEF Turn, Extends
    <3>2. c \in Ch /\ u = Optimize(o, h, <<c, 1>>)
      BY <2>4, <2>9, <2>10, <3>1
    <3>3. ~IsSquash(o) => c \notin D
      <4> SUFFICES ASSUME ~IsSquash(o), c \in D PROVE FALSE
        OBVIOUS
      <4>1. PICK j \in 1 .. k : es[j][1] = c
        BY <2>8
      <4>2. j \in 1 .. n /\ j # k + 1
        BY <2>1
      <4>3. es[j] = <<c, 1>>
        BY <1>0e, <3>1, <4>1, <4>2
      <4> QED
        BY <1>0c, <2>1, <2>9, <3>1, <4>2, <4>3
    <3> HIDE DEF Turned
    <3>4. Turn(h, g, l, kd, D) /\ D \subseteq Ch /\ (IsSquash(o) => D = Ch) /\ D \cup {c} = E
      BY <2>5, <2>7, <2>8, <3>2
    <3>5. Turn(u, g, l, kd, D \cup {c}) /\ (IsSquash(o) => \A x : Reads(u, x, l) => Reads(g, x, l))
      BY <1>0, <1>0d, <2>5, <3>2, <3>3, <3>4, OptimizeTurn
    <3> QED
      BY <2>1, <2>3, <2>8, <3>4, <3>5
  <2>11. CASE h.kind[c] # kd
    <3> HIDE DEF Turned
    <3>1. u = h /\ D \subseteq E /\ Turn(h, g, l, kd, D)
      BY <2>4, <2>5, <2>7, <2>8, <2>11
    <3>2. Turn(u, g, l, kd, E) /\ (IsSquash(o) => \A x : Reads(u, x, l) => Reads(g, x, l))
      BY <2>5, <3>1, TurnWith
    <3> QED
      BY <2>1, <2>3, <2>8, <3>2
  <2> QED
    BY <2>10, <2>11
<1>8. n \in Good
  <2> HIDE DEF Good
  <2> QED
    BY <1>5, <1>6, <1>7, ByTurns
<1>9. PICK h : h = after[n]
  OBVIOUS
<1>10. Turn(h, g, l, kd, Children(g, l, kd))
  <2>1. Turn(h, g, l, kd, Turned(n)) /\ Turned(n) \subseteq Children(g, l, kd)
    BY <1>0d, <1>8, <1>9
  <2> HIDE DEF Turned
  <2> QED
    BY <2>1, TurnWith
<1>11. Optimized(EraseUnconnectedChildren(h, l), g, l)
  BY <1>0a, <1>10, EraseChildrenKeeps
<1> QED
  BY <1>3, <1>9, <1>11

LEMMA PermuteAsReshapeOptimized ==
  ASSUME NEW g, Whole(g), Unread(g) = {}, NEW l \in LayersOf(g), NEW u, u = PermuteAsReshape(g, l)
  PROVE  Optimized(u, g, l)
<1>1. CASE ~(g.kind[l] = "permute" /\ IsReshape(g, l))
  <2>1. u = g
    BY <1>1 DEF PermuteAsReshape
  <2> QED
    BY <2>1, InPlaceSame DEF Optimized
<1>2. CASE g.kind[l] = "permute" /\ IsReshape(g, l)
  <2>1. PICK n : n = New(g)
    OBVIOUS
  <2>2. PICK h : h = InsertNewLayer(g, n, <<l, 1>>, "reshape", g.info[l])
    OBVIOUS
  <2>3. PICK k : k = [h EXCEPT !.info[n] = g.info[l]]
    OBVIOUS
  <2>4. u = MoveAllConnections(k, l, n)
    BY <1>2, <2>1, <2>2, <2>3 DEF PermuteAsReshape
  <2>5. DOMAIN g.ins[l] = 1 .. 1 /\ 1 \in DOMAIN g.ins[l]
    <3>1. NumInputSlots(g.kind[l]) = 1
      BY <1>2 DEF NumInputSlots
    <3> QED
      BY <3>1, WholeIs
  <2>6. PICK p : p = g.ins[l][1]
    OBVIOUS
  <2>7. /\ Whole(h) /\ Inserted(h, g, n, l, 1, "reshape")
        /\ \A M, r : Ranks(r, M, g) => \E q : Ranks(q, 2 * M + 1, h) /\ RankedBehind(q, r, g, n, p)
    <3>1. NumInputSlots("reshape") = 1 /\ "reshape" \notin {"input", "output"}
      BY DEF NumInputSlots
    <3> QED
      BY <2>1, <2>2, <2>5, <2>6, <3>1, WholeInsert
  <2>8. Whole(k) /\ LayersOf(k) = LayersOf(h) /\ k.kind = h.kind /\ k.ins = h.ins /\ InPlace(k, h)
    BY <2>3, <2>7, WholeInfo
  <2>9. /\ n \notin LayersOf(g) /\ LayersOf(k) = LayersOf(g) \cup {n}
        /\ k.kind[n] = "reshape" /\ \A x \in LayersOf(g) : k.kind[x] = g.kind[x]
        /\ DOMAIN k.ins[n] = 1 .. 1 /\ k.ins[n][1] = p /\ k.ins[l][1] = n
        /\ \A x \in LayersOf(g) : DOMAIN k.ins[x] = DOMAIN g.ins[x]
        /\ \A x \in LayersOf(g) : \A j \in DOMAIN g.ins[x] : x # l \/ j # 1 => k.ins[x][j] = g.ins[x][j]
    BY <2>6, <2>7, <2>8 DEF Inserted
  <2>10. Reads(g, l, p) /\ Reads(k, n, p) /\ Reads(k, l, n)
    <3>1. 1 \in DOMAIN k.ins[n] /\ n \in LayersOf(k) /\ l \in LayersOf(k) /\ 1 \in DOMAIN k.ins[l]
      BY <2>5, <2>9
    <3> QED
      BY <2>5, <2>6, <2>9, <3>1 DEF Reads
  <2>11. \A x, y : Reads(g, x, y) /\ x # l => Reads(k, x, y)
    BY <2>9 DEF Reads
  <2>12. \A y : Reads(g, l, y) => y = p
    <3>1. \A j \in DOMAIN g.ins[l] : j = 1
      BY <2>5
    <3> QED
      BY <2>6, <3>1 DEF Reads
  <2>13. Whole(u) /\ Redirected(u, k, l, n)
    <3>1. PICK M, r : Ranks(r, M, g)
      BY RankedIs
    <3>2. PICK q : Ranks(q, 2 * M + 1, h) /\ RankedBehind(q, r, g, n, p)
      BY <2>7, <3>1
    <3>3. PICK K : K = 2 * M + 1
      OBVIOUS
    <3>4. Ranks(q, K, k)
      BY <2>8, <3>2, <3>3 DEF Ranks
    <3>5. q[n] <= q[l]
      <4>1. q[n] = 2 * r[p] + 1 /\ q[l] = 2 * r[l]
        BY <3>2 DEF RankedBehind
      <4>2. r[p] < r[l] /\ r[p] \in Nat /\ r[l] \in Nat
        BY <2>10, <3>1, ReadIs
      <4> QED
        BY <4>1, <4>2
    <3>6. l \in LayersOf(k) /\ n \in LayersOf(k) /\ l # n /\ k.kind[n] # "output"
      BY <2>9
    <3> QED
      BY <2>4, <2>8, <3>4, <3>5, <3>6, WholeMoveAll
  <2>14. LayersOf(u) = LayersOf(k) /\ u.kind = k.kind
    BY <2>13 DEF Redirected
  <2>15. PICK f : Reads(g, f, l)
    BY <1>2, UnreadReads
  <2>16. f # l /\ Reads(k, f, l)
    BY <2>11, <2>15, ReadIs
  <2>17. Reads(u, f, n) /\ f \in LayersOf(u)
    BY <2>8, <2>13, <2>16, RedirectedReads DEF Reads
  <2>18. p # l
    BY <2>10, ReadIs
  <2>19. Reads(u, n, p) /\ Reads(u, l, n)
    BY <2>8, <2>9, <2>10, <2>13, <2>18, RedirectedReads
  <2>20. DOMAIN u.ins[l] = 1 .. 1 /\ u.ins[l][1] = n
    <3>1. l \in LayersOf(k) /\ DOMAIN k.ins[l] = 1 .. 1 /\ 1 \in DOMAIN k.ins[l]
      BY <2>5, <2>9
    <3> QED
      BY <2>9, <2>13, <3>1 DEF Redirected
  <2>21. ASSUME NEW x \in Unread(u) PROVE x = l
    <3>1. x \in LayersOf(u) /\ u.kind[x] # "output" /\ \A y : ~Reads(u, y, x)
      BY <2>13, UnreadLayers, UnreadReads
    <3>2. x # n /\ x # p
      BY <2>19, <3>1
    <3>3. x \in LayersOf(g) /\ g.kind[x] # "output" /\ x \notin Unread(g)
      BY <2>9, <2>14, <3>1, <3>2
    <3>4. PICK y : Reads(g, y, x)
      BY <3>3, UnreadReads
    <3>5. y # l
      BY <2>12, <3>2, <3>4
    <3>6. x # l => Reads(u, y, x)
      BY <2>8, <2>11, <2>13, <3>4, <3>5, RedirectedReads
    <3> QED
      BY <3>1, <3>6
  <2>22. Unread(u) \subseteq {l} /\ l \in LayersOf(u) /\ f # l /\ Reads(u, f, u.ins[l][1])
    BY <2>9, <2>14, <2>16, <2>17, <2>20, <2>21
  <2>23. InPlace(u, g)
    <3>1. InPlace(h, g) /\ LayersOf(g) \subseteq LayersOf(h) /\ InPlace(u, k)
      BY <2>7, <2>13 DEF Inserted, Redirected
    <3>2. InPlace(k, g)
      BY <2>8, <3>1, InPlaceMore
    <3> QED
      BY <2>8, <3>1, <3>2, InPlaceMore
  <2> QED
    BY <2>13, <2>17, <2>20, <2>22, <2>23 DEF Optimized
<1> QED
  BY <1>1, <1>2

LEMMA RunOptimized ==
  ASSUME NEW g, Whole(g), Unread(g) = {}, NEW l \in LayersOf(g), NEW k \in DOMAIN Optimizations
  PROVE  Optimized(Run(Optimizations[k], g, l), g, l)
<1>1. PICK o : o = Optimizations[k]
  OBVIOUS
<1>2. o \in ForChildren \cup {"permuteAsReshape"}
  BY <1>1 DEF Optimizations, ForChildren
<1>3. CASE o = "permuteAsReshape"
  <2>1. Run(o, g, l) = PermuteAsReshape(g, l)
    BY <1>3 DEF Run
  <2> QED
    BY <1>1, <2>1, PermuteAsReshapeOptimized
<1>4. CASE o \in ForChildren
  <2>1. CASE g.kind[l] \in BaseKinds(o) /\ g.kind[l] # "output"
    BY <1>1, <1>4, <2>1, ConnectionsOptimized
  <2>2. CASE ~(g.kind[l] \in BaseKinds(o) /\ g.kind[l] # "output")
    <3>1. Run(o, g, l) = g
      BY <1>4, <2>2 DEF Run, ForConnections, ForChildren
    <3> QED
      BY <1>1, <3>1, InPlaceSame DEF Optimized
  <2> QED
    BY <2>1, <2>2
<1> QED
  BY <1>2, <1>3, <1>4

LEMMA EraseBaseKeeps ==
  ASSUME NEW g, NEW u, NEW l, Optimized(u, g, l), NEW h, h = EraseIfUnconnected(u, l)
  PROVE  /\ Whole(h) /\ Unread(h) = {} /\ LayersOf(h) # {} /\ InPlace(h, u)
         /\ LayersOf(h) \subseteq LayersOf(u)
         /\ l \notin LayersOf(h) => LayersOf(h) = LayersOf(u) \ {l}
<1>1. Whole(u) /\ l \in LayersOf(u) /\ Unread(u) \subseteq {l}
  BY DEF Optimized
<1>2. CASE l \notin Unread(u)
  <2>1. h = u
    BY <1>1, <1>2 DEF EraseIfUnconnected, Unread
  <2> QED
    BY <1>1, <1>2, <2>1, InPlaceSame
<1>3. CASE l \in Unread(u)
  <2>1. h = EraseLayer(u, l)
    BY <1>3 DEF EraseIfUnconnected, Unread
  <2>2. /\ Whole(h) /\ LayersOf(h) = LayersOf(u) \ {l} /\ InPlace(h, u)
        /\ \A x \in LayersOf(h) : h.ins[x] = u.ins[x] /\ h.kind[x] = u.kind[x]
    BY <1>1, <1>3, <2>1, WholeErase
  <2>3. PICK p : p = u.ins[l][1]
    OBVIOUS
  <2>4. DOMAIN u.ins[l] = 1 .. 1
    BY <1>3 DEF Optimized
  <2>5. PICK f \in LayersOf(u) : f # l /\ Reads(u, f, p)
    BY <1>3, <2>3 DEF Optimized
  <2>6. \A y : Reads(u, l, y) => y = p
    <3>1. \A j \in DOMAIN u.ins[l] : j = 1
      BY <2>4
    <3> QED
      BY <2>3, <3>1 DEF Reads
  <2>7. \A x, y : x # l /\ Reads(u, x, y) => Reads(h, x, y)
    BY <2>2 DEF Reads
  <2>8. ASSUME NEW x \in Unread(h) PROVE FALSE
    <3>1. x \in LayersOf(h) /\ h.kind[x] # "output" /\ \A y : ~Reads(h, y, x)
      BY <2>2, UnreadLayers, UnreadReads
    <3>2. x \in LayersOf(u) /\ u.kind[x] # "output" /\ x \notin Unread(u)
      BY <1>1, <2>2, <3>1
    <3>3. PICK y : Reads(u, y, x)
      BY <1>1, <3>2, UnreadReads
    <3>4. y = l
      BY <2>7, <3>1, <3>3
    <3>5. x = p
      BY <2>6, <3>3, <3>4
    <3> QED
      BY <2>5, <2>7, <3>1, <3>5
  <2>9. f \in LayersOf(h)
    BY <2>2, <2>5
  <2> QED
    BY <2>2, <2>8, <2>9
<1> QED
  BY <1>2, <1>3

----------------------------------------------------------------------------
(* The user's network.                                                     *)

(* The layers there were read what they read; the slots of l up to k read  *)
(* what from has for them, and the others nothing.                         *)
Connected(h, g, l, from, k) ==
  /\ Linked(h) /\ h.kind = g.kind /\ h.order = g.order
  /\ \A x \in LayersOf(g) : DOMAIN h.ins[x] = DOMAIN g.ins[x]
  /\ \A x \in LayersOf(g) : x # l => \A i \in DOMAIN g.ins[x] : h.ins[x][i] = g.ins[x][i]
  /\ \A i \in DOMAIN g.ins[l] : h.ins[l][i] = IF i <= k THEN from[i] ELSE None

LEMMA ConnectTurn ==
  ASSUME NEW g, NEW l \in LayersOf(g), NEW m \in Nat, DOMAIN g.ins[l] = 1 .. m,
         NEW from, NEW k \in 0 .. m, k # m, from[k + 1] \in LayersOf(g),
         NEW h, Connected(h, g, l, from, k), NEW u, u = Connect(h, from[k + 1], <<l, k + 1>>)
  PROVE  Connected(u, g, l, from, k + 1)
<1>1. PICK j, s : j = k + 1 /\ s = from[j]
  OBVIOUS
<1>2. LayersOf(h) = LayersOf(g) /\ Linked(h)
  BY DEF Connected, LayersOf
<1>3. j \in 1 .. m /\ ~(j <= k)
  BY <1>1
<1>4. DOMAIN h.ins[l] = 1 .. m /\ h.ins[l][j] = None
  BY <1>3 DEF Connected
<1>5. u = Connect(h, s, <<l, j>>) /\ s \in LayersOf(h) /\ j \in DOMAIN h.ins[l] /\ l \in LayersOf(h)
  BY <1>1, <1>2, <1>3, <1>4
<1>6. Linked(u) /\ u.kind = h.kind /\ u.order = h.order /\ Moved(h.ins, u.ins, {<<l, j>>}, s)
  <2>1. Linked(h) /\ h.ins[l][j] = None
    BY <1>2, <1>4
  <2>2. /\ Linked(u) /\ u.kind = h.kind /\ u.order = h.order /\ u.inOrder = h.inOrder
        /\ Moved(h.ins, u.ins, {<<l, j>>}, s)
    BY ONLY <1>5, <2>1, LinkedConnect
  <2> QED
    BY <2>2
<1>7. DOMAIN h.ins = LayersOf(g)
  BY <1>2, LinkedIs
<1>8. \A x \in LayersOf(g) : /\ DOMAIN u.ins[x] = DOMAIN h.ins[x]
                             /\ \A i \in DOMAIN h.ins[x] : x # l \/ i # j => u.ins[x][i] = h.ins[x][i]
  BY <1>6, <1>7 DEF Moved
<1>9. u.ins[l][j] = s
  BY <1>5, <1>6, <1>7 DEF Moved
<1>10. ASSUME NEW i \in DOMAIN g.ins[l] PROVE u.ins[l][i] = IF i <= k + 1 THEN from[i] ELSE None
  <2>1. i \in 1 .. m /\ i \in DOMAIN h.ins[l] /\ h.ins[l][i] = IF i <= k THEN from[i] ELSE None
    BY <1>4 DEF Connected
  <2>2. CASE i = j
    BY <1>1, <1>9, <2>2
  <2>3. CASE i # j
    <3>1. i <= k + 1 <=> i <= k
      BY <1>1, <2>1, <2>3
    <3>2. u.ins[l][i] = h.ins[l][i]
      BY <1>8, <2>1, <2>3
    <3> QED
      BY <2>1, <3>1, <3>2
  <2> QED
    BY <2>2, <2>3
<1>11. \A x \in LayersOf(g) : x # l => \A i \in DOMAIN g.ins[x] : u.ins[x][i] = g.ins[x][i]
  BY <1>8 DEF Connected
<1>12. u.kind = g.kind /\ u.order = g.order /\ \A x \in LayersOf(g) : DOMAIN u.ins[x] = DOMAIN g.ins[x]
  BY <1>6, <1>8 DEF Connected
<1> QED
  BY <1>6, <1>10, <1>11, <1>12 DEF Connected

LEMMA ConnectAllIs ==
  ASSUME NEW g, Linked(g), NEW l \in LayersOf(g), NEW m \in Nat, DOMAIN g.ins[l] = 1 .. m,
         \A i \in 1 .. m : g.ins[l][i] = None, NEW from \in [1 .. m -> LayersOf(g)]
  PROVE  Connected(ConnectAll(g, l, from), g, l, from, m)
<1>0. PICK n \in Nat : n = m /\ n = Len(from)
  <2>1. from \in Seq(LayersOf(g))
    BY SeqDef
  <2>2. Len(from) \in Nat /\ DOMAIN from = 1 .. Len(from)
    BY <2>1, LenProperties
  <2>3. Len(from) = m
    BY <2>2
  <2> QED
    BY <2>3
<1> DEFINE Step(f, k) == IF k = 0 THEN g ELSE Connect(f[k - 1], from[k], <<l, k>>)
           after == CHOOSE f : f = [k \in 0 .. n |-> Step(f, k)]
           Is == {j \in 0 .. n : \E f : f = [k \in 0 .. j |-> Step(f, k)]}
<1>1. \E f : f = [k \in 0 .. n |-> Step(f, k)]
  <2>1. 0 \in Is
    <3>1. PICK f : f = [k \in 0 .. 0 |-> Step(<<>>, 0)]
      OBVIOUS
    <3>2. f = [k \in 0 .. 0 |-> Step(f, k)]
      BY <3>1
    <3> QED
      BY <3>2
  <2>2. ASSUME NEW j \in 0 .. n, j # n, j \in Is PROVE j + 1 \in Is
    <3>1. PICK f : f = [k \in 0 .. j |-> Step(f, k)]
      BY <2>2
    <3>2. PICK u : u = [k \in 0 .. j + 1 |-> IF k = j + 1 THEN Step(f, k) ELSE f[k]]
      OBVIOUS
    <3>3. ASSUME NEW k \in 0 .. j + 1 PROVE u[k] = Step(u, k)
      <4>1. k # 0 => k - 1 \in 0 .. j /\ u[k - 1] = f[k - 1]
        BY <3>2
      <4>2. k \in 0 .. j \/ k = j + 1
        OBVIOUS
      <4>3. u[k] = Step(f, k)
        BY <3>1, <3>2, <4>2
      <4> QED
        BY <4>1, <4>3
    <3>4. u = [k \in 0 .. j + 1 |-> Step(u, k)]
      <4> HIDE DEF Step
      <4> QED
        BY <3>2, <3>3
    <3>5. j \in 0 .. n /\ j # n
      BY <2>2, Zenon
    <3>6. j + 1 \in 0 .. n
      BY ONLY <3>5, n \in Nat
    <3> QED
      BY <3>4, <3>6
  <2>3. \A j \in 0 .. n : j \in Is
    <3> HIDE DEF Is
    <3> QED
      BY <2>1, <2>2, ByTurns
  <2>4. n \in 0 .. n
    OBVIOUS
  <2> QED
    BY <2>3, <2>4
<1>2. after = [k \in 0 .. n |-> Step(after, k)]
  <2> HIDE DEF Step
  <2> QED
    BY <1>1
<1>3. ConnectAll(g, l, from) = after[n]
  BY <1>0 DEF ConnectAll
<1> HIDE DEF after
<1>4. \A k \in 0 .. n : after[k] = Step(after, k)
  <2> HIDE DEF Step
  <2> QED
    BY <1>2
<1>5. 0 \in 0 .. n /\ n \in 0 .. n /\ \A k \in 0 .. n : k # n => k + 1 \in 0 .. n /\ k + 1 # 0 /\ (k + 1) - 1 = k /\ k + 1 \in 1 .. n
  OBVIOUS
<1> DEFINE Good == {k \in 0 .. n : Connected(after[k], g, l, from, k)}
<1>6. 0 \in Good
  <2>1. after[0] = g
    BY <1>4, <1>5
  <2>2. \A i \in DOMAIN g.ins[l] : g.ins[l][i] = IF i <= 0 THEN from[i] ELSE None
    OBVIOUS
  <2>3. Connected(g, g, l, from, 0)
    BY <2>2 DEF Connected
  <2> QED
    BY <1>5, <2>1, <2>3
<1>7. ASSUME NEW k \in 0 .. n, k # n, k \in Good PROVE k + 1 \in Good
  <2>1. k + 1 \in 0 .. n /\ k + 1 # 0 /\ (k + 1) - 1 = k /\ k + 1 \in 1 .. n
    BY <1>5, <1>7
  <2>2. PICK h, u : h = after[k] /\ u = after[k + 1]
    OBVIOUS
  <2>3. u = Connect(h, from[k + 1], <<l, k + 1>>) /\ Connected(h, g, l, from, k)
    BY <1>4, <1>7, <2>1, <2>2
  <2>4. from[k + 1] \in LayersOf(g) /\ k \in 0 .. m /\ k # m
    BY <1>0, <1>7, <2>1
  <2>5. Connected(u, g, l, from, k + 1)
    BY <2>3, <2>4, ConnectTurn
  <2> QED
    BY <2>1, <2>2, <2>5
<1>8. n \in Good
  <2> HIDE DEF Good
  <2> QED
    BY <1>5, <1>6, <1>7, ByTurns
<1> QED
  BY <1>0, <1>3, <1>8

(* h is g with a new layer l that reads the layers of from.                *)
Extended(h, g, l, kind, param, from) ==
  /\ from \in [1 .. NumInputSlots(kind) -> LayersOf(g)]
  /\ \A i \in DOMAIN from : g.kind[from[i]] # "output"
  /\ h = ConnectAll(AddLayer(g, l, kind, param, NumInputSlots(kind)), l, from)

LEMMA WholeAdd ==
  ASSUME NEW g, Whole(g), NEW l \in Nat, l # None, l \notin LayersOf(g),
         NEW kind, NEW param, NEW from, NEW h, Extended(h, g, l, kind, param, from)
  PROVE  Whole(h) /\ LayersOf(h) = LayersOf(g) \cup {l}
<1>0. PICK m \in Nat : m = NumInputSlots(kind)
  BY DEF NumInputSlots
<1>1. m = NumInputSlots(kind) /\ m \in Nat /\ from \in [1 .. m -> LayersOf(g)] /\ DOMAIN from = 1 .. m
      /\ \A i \in 1 .. m : g.kind[from[i]] # "output"
  BY <1>0 DEF Extended
<1>2. PICK a : a = AddLayer(g, l, kind, param, m) /\ h = ConnectAll(a, l, from)
  BY <1>0 DEF Extended
<1>3. Linked(g) /\ Regional(g.order, g.kind)
  BY DEF Whole
<1>4. PICK pos \in Nat : RightPlace(g, pos, kind) /\ \E b : b = NewLayer(g, l, pos, kind, param, m) /\ Same(a, b)
  BY <1>2, <1>3, SameAddLayer
<1>5. PICK b : b = NewLayer(g, l, pos, kind, param, m) /\ Same(a, b)
  BY <1>4
<1>6. pos \in 1 .. Len(g.order) + 1
  <2>1. PICK n : n = Len(g.order)
    OBVIOUS
  <2>2. n \in Nat /\ NumInputs(g) \in 0 .. n /\ NumOutputs(g) \in 0 .. n
    BY <1>3, <2>1, RegionsAre
  <2>3. kind = "input" \/ kind = "output" \/ kind \notin {"input", "output"}
    OBVIOUS
  <2> QED
    BY <1>4, <2>1, <2>2, <2>3 DEF RightPlace
<1>7. Linked(b) /\ Added(b, g, l, pos, kind, m)
  BY <1>1, <1>3, <1>5, <1>6, LinkedNewLayer
<1>8. Regional(b.order, b.kind)
  BY <1>3, <1>4, <1>7, RegionalInsert
<1>9. Linked(a) /\ LayersOf(a) = LayersOf(b) /\ a.kind = b.kind /\ a.ins = b.ins /\ a.order = b.order
  BY <1>5, <1>7, LinkedSame DEF Same
<1>10. /\ LayersOf(a) = LayersOf(g) \cup {l}
       /\ a.kind[l] = kind /\ \A x \in LayersOf(g) : a.kind[x] = g.kind[x] /\ a.ins[x] = g.ins[x]
       /\ DOMAIN a.ins[l] = 1 .. m /\ \A i \in 1 .. m : a.ins[l][i] = None
  BY <1>1, <1>7, <1>9 DEF Added
<1>11. from \in [1 .. m -> LayersOf(a)] /\ l \in LayersOf(a)
  BY <1>1, <1>10
<1>12. Connected(h, a, l, from, m)
  BY <1>1, <1>2, <1>9, <1>10, <1>11, ConnectAllIs
<1>13. PICK u : u = h
  OBVIOUS
<1>14. Linked(u) /\ LayersOf(u) = LayersOf(h) /\ u.kind = h.kind /\ u.ins = h.ins /\ u.order = h.order
  BY <1>12, <1>13 DEF Connected
<1>15. LayersOf(h) = LayersOf(a) /\ h.kind = a.kind /\ h.order = a.order
  BY <1>12 DEF Connected, LayersOf
<1>16. LayersOf(u) = LayersOf(g) \cup {l} /\ u.kind[l] = kind /\ \A x \in LayersOf(g) : u.kind[x] = g.kind[x]
  BY <1>10, <1>14, <1>15
<1>17. /\ \A x \in LayersOf(g) : DOMAIN u.ins[x] = DOMAIN g.ins[x] /\ \A i \in DOMAIN g.ins[x] : u.ins[x][i] = g.ins[x][i]
       /\ DOMAIN u.ins[l] = 1 .. m /\ \A i \in 1 .. m : u.ins[l][i] = from[i]
  <2>1. \A x \in LayersOf(g) : x \in LayersOf(a) /\ x # l
    BY <1>10
  <2>2. ASSUME NEW x \in LayersOf(g) PROVE DOMAIN u.ins[x] = DOMAIN g.ins[x] /\ \A i \in DOMAIN g.ins[x] : u.ins[x][i] = g.ins[x][i]
    BY <1>10, <1>12, <1>14, <2>1 DEF Connected
  <2>3. DOMAIN u.ins[l] = 1 .. m
    BY <1>10, <1>11, <1>12, <1>14 DEF Connected
  <2>4. \A i \in 1 .. m : i <= m
    OBVIOUS
  <2>5. \A i \in 1 .. m : u.ins[l][i] = from[i]
    BY <1>10, <1>12, <1>14, <2>4 DEF Connected
  <2> QED
    BY <2>2, <2>3, <2>5
<1>18. \A x \in LayersOf(u) : /\ DOMAIN u.ins[x] = 1 .. NumInputSlots(u.kind[x])
                              /\ \A i \in DOMAIN u.ins[x] : u.ins[x][i] \in LayersOf(u) /\ u.kind[u.ins[x][i]] # "output"
  <2> TAKE x \in LayersOf(u)
  <2>1. CASE x = l
    <3>1. DOMAIN u.ins[x] = 1 .. NumInputSlots(u.kind[x])
      BY <1>1, <1>16, <1>17, <2>1
    <3>2. ASSUME NEW i \in DOMAIN u.ins[x] PROVE u.ins[x][i] \in LayersOf(u) /\ u.kind[u.ins[x][i]] # "output"
      <4>1. i \in DOMAIN from /\ u.ins[x][i] = from[i] /\ from[i] \in LayersOf(g)
        BY <1>1, <1>17, <2>1, <3>2
      <4> QED
        BY <1>1, <1>16, <4>1
    <3> QED
      BY <3>1, <3>2
  <2>2. CASE x \in LayersOf(g)
    <3>1. DOMAIN u.ins[x] = 1 .. NumInputSlots(u.kind[x])
      BY <1>16, <1>17, <2>2, WholeIs
    <3>2. \A i \in DOMAIN u.ins[x] : u.ins[x][i] \in LayersOf(g) /\ g.kind[u.ins[x][i]] # "output"
      BY <1>17, <2>2, WholeIs
    <3> QED
      BY <1>16, <3>1, <3>2
  <2> QED
    BY <1>16, <2>1, <2>2
<1>19. Acyclic(u)
  <2>1. PICK M, r : Ranks(r, M, g)
    BY RankedIs
  <2>2. M \in Nat /\ (\A x \in LayersOf(g) : r[x] \in 0 .. M)
        /\ \A x \in LayersOf(g) : \A i \in DOMAIN g.ins[x] : r[g.ins[x][i]] < r[x]
    BY <2>1, WholeIs DEF Ranks
  <2>3. PICK q : q = [x \in LayersOf(u) |-> IF x = l THEN M + 1 ELSE r[x]]
    OBVIOUS
  <2>4. q[l] = M + 1 /\ \A x \in LayersOf(g) : q[x] = r[x]
    BY <1>16, <2>3
  <2>5. q \in [LayersOf(u) -> 0 .. M + 1]
    <3>1. M + 1 \in 0 .. M + 1 /\ 0 .. M \subseteq 0 .. M + 1
      BY <2>2
    <3>2. \A x \in LayersOf(u) : (IF x = l THEN M + 1 ELSE r[x]) \in 0 .. M + 1
      BY <1>16, <2>2, <3>1
    <3> QED
      BY <2>3, <3>2
  <2>6. \A x \in LayersOf(u) : \A i \in DOMAIN u.ins[x] : u.ins[x][i] # None => q[u.ins[x][i]] < q[x]
    <3> TAKE x \in LayersOf(u)
    <3> TAKE i \in DOMAIN u.ins[x]
    <3>1. CASE x = l
      <4>1. from[i] \in LayersOf(g) /\ u.ins[x][i] = from[i]
        BY <1>1, <1>17, <3>1
      <4>2. r[from[i]] \in 0 .. M /\ q[from[i]] = r[from[i]]
        BY <2>2, <2>4, <4>1
      <4> QED
        BY <2>2, <2>4, <3>1, <4>1, <4>2
    <3>2. CASE x \in LayersOf(g)
      <4>1. i \in DOMAIN g.ins[x] /\ u.ins[x][i] = g.ins[x][i]
        BY <1>17, <3>2
      <4>2. g.ins[x][i] \in LayersOf(g)
        BY <3>2, <4>1, WholeIs
      <4> QED
        BY <2>2, <2>4, <3>2, <4>1, <4>2
    <3> QED
      BY <1>16, <3>1, <3>2
  <2>7. PICK K \in Nat : K = M + 1
    BY <2>2
  <2>8. Ranks(q, K, u) /\ q \in [LayersOf(u) -> 0 .. K]
    BY <2>5, <2>6, <2>7 DEF Ranks
  <2> QED
    BY <2>8 DEF Acyclic
<1>20. Regional(u.order, u.kind)
  BY <1>8, <1>9, <1>14, <1>15
<1> QED
  BY <1>13, <1>14, <1>16, <1>18, <1>19, <1>20 DEF Whole

LEMMA WholeEmpty ==
  Whole(EmptyGraph) /\ LayersOf(EmptyGraph) = {}
<1>1. PICK g : g = EmptyGraph
  OBVIOUS
<1>2. g.order = <<>> /\ g.kind = <<>> /\ g.ins = <<>> /\ g.outs = <<>> /\ IsRecord(g)
  BY <1>1 DEF EmptyGraph, IsRecord
<1>3. LayersOf(g) = {} /\ DOMAIN g.ins = {} /\ DOMAIN g.outs = {}
  BY <1>2 DEF LayersOf
<1>4. Lists(<<>>, {}) /\ Len(<<>>) = 0
  BY DEF Lists
<1>5. Wired({}, g.ins, g.outs)
  BY <1>3 DEF Wired
<1>6. LayersOf(g) \subseteq 1 .. 0
  BY <1>3
<1>7. Linked(g)
  BY <1>2, <1>3, <1>4, <1>5, <1>6 DEF Linked
<1>8. Regional(g.order, g.kind)
  BY <1>2, <1>4 DEF Regional
<1>9. Acyclic(g)
  <2>1. PICK r : r = [x \in LayersOf(g) |-> 0]
    OBVIOUS
  <2>2. r \in [LayersOf(g) -> 0 .. 0] /\ Ranks(r, 0, g)
    BY <1>3, <2>1 DEF Ranks
  <2> QED
    BY <2>2 DEF Acyclic
<1> QED
  BY <1>1, <1>3, <1>7, <1>8, <1>9 DEF Whole

----------------------------------------------------------------------------
(* The pass.                                                               *)

(* Where the iterator is; what the pass has to do with a graph that is      *)
(* optimized; and how the layers of the user's network are numbered.       *)
AtPass ==
  /\ opt \in 0 .. 7 /\ it \in LayersOf(graph) \cup {None}
  /\ opt \in 1 .. 6 => it # None
  /\ phase # "pass" => opt = 0
  /\ phase # "build" => LayersOf(graph) # {} /\ Unread(graph) = {}
  /\ phase = "build" => LayersOf(graph) = 1 .. Cardinality(LayersOf(graph))

(* The layers the iterator was at are not before it, and no sort is to     *)
(* bring them there.                                                       *)
Walked ==
  /\ visited \subseteq LayersOf(graph)
  /\ \A l \in visited : it # None /\ ~Precedes(graph.order, l, it)
  /\ phase = "build" => visited = {}
  /\ phase = "pass" => graph.inOrder

(* The inductive invariant of the pass.                                    *)
PassInv == Whole(graph) /\ AtPass /\ Walked

LEMMA UnreadSame ==
  ASSUME NEW g, Whole(g), NEW h, Whole(h), LayersOf(h) = LayersOf(g), h.kind = g.kind, h.ins = g.ins
  PROVE  Unread(h) = Unread(g)
<1>1. \A l \in LayersOf(g) : l \in Unread(h) <=> l \in Unread(g)
  BY UnreadIs
<1> QED
  BY <1>1, UnreadLayers

LEMMA WholeIsWellFormed ==
  ASSUME NEW g, Whole(g)
  PROVE  /\ ToSet(g.order) = LayersOf(g) /\ IsInjective(g.order)
         /\ LinksAgree(g)
         /\ InputsFirstOutputsLast(g)
         /\ \A l \in LayersOf(g) : None \notin ToSet(g.ins[l])
<1>1. ToSet(g.order) = LayersOf(g) /\ IsInjective(g.order)
  BY ListsToSet DEF Whole, Linked
<1>2. LinksAgree(g)
  <2>1. ASSUME NEW l \in LayersOf(g), NEW i \in DOMAIN g.ins[l]
        PROVE  g.ins[l][i] \in LayersOf(g) /\ Contains(g.outs[g.ins[l][i]], <<l, i>>)
    <3>1. PICK s \in LayersOf(g) : s = g.ins[l][i]
      BY WholeIs
    <3>2. <<l, i>> \in Readers(g.ins, s)
      BY <3>1, WholeIs, ReaderIs
    <3>3. Lists(g.outs[s], Readers(g.ins, s))
      BY WholeIs
    <3>4. Contains(g.outs[s], <<l, i>>)
      BY <3>2, <3>3 DEF Lists, Contains
    <3> QED
      BY <3>1, <3>4
  <2>2. ASSUME NEW l \in LayersOf(g)
        PROVE  IsInjective(g.outs[l]) /\ \A e \in ToSet(g.outs[l]) : e[1] \in LayersOf(g) /\ g.ins[e[1]][e[2]] = l
    <3>1. Lists(g.outs[l], Readers(g.ins, l)) /\ ToSet(g.outs[l]) = Readers(g.ins, l) /\ DOMAIN g.ins = LayersOf(g)
      BY WholeIs
    <3>2. IsInjective(g.outs[l])
      BY <3>1, ListsToSet
    <3>3. \A e \in Readers(g.ins, l) : e[1] \in LayersOf(g) /\ g.ins[e[1]][e[2]] = l
      BY <3>1, ReaderIsSlot
    <3> QED
      BY <3>1, <3>2, <3>3
  <2> QED
    BY <2>1, <2>2 DEF LinksAgree
<1>3. InputsFirstOutputsLast(g)
  BY RegionsKept DEF Whole
<1>4. \A l \in LayersOf(g) : None \notin ToSet(g.ins[l])
  BY WholeIs DEF ToSet
<1> QED
  BY <1>1, <1>2, <1>3, <1>4

LEMMA PassBegins == Init => PassInv
<1> SUFFICES ASSUME Init PROVE PassInv
  OBVIOUS
<1>1. Whole(graph) /\ LayersOf(graph) = {}
  BY WholeEmpty DEF Init
<1>2. 1 .. Cardinality(LayersOf(graph)) = {}
  BY <1>1, FS_EmptySet
<1> QED
  BY <1>1, <1>2 DEF PassInv, AtPass, Walked, Init

LEMMA AddKeeps == PassInv /\ AddConnectedLayer => PassInv'
<1> SUFFICES ASSUME PassInv, AddConnectedLayer PROVE PassInv'
  OBVIOUS
<1>1. PICK c : c = Cardinality(LayersOf(graph))
  OBVIOUS
<1>2. Whole(graph) /\ LayersOf(graph) = 1 .. c /\ c \in Nat /\ it \in LayersOf(graph) \cup {None} /\ opt = 0 /\ phase = "build"
  <2>1. Whole(graph) /\ phase = "build"
    BY DEF PassInv, AddConnectedLayer
  <2>2. Linked(graph)
    BY <2>1 DEF Whole
  <2>3. c \in Nat
    BY <1>1, <2>2, LayersFinite
  <2> QED
    BY <1>1, <2>1, <2>3 DEF PassInv, AtPass
<1> DEFINE m == Cardinality(LayersOf(graph)) + 1
           H(kind, param, from) == ConnectAll(AddLayer(graph, m, kind, param, NumInputSlots(kind)), m, from)
           P(kind, param, from) == /\ \A i \in DOMAIN from : graph.kind[from[i]] # "output"
                                   /\ graph' = [H(kind, param, from) EXCEPT !.info[m] = OutputInfo(H(kind, param, from), m)]
<1>3. \E kind \in Kinds : \E param \in Params(kind), from \in [1 .. NumInputSlots(kind) -> LayersOf(graph)] :
        P(kind, param, from)
  BY ZenonT(60) DEF AddConnectedLayer
<1>4. PICK kind \in Kinds : \E param \in Params(kind), from \in [1 .. NumInputSlots(kind) -> LayersOf(graph)] :
        P(kind, param, from)
  <2> HIDE DEF P
  <2> QED
    BY <1>3
<1>5. PICK param \in Params(kind), from \in [1 .. NumInputSlots(kind) -> LayersOf(graph)] : P(kind, param, from)
  <2> HIDE DEF P
  <2> QED
    BY <1>4
<1>6. PICK l : l = m /\ l = c + 1
  BY <1>1
<1>7. PICK h : /\ h = ConnectAll(AddLayer(graph, l, kind, param, NumInputSlots(kind)), l, from)
               /\ graph' = [h EXCEPT !.info[l] = OutputInfo(h, l)]
  BY <1>5, <1>6
<1>7a. \A i \in DOMAIN from : graph.kind[from[i]] # "output"
  BY <1>5
<1> HIDE DEF m, H, P
<1>8. l \in Nat /\ l # None /\ l \notin LayersOf(graph)
  BY <1>2, <1>6 DEF None
<1>9. Extended(h, graph, l, kind, param, from)
  BY <1>5, <1>7, <1>7a DEF Extended
<1>10. PICK u : u = graph'
  OBVIOUS
<1>11. Whole(u) /\ LayersOf(u) = LayersOf(graph) \cup {l}
  <2>1. Whole(h) /\ LayersOf(h) = LayersOf(graph) \cup {l}
    BY <1>2, <1>8, <1>9, WholeAdd
  <2>2. Same(u, h)
    BY <1>7, <1>10, <2>1, SameInfo DEF Whole, Linked
  <2> QED
    BY <2>1, <2>2, WholeSame
<1>12. LayersOf(u) = 1 .. l /\ Cardinality(LayersOf(u)) = l
  <2>1. LayersOf(u) = 1 .. l
    BY <1>2, <1>6, <1>11
  <2>2. Cardinality(1 .. l) = l
    <3>1. l >= 1 /\ l \in Int /\ 1 \in Int
      BY <1>2, <1>6
    <3>2. Cardinality(1 .. l) = IF 1 > l THEN 0 ELSE l - 1 + 1
      BY <3>1, FS_Interval
    <3> QED
      BY <3>1, <3>2
  <2> QED
    BY <2>1, <2>2
<1>13. phase' = phase /\ it' = it /\ opt' = opt
  BY DEF AddConnectedLayer
<1>14. Whole(graph')
  BY <1>10, <1>11
<1>15. LayersOf(graph') = 1 .. Cardinality(LayersOf(graph')) /\ it' \in LayersOf(graph') \cup {None}
  BY <1>2, <1>10, <1>11, <1>12, <1>13
<1>16. Walked'
  BY <1>2, <1>13 DEF PassInv, Walked, AddConnectedLayer
<1> QED
  BY <1>2, <1>13, <1>14, <1>15, <1>16 DEF PassInv, AtPass

LEMMA BeginKeeps == PassInv /\ BeginPass => PassInv'
<1> SUFFICES ASSUME PassInv, BeginPass PROVE PassInv'
  OBVIOUS
<1>1. Whole(graph) /\ phase = "build" /\ opt = 0 /\ LayersOf(graph) # {} /\ Unread(graph) = {}
  BY DEF PassInv, AtPass, BeginPass
<1>2. PICK h : h = graph' /\ h = TopologicalSort(graph)
  BY DEF BeginPass
<1>3. Whole(h) /\ LayersOf(h) = LayersOf(graph) /\ h.kind = graph.kind /\ h.ins = graph.ins /\ h.inOrder
  BY <1>1, <1>2, WholeSort
<1>4. Unread(h) = {}
  BY <1>1, <1>3, UnreadSame
<1>5. phase' = "pass" /\ it' = None /\ opt' = 0
  BY <1>1 DEF BeginPass
<1>6. Walked'
  BY <1>1, <1>2, <1>3, <1>5 DEF PassInv, Walked, BeginPass
<1> QED
  BY <1>1, <1>2, <1>3, <1>4, <1>5, <1>6 DEF PassInv, AtPass

(* Where the iterator goes comes right before where it was, and what comes *)
(* before the one comes before the other.                                  *)
LEMMA PreviousPrecedes ==
  ASSUME NEW g, Linked(g), NEW l \in LayersOf(g), l # g.order[1], NEW m, m = Previous(g, l)
  PROVE  Precedes(g.order, m, l) /\ \A x : Precedes(g.order, x, m) => Precedes(g.order, x, l)
<1>1. PICK n, p : n = Len(g.order) /\ p = PosInGraph(g, l)
  OBVIOUS
<1>2. n \in Nat /\ p \in 1 .. n /\ g.order[p] = l
  BY <1>1, PosIs
<1>3. p # 1
  BY <1>2
<1>4. p - 1 \in 1 .. n /\ p - 1 < p
  BY <1>2, <1>3
<1>5. l # None
  BY LinkedIs
<1>6. g.order[p - 1] = m
  BY <1>1, <1>5 DEF Previous
<1>7. Precedes(g.order, m, l)
  BY <1>1, <1>2, <1>4, <1>6 DEF Precedes
<1>8. \A i, j \in 1 .. n : g.order[i] = g.order[j] => i = j
  BY <1>1 DEF Linked, Lists
<1>9. ASSUME NEW x, Precedes(g.order, x, m) PROVE Precedes(g.order, x, l)
  <2>1. PICK i, j \in 1 .. n : i < j /\ g.order[i] = x /\ g.order[j] = m
    BY <1>1, <1>9 DEF Precedes
  <2>2. j = p - 1
    BY <1>4, <1>6, <1>8, <2>1
  <2>3. i < p
    BY <1>2, <2>1, <2>2
  <2> QED
    BY <1>1, <1>2, <2>1, <2>3 DEF Precedes
<1> QED
  BY <1>7, <1>9

(* Nothing but l itself comes between what l comes behind and what comes   *)
(* right behind l.                                                         *)
LEMMA NextPrecedes ==
  ASSUME NEW g, Linked(g), NEW l \in LayersOf(g), NEW m, m = NextOf(g, l), NEW x, x # l
  PROVE  /\ m = None /\ x \in LayersOf(g) => Precedes(g.order, x, l)
         /\ m # None /\ Precedes(g.order, x, m) => Precedes(g.order, x, l)
<1>1. PICK n, p : n = Len(g.order) /\ p = PosInGraph(g, l)
  OBVIOUS
<1>2. n \in Nat /\ p \in 1 .. n /\ g.order[p] = l
  BY <1>1, PosIs
<1>3. /\ \A i, j \in 1 .. n : g.order[i] = g.order[j] => i = j
      /\ \A y \in LayersOf(g) : \E i \in 1 .. n : g.order[i] = y
      /\ \A i \in 1 .. n : g.order[i] # None
  <2>1. \A i \in 1 .. n : g.order[i] \in LayersOf(g)
    BY <1>1, ListsToSet DEF Linked
  <2>2. \A i \in 1 .. n : g.order[i] # None
    BY <1>1, <2>1, LinkedIs
  <2>3. Lists(g.order, LayersOf(g))
    BY DEF Linked
  <2> QED
    BY <1>1, <2>2, <2>3 DEF Lists
<1>4. CASE p = n
  <2>1. m = None
    BY <1>1, <1>4 DEF NextOf
  <2>2. ASSUME x \in LayersOf(g) PROVE Precedes(g.order, x, l)
    <3>1. PICK i \in 1 .. n : g.order[i] = x
      BY <1>3, <2>2
    <3>2. i < p
      BY <1>2, <1>4, <3>1
    <3> QED
      BY <1>1, <1>2, <3>1, <3>2 DEF Precedes
  <2> QED
    BY <2>1, <2>2
<1>5. CASE p # n
  <2>1. p + 1 \in 1 .. n
    BY <1>2, <1>5
  <2>2. m = g.order[p + 1] /\ m # None
    BY <1>1, <1>3, <1>5, <2>1 DEF NextOf
  <2>3. ASSUME Precedes(g.order, x, m) PROVE Precedes(g.order, x, l)
    <3>1. PICK i, j \in 1 .. n : i < j /\ g.order[i] = x /\ g.order[j] = m
      BY <1>1, <2>3 DEF Precedes
    <3>2. j = p + 1
      BY <1>3, <2>1, <2>2, <3>1
    <3>3. i # p
      BY <1>2, <3>1
    <3>4. i < p
      BY <1>2, <3>1, <3>2, <3>3
    <3> QED
      BY <1>1, <1>2, <3>1, <3>4 DEF Precedes
  <2> QED
    BY <2>2, <2>3
<1> QED
  BY <1>4, <1>5

LEMMA VisitKeeps == PassInv /\ Visit => PassInv'
<1> SUFFICES ASSUME PassInv, Visit PROVE PassInv'
  OBVIOUS
<1>1. /\ Whole(graph) /\ phase = "pass" /\ opt = 0 /\ it # graph.order[1]
      /\ it \in LayersOf(graph) \cup {None} /\ LayersOf(graph) # {} /\ Unread(graph) = {}
  BY DEF PassInv, AtPass, Visit
<1>2. PICK n : n = Len(graph.order)
  OBVIOUS
<1>3. n \in Nat /\ (\A i \in 1 .. n : graph.order[i] \in LayersOf(graph)) /\ n # 0
  <2>1. Lists(graph.order, LayersOf(graph))
    BY <1>1 DEF Whole, Linked
  <2>2. n \in Nat /\ \A i \in 1 .. n : graph.order[i] \in LayersOf(graph)
    BY <1>2, <2>1, ListsToSet
  <2>3. \A x \in LayersOf(graph) : \E i \in 1 .. n : graph.order[i] = x
    BY <1>2, <2>1 DEF Lists
  <2>4. n # 0
    BY <1>1, <2>3
  <2> QED
    BY <2>2, <2>4
<1>4. Previous(graph, it) \in LayersOf(graph)
  <2>1. CASE it = None
    <3>1. Previous(graph, it) = graph.order[n]
      BY <1>2, <2>1 DEF Previous
    <3> QED
      BY <1>3, <3>1
  <2>2. CASE it # None
    <3>1. Previous(graph, it) = graph.order[PosInGraph(graph, it) - 1]
      BY <2>2 DEF Previous
    <3>2. PICK p : p = PosInGraph(graph, it)
      OBVIOUS
    <3>3. p \in 1 .. n /\ graph.order[p] = it
      BY <1>1, <1>2, <2>2, <3>2, PosIs DEF Whole
    <3>4. p # 1
      BY <1>1, <3>3
    <3>5. p - 1 \in 1 .. n
      BY <1>3, <3>3, <3>4
    <3> QED
      BY <1>3, <3>1, <3>2, <3>5
  <2> QED
    BY <2>1, <2>2
<1>5. graph' = graph /\ phase' = phase /\ it' = Previous(graph, it) /\ opt' = 1
  BY DEF Visit
<1>6. it' # None
  BY <1>1, <1>4, <1>5, WholeIs
<1>7. Walked'
  <2>1. /\ visited \subseteq LayersOf(graph) /\ graph.inOrder
        /\ \A l \in visited : it # None /\ ~Precedes(graph.order, l, it)
    BY <1>1 DEF PassInv, Walked
  <2>2. visited' = visited \cup {it'}
    BY DEF Visit
  <2>3. ~Precedes(graph.order, it', it')
    BY <1>1, PrecedesIs DEF Whole, Linked
  <2>4. ASSUME NEW l \in visited PROVE ~Precedes(graph.order, l, it')
    <3>1. it # None /\ it \in LayersOf(graph) /\ Linked(graph) /\ it' = Previous(graph, it)
      BY <1>1, <1>5, <2>1 DEF Whole
    <3>2. Precedes(graph.order, l, it') => Precedes(graph.order, l, it)
      BY <1>1, <3>1, PreviousPrecedes
    <3> QED
      BY <2>1, <3>2
  <2> QED
    BY <1>1, <1>4, <1>5, <1>6, <2>1, <2>2, <2>3, <2>4 DEF Walked
<1> QED
  BY <1>1, <1>4, <1>5, <1>6, <1>7 DEF PassInv, AtPass

LEMMA RunKeeps == PassInv /\ RunOptimization => PassInv'
<1> SUFFICES ASSUME PassInv, RunOptimization PROVE PassInv'
  OBVIOUS
<1>1. opt \in 1 .. 6 /\ opt \in DOMAIN Optimizations /\ Len(Optimizations) = 6
  BY DEF RunOptimization, Optimizations
<1>2. /\ Whole(graph) /\ phase = "pass" /\ it \in LayersOf(graph)
      /\ LayersOf(graph) # {} /\ Unread(graph) = {}
  BY <1>1 DEF PassInv, AtPass
<1>3. PICK g, h : g = Run(Optimizations[opt], graph, it) /\ h = EraseIfUnconnected(g, it)
  OBVIOUS
<1>4. /\ graph' = h /\ phase' = phase
      /\ it \in LayersOf(h) => it' = it /\ opt' = opt + 1
      /\ it \notin LayersOf(h) => it' = NextOf(g, it) /\ opt' = 7
  BY <1>1, <1>3 DEF RunOptimization
<1>5. Optimized(g, graph, it)
  BY <1>1, <1>2, <1>3, RunOptimized
<1>6. Whole(g) /\ it \in LayersOf(g) /\ InPlace(g, graph)
  BY <1>5 DEF Optimized
<1>7. /\ Whole(h) /\ Unread(h) = {} /\ LayersOf(h) # {} /\ InPlace(h, g) /\ LayersOf(h) \subseteq LayersOf(g)
      /\ it \notin LayersOf(h) => LayersOf(h) = LayersOf(g) \ {it}
  BY <1>3, <1>5, EraseBaseKeeps
<1>7a. InPlace(h, graph) /\ h.inOrder
  <2>1. graph.inOrder
    BY <1>2 DEF PassInv, Walked
  <2>2. InPlace(h, graph)
    BY <1>6, <1>7, InPlaceLess DEF Whole
  <2> QED
    BY <2>1, <2>2 DEF InPlace
<1>7b. /\ visited \subseteq LayersOf(graph) /\ \A l \in visited : ~Precedes(graph.order, l, it)
       /\ visited' = visited \cap LayersOf(h)
  BY <1>3 DEF PassInv, Walked, RunOptimization
<1>8. CASE it \in LayersOf(h)
  <2>1. opt' \in 0 .. 7 /\ it' \in LayersOf(h) /\ it' # None
    BY <1>1, <1>4, <1>7, <1>8, WholeIs
  <2>2. \A l \in visited' : it' # None /\ ~Precedes(h.order, l, it')
    <3>1. \A l \in visited : ~Precedes(h.order, l, it)
      BY <1>2, <1>7a, <1>7b DEF InPlace
    <3> QED
      BY <1>4, <1>7b, <1>8, <2>1, <3>1
  <2>3. Walked'
    BY <1>2, <1>4, <1>7a, <1>7b, <2>2 DEF Walked
  <2> QED
    BY <1>2, <1>4, <1>7, <2>1, <2>3 DEF PassInv, AtPass
<1>9. CASE it \notin LayersOf(h)
  <2>1. NextOf(g, it) \in LayersOf(h) \cup {None}
    <3>1. PICK n, p : n = Len(g.order) /\ p = PosInGraph(g, it)
      OBVIOUS
    <3>2. Lists(g.order, LayersOf(g)) /\ Linked(g)
      BY <1>6 DEF Whole, Linked
    <3>3. n \in Nat /\ p \in 1 .. n /\ g.order[p] = it
      BY <1>6, <3>1, <3>2, PosIs
    <3>4. CASE p = n
      BY <3>1, <3>4 DEF NextOf
    <3>5. CASE p # n
      <4>1. p + 1 \in 1 .. n /\ p + 1 # p
        BY <3>3, <3>5
      <4>2. NextOf(g, it) = g.order[p + 1]
        BY <3>1, <3>5 DEF NextOf
      <4>3. g.order[p + 1] \in LayersOf(g)
        BY <3>1, <3>2, <4>1, ListsToSet
      <4>4. g.order[p + 1] # it
        BY <3>1, <3>2, <3>3, <4>1 DEF Lists
      <4> QED
        BY <1>7, <1>9, <4>2, <4>3, <4>4
    <3> QED
      BY <3>4, <3>5
  <2>2. opt' = 7 /\ it' \in LayersOf(h) \cup {None}
    BY <1>4, <1>9, <2>1
  <2>3. PICK m : m = NextOf(g, it) /\ it' = m
    BY <1>4, <1>9
  <2>4. ASSUME NEW l \in visited, l \in LayersOf(h) PROVE m # None /\ ~Precedes(h.order, l, m)
    <3>1. l # it /\ l \in LayersOf(g) /\ l \in LayersOf(graph)
      BY <1>7, <1>7b, <1>9, <2>4
    <3>2. ~Precedes(g.order, l, it)
      BY <1>2, <1>6, <1>7b, <2>4, <3>1 DEF InPlace
    <3>3. m # None
      BY <1>6, <2>3, <3>1, <3>2, NextPrecedes DEF Whole
    <3>4. ~Precedes(g.order, l, m)
      BY <1>6, <2>3, <3>1, <3>2, <3>3, NextPrecedes DEF Whole
    <3>5. m \in LayersOf(h) /\ m \in LayersOf(g)
      BY <1>7, <2>1, <2>3, <3>3
    <3> QED
      BY <1>7, <3>1, <3>3, <3>4, <3>5 DEF InPlace
  <2>5. Walked'
    BY <1>2, <1>4, <1>7a, <1>7b, <2>3, <2>4 DEF Walked
  <2> QED
    BY <1>2, <1>4, <1>7, <2>2, <2>5 DEF PassInv, AtPass
<1> QED
  BY <1>8, <1>9

LEMMA EndVisitKeeps == PassInv /\ EndVisit => PassInv'
<1> SUFFICES ASSUME PassInv, EndVisit PROVE PassInv'
  OBVIOUS
<1>1. opt = 7 /\ opt' = 0 /\ phase' = phase /\ it' = it
  BY DEF EndVisit, Optimizations
<1>2. /\ Whole(graph) /\ phase = "pass" /\ it \in LayersOf(graph) \cup {None}
      /\ LayersOf(graph) # {} /\ Unread(graph) = {}
  BY <1>1 DEF PassInv, AtPass
<1>3. PICK h : h = graph' /\ h = TopologicalSort(graph)
  BY DEF EndVisit
<1>4. Whole(h) /\ LayersOf(h) = LayersOf(graph) /\ h.kind = graph.kind /\ h.ins = graph.ins
  BY <1>2, <1>3, WholeSort
<1>5. Unread(h) = {}
  BY <1>2, <1>4, UnreadSame
<1>6. h = graph
  BY <1>2, <1>3, WholeSort DEF PassInv, Walked
<1>7. Walked'
  BY <1>1, <1>3, <1>6 DEF PassInv, Walked, EndVisit
<1> QED
  BY <1>1, <1>2, <1>3, <1>4, <1>5, <1>7 DEF PassInv, AtPass

LEMMA PassKeeps == PassInv /\ [Next]_vars => PassInv'
<1> SUFFICES ASSUME PassInv, [Next]_vars PROVE PassInv'
  OBVIOUS
<1>1. CASE AddConnectedLayer
  BY <1>1, AddKeeps
<1>2. CASE BeginPass
  BY <1>2, BeginKeeps
<1>3. CASE Visit
  BY <1>3, VisitKeeps
<1>4. CASE RunOptimization
  BY <1>4, RunKeeps
<1>5. CASE EndVisit
  BY <1>5, EndVisitKeeps
<1>6. CASE EndPass
  <2>1. /\ graph' = graph /\ it' = it /\ opt' = 0 /\ opt = 0 /\ visited' = visited
        /\ phase = "pass" /\ phase' = "done"
    BY <1>6 DEF EndPass
  <2> QED
    BY <2>1 DEF PassInv, AtPass, Walked
<1>7. CASE Done \/ NotOptimized \/ UNCHANGED vars
  <2>1. graph' = graph /\ it' = it /\ opt' = opt /\ phase' = phase /\ visited' = visited
    BY <1>7 DEF Done, NotOptimized, vars
  <2> QED
    BY <2>1 DEF PassInv, AtPass, Walked
<1> QED
  BY <1>1, <1>2, <1>3, <1>4, <1>5, <1>6, <1>7 DEF Next

LEMMA PassInvIsWellFormed == PassInv => WellFormed
<1> SUFFICES ASSUME PassInv PROVE WellFormed
  OBVIOUS
<1>1. Whole(graph)
  BY DEF PassInv
<1>2. ASSUME NEW l \in visited PROVE it # None /\ PosInGraph(graph, it) <= PosInGraph(graph, l)
  <2>1. it # None /\ it \in LayersOf(graph) /\ l \in LayersOf(graph) /\ ~Precedes(graph.order, l, it)
    BY DEF PassInv, AtPass, Walked
  <2>2. PICK n, i, j : n = Len(graph.order) /\ i = PosInGraph(graph, it) /\ j = PosInGraph(graph, l)
    OBVIOUS
  <2>3. n \in Nat /\ i \in 1 .. n /\ j \in 1 .. n /\ graph.order[i] = it /\ graph.order[j] = l
    BY <1>1, <2>1, <2>2, PosIs DEF Whole
  <2>4. ~(j < i)
    BY <2>1, <2>2, <2>3 DEF Precedes
  <2> QED
    BY <2>1, <2>2, <2>3, <2>4
<1> QED
  BY <1>1, <1>2, WholeIsWellFormed DEF PassInv, AtPass, WellFormed

(* While the pass of Optimizer.cpp goes through the list and its            *)
(* optimizations insert, rewire and erase layers of it, the list holds each *)
(* layer once, an input slot and an output slot agree that they are         *)
(* connected, every input slot is connected, and the inputs stay first and  *)
(* the outputs last; no layer the iterator was at gets before it; and the   *)
(* pass leaves no layer that nothing reads.                                 *)
THEOREM GraphStaysWellFormed == Spec => []WellFormed
<1>1. Init => PassInv
  BY PassBegins
<1>2. PassInv /\ [Next]_vars => PassInv'
  BY PassKeeps
<1>3. PassInv => WellFormed
  BY PassInvIsWellFormed
<1> QED
  BY <1>1, <1>2, <1>3, PTL DEF Spec

(* Optimizer::Pass goes to no layer twice: what its optimizations insert,   *)
(* and the layer its iterator goes to when the one it is at is erased, do   *)
(* not bring it back behind a layer it has left.                            *)
THEOREM PassGoesOnce == Spec => NoLayerTwice
<1>1. Init => PassInv
  BY PassBegins
<1>2. PassInv /\ [Next]_vars => PassInv'
  BY PassKeeps
<1>3. PassInv => [Visit => it' \notin visited]_vars
  <2> SUFFICES ASSUME PassInv, Visit, it' \in visited PROVE FALSE
    OBVIOUS
  <2>1. Whole(graph) /\ it # None /\ it \in LayersOf(graph) /\ it # graph.order[1] /\ it' = Previous(graph, it)
    BY DEF PassInv, AtPass, Walked, Visit
  <2>2. Precedes(graph.order, it', it)
    BY <2>1, PreviousPrecedes DEF Whole
  <2> QED
    BY <2>2 DEF PassInv, Walked
<1> QED
  BY <1>1, <1>2, <1>3, PTL DEF Spec, NoLayerTwice
=============================================================================
