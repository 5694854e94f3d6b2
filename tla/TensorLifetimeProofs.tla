------------------------ MODULE TensorLifetimeProofs ------------------------
(* The memory plan of a loaded network, whatever its layers are: when what *)
(* a merger reads through sub-tensors is read by nothing else and every    *)
(* output is connected, every buffer gets memory, once, from the layer     *)
(* that writes it first to the one that reads it last, and what shares     *)
(* memory is never in use at once.                                         *)
EXTENDS TensorPlanProofs

----------------------------------------------------------------------------
(* Buffers.  The slots whose handles are views of one another share a      *)
(* buffer, that of the one handle among their ancestors without a parent.  *)

HandlesMade == HandleInv /\ phase \notin {"build", "handles"}

LEMMA StateIs ==
  ASSUME HandlesMade
  PROVE  /\ mergers = <<>> /\ phase # "build" /\ Made = Len(net) /\ IsNet(net) /\ Len(net) \in Nat
         /\ handles \in Seq(HandleTypes) /\ Len(handles) \in Nat /\ data \in [Slots -> 0 .. Len(handles)]
         /\ \A s \in Slots : s[1] \in 1 .. Made /\ data[s] \in 1 .. Len(handles)
<1>1. /\ HandleInv /\ mergers = <<>> /\ phase # "build" /\ Made = Len(net) /\ IsNet(net) /\ Len(net) \in Nat
      /\ handles \in Seq(HandleTypes) /\ Len(handles) \in Nat /\ data \in [Slots -> 0 .. Len(handles)]
  BY NetIs DEF HandlesMade, HandleInv, HandlesTyped, Made, NetInv
<1>2. \A s \in Slots : s[1] \in 1 .. Made
  BY <1>1, NetIs, SlotIs DEF Slots
<1> QED
  BY <1>1, <1>2, ParentIs

LEMMA RootIs ==
  ASSUME Forest, handles \in Seq(HandleTypes), NEW h \in 1 .. Len(handles)
  PROVE  \E r \in 1 .. Len(handles) :
           {q \in handles[h].ancestors \cup {h} : handles[q].parent = 0} = {r}
<1> DEFINE IsRooted(k) == \E r \in 1 .. Len(handles) :
                            {q \in handles[k].ancestors \cup {k} : handles[q].parent = 0} = {r}
           bad == {k \in 1 .. Len(handles) : ~IsRooted(k)}
<1>1. SUFFICES ASSUME bad # {} PROVE FALSE
  OBVIOUS
<1>2. PICK k \in bad : \A j \in bad : k <= j
  <2>1. bad \in SUBSET Nat
    OBVIOUS
  <2> HIDE DEF bad
  <2> QED
    BY <1>1, <2>1, HasLeast
<1>3. k \in 1 .. Len(handles) /\ ~IsRooted(k)
  OBVIOUS
<1>4. CASE handles[k].parent = 0 /\ handles[k].ancestors = {}
  BY <1>3, <1>4
<1>5. CASE /\ handles[k].parent \in 1 .. k - 1
           /\ handles[k].ancestors = handles[handles[k].parent].ancestors \cup {handles[k].parent}
  <2>1. handles[k].parent \in 1 .. Len(handles) /\ ~(k <= handles[k].parent) /\ handles[k].parent # 0
    BY <1>3, <1>5
  <2>2. handles[k].parent \notin bad
    BY <1>2, <2>1
  <2>3. IsRooted(handles[k].parent)
    BY <2>1, <2>2
  <2>4. {q \in handles[k].ancestors \cup {k} : handles[q].parent = 0}
        = {q \in handles[handles[k].parent].ancestors \cup {handles[k].parent} : handles[q].parent = 0}
    BY <1>5, <2>1
  <2> QED
    BY <1>3, <2>3, <2>4
<1> QED
  BY <1>3, <1>4, <1>5 DEF Forest

LEMMA RootIsUnique ==
  ASSUME Forest, handles \in Seq(HandleTypes), NEW h \in 1 .. Len(handles)
  PROVE  /\ Root(h) \in 1 .. Len(handles)
         /\ {q \in handles[h].ancestors \cup {h} : handles[q].parent = 0} = {Root(h)}
<1>1. PICK r \in 1 .. Len(handles) : {q \in handles[h].ancestors \cup {h} : handles[q].parent = 0} = {r}
  BY RootIs
<1>2. r \in handles[h].ancestors \cup {h} /\ handles[r].parent = 0
  BY <1>1
<1>3. \A q \in handles[h].ancestors \cup {h} : handles[q].parent = 0 => q = r
  BY <1>1
<1>4. Root(h) = r
  BY <1>2, <1>3 DEF Root
<1> QED
  BY <1>1, <1>4

RootOf(s) == Root(data[s])

LEMMA RootOfIs ==
  ASSUME HandlesMade, NEW s \in Slots
  PROVE  /\ RootOf(s) \in 1 .. Len(handles)
         /\ \A t : Whole(s, t) => RootOf(s) = RootOf(t)
         /\ (\A t : ~Whole(s, t)) => RootOf(s) = data[s]
<1>1. Forest /\ HandleInv
  BY DEF HandlesMade, HandleInv
<1>2. RootOf(s) \in 1 .. Len(handles)
  BY <1>1, StateIs, RootIsUnique DEF RootOf
<1>3. ASSUME NEW t, Whole(s, t)
      PROVE  RootOf(s) = RootOf(t)
  <2>1. t \in Slots
    BY <1>1, <1>3, WholeIsSlot
  <2>2. /\ data[s] \in 1 .. Len(handles) /\ data[t] \in 1 .. Len(handles)
        /\ handles[data[s]].parent # 0 /\ handles[data[s]].ancestors = handles[data[t]].ancestors \cup {data[t]}
    <3>1. PICK u \in Slots : /\ handles[data[s]].parent = data[u] /\ data[u] \in 1 .. data[s] - 1
                             /\ handles[data[s]].ancestors = handles[data[u]].ancestors \cup {data[u]}
      BY <1>1, <1>3, StateIs, ParentIs
    <3>2. data[t] = data[u]
      BY <1>3, <3>1 DEF Whole, InPlace
    <3> QED
      BY <2>1, <3>1, <3>2, StateIs
  <2>3. {q \in handles[data[s]].ancestors \cup {data[s]} : handles[q].parent = 0}
        = {q \in handles[data[t]].ancestors \cup {data[t]} : handles[q].parent = 0}
    BY <2>2
  <2>4. {Root(data[s])} = {Root(data[t])}
    BY <1>1, <2>2, <2>3, StateIs, RootIsUnique
  <2> QED
    BY <2>4 DEF RootOf
<1>4. ASSUME \A t : ~Whole(s, t)
      PROVE  RootOf(s) = data[s]
  <2>1. handles[data[s]].parent = 0 /\ data[s] \in 1 .. Len(handles)
    BY <1>1, <1>4, StateIs, ParentIs
  <2>2. data[s] \in {Root(data[s])}
    BY <1>1, <2>1, StateIs, RootIsUnique
  <2> QED
    BY <2>2 DEF RootOf
<1> QED
  BY <1>2, <1>3, <1>4

LEMMA RootHasSlot ==
  ASSUME HandlesMade, NEW s \in Slots
  PROVE  \E w \in Slots : data[w] = RootOf(s)
<1> DEFINE IsHeld(r) == \E w \in Slots : data[w] = r
           bad == {h \in 1 .. Len(handles) : \E x \in Slots : data[x] = h /\ ~IsHeld(RootOf(x))}
<1>1. SUFFICES ASSUME bad # {} PROVE FALSE
  BY StateIs
<1>2. PICK h \in bad : \A j \in bad : h <= j
  <2>1. bad \in SUBSET Nat
    OBVIOUS
  <2> HIDE DEF bad
  <2> QED
    BY <1>1, <2>1, HasLeast
<1>3. PICK x \in Slots : data[x] = h /\ ~IsHeld(RootOf(x))
  OBVIOUS
<1>4. PICK t \in Slots : Whole(x, t) /\ data[t] \in 1 .. data[x] - 1
  <2>1. ~\A t : ~Whole(x, t)
    BY <1>3, RootOfIs
  <2> QED
    BY <2>1, StateIs, ParentIs DEF HandlesMade
<1>5. RootOf(t) = RootOf(x)
  BY <1>4, RootOfIs
<1>6. data[t] \in bad
  BY <1>3, <1>5, StateIs
<1>7. ~(h <= data[t])
  BY <1>3, <1>4, StateIs
<1> QED
  BY <1>2, <1>6, <1>7

Reads == {e \in Layers \X (1 .. 2) : e[2] \in 1 .. NumInputs(net[e[1]].kind)}

LEMMA ReadIs ==
  ASSUME HandlesMade, NEW e \in Reads
  PROVE  /\ e = <<e[1], e[2]>> /\ e[1] \in 1 .. Len(net) /\ e[2] \in 1 .. NumInputs(net[e[1]].kind)
         /\ Source(e) \in Slots /\ Source(e)[1] \in 1 .. e[1] - 1
         /\ e \in Connections(net, Source(e)) /\ RootOf(Source(e)) \in 1 .. Len(handles)
<1>1. IsNet(net)
  BY StateIs
<1>2. e = <<e[1], e[2]>> /\ e[1] \in 1 .. Len(net) /\ e[2] \in 1 .. NumInputs(net[e[1]].kind)
  BY <1>1, NetIs DEF Reads
<1>3. Source(e) \in Slots /\ Source(e)[1] \in 1 .. e[1] - 1 /\ <<e[1], e[2]>> \in Connections(net, Source(e))
  BY <1>1, <1>2, InputIsSlot DEF Source
<1> QED
  BY <1>2, <1>3, RootOfIs

LEMMA InputIsRead ==
  ASSUME HandlesMade, NEW l \in 1 .. Len(net), NEW i \in 1 .. NumInputs(net[l].kind)
  PROVE  <<l, i>> \in Reads /\ Source(<<l, i>>) = net[l].ins[i]
<1>1. l \in Layers /\ i \in 1 .. 2
  BY StateIs, NetIs DEF NumInputs
<1> QED
  BY <1>1 DEF Reads, Source

(* A buffer that is used by layers on both sides of one is read across it: *)
(* by the splitter that divides it, or by the merger that fills it.        *)
IsCrossed(r, c) == \E e \in Reads : RootOf(Source(e)) = r /\ Source(e)[1] < c /\ ~(e[1] < c)

LEMMA CrossStep ==
  ASSUME HandlesMade, NEW c \in Nat, NEW s \in Slots, NEW t \in Slots, Whole(s, t), (s[1] < c) # (t[1] < c)
  PROVE  IsCrossed(RootOf(s), c)
<1>1. RootOf(s) = RootOf(t) /\ s[1] \in Nat /\ t[1] \in Nat
  BY StateIs, RootOfIs
<1>2. CASE \E m \in 1 .. Made, i \in 1 .. 2 : SubMerger(m) /\ net[m].ins[i] = s /\ t = <<m, 1>>
  <2>1. PICK m \in 1 .. Made, i \in 1 .. 2 : SubMerger(m) /\ net[m].ins[i] = s /\ t = <<m, 1>>
    BY <1>2
  <2>2. m \in 1 .. Len(net) /\ i \in 1 .. NumInputs(net[m].kind)
    BY <2>1, StateIs DEF SubMerger, NumInputs
  <2>3. <<m, i>> \in Reads /\ Source(<<m, i>>) = s
    BY <2>1, <2>2, InputIsRead
  <2>4. s[1] \in 1 .. m - 1 /\ t[1] = m
    BY <2>1, <2>3, ReadIs
  <2>5. s[1] < c /\ ~(m < c)
    BY <1>1, <2>4
  <2> QED
    BY <2>3, <2>5 DEF IsCrossed
<1>3. CASE SubSplitter(s[1]) /\ t = net[s[1]].ins[1]
  <2> DEFINE l == s[1]
  <2>1. l \in 1 .. Len(net) /\ 1 \in 1 .. NumInputs(net[l].kind)
    BY <1>3, StateIs DEF SubSplitter, NumInputs
  <2>2. <<l, 1>> \in Reads /\ Source(<<l, 1>>) = t
    BY <1>3, <2>1, InputIsRead
  <2>3. t[1] \in 1 .. l - 1
    BY <2>2, ReadIs
  <2>4. t[1] < c /\ ~(l < c)
    BY <1>1, <2>3
  <2> QED
    BY <1>1, <2>2, <2>4 DEF IsCrossed
<1> QED
  BY <1>2, <1>3 DEF Whole

LEMMA CrossToRoot ==
  ASSUME HandlesMade, NEW c \in Nat, NEW s \in Slots, NEW w \in Slots, data[w] = RootOf(s), (s[1] < c) # (w[1] < c)
  PROVE  IsCrossed(RootOf(s), c)
<1> DEFINE across == {h \in 1 .. Len(handles) : \E x \in Slots : data[x] = h /\ RootOf(x) = RootOf(s) /\ (x[1] < c) # (w[1] < c)}
<1>1. across # {}
  BY StateIs
<1>2. PICK h \in across : \A j \in across : h <= j
  <2>1. across \in SUBSET Nat
    OBVIOUS
  <2> HIDE DEF across
  <2> QED
    BY <1>1, <2>1, HasLeast
<1>3. PICK x \in Slots : data[x] = h /\ RootOf(x) = RootOf(s) /\ (x[1] < c) # (w[1] < c)
  OBVIOUS
<1>4. x # w
  BY <1>3
<1>5. data[x] # data[w]
  BY <1>4, StateIs DEF HandlesMade, HandleInv, DataIsCurrent
<1>6. ~\A t : ~Whole(x, t)
  BY <1>3, <1>5, RootOfIs
<1>7. PICK t \in Slots : Whole(x, t) /\ data[t] \in 1 .. data[x] - 1
  BY <1>6, StateIs, ParentIs DEF HandlesMade
<1>8. RootOf(t) = RootOf(s) /\ data[t] \in 1 .. Len(handles) /\ ~(h <= data[t])
  BY <1>3, <1>7, RootOfIs, StateIs
<1>9. (t[1] < c) = (w[1] < c)
  BY <1>2, <1>8
<1> QED
  BY <1>3, <1>7, <1>9, CrossStep

LEMMA Crossing ==
  ASSUME HandlesMade, NEW c \in Nat, NEW s \in Slots, NEW t \in Slots, RootOf(s) = RootOf(t), s[1] < c, ~(t[1] < c)
  PROVE  IsCrossed(RootOf(s), c)
<1>1. PICK w \in Slots : data[w] = RootOf(s)
  BY RootHasSlot
<1> QED
  BY <1>1, CrossToRoot

----------------------------------------------------------------------------
(* The plan.  While it is made the outputs of the layers up to Written and *)
(* the inputs of those up to Read are accounted for; what a buffer still   *)
(* waits for are the reads in between.                                     *)

Written == IF phase = "inputs" THEN cur ELSE cur - 1
Read == cur - 1

Waiting(r, w, d) == {e \in Reads : RootOf(Source(e)) = r /\ Source(e)[1] <= w /\ ~(e[1] <= d)}

IsWritten(h, w) == h \notin preallocated /\ \E s \in Slots : RootOf(s) = h /\ s[1] <= w

StartsAt(h, l) ==
  /\ \E s \in Slots : RootOf(s) = h /\ s[1] = l
  /\ \A s \in Slots : RootOf(s) = h => l <= s[1]

EndsAt(h, l) ==
  /\ \E e \in Reads : RootOf(Source(e)) = h /\ e[1] = l
  /\ \A e \in Reads : RootOf(Source(e)) = h => e[1] <= l

CountsAre(w, d) ==
  /\ DOMAIN refs = {h \in 1 .. Len(handles) : h \notin preallocated /\ Waiting(h, w, d) # {}}
  /\ \A h \in DOMAIN refs : refs[h] = Cardinality(Waiting(h, w, d))

ManagedAre(w) ==
  \A h \in 1 .. Len(handles) :
    IF IsWritten(h, w) THEN \E l \in Layers : StartsAt(h, l) /\ managed[h] = 2 * l - 1 ELSE managed[h] = 0

AllocatedAre(w, d) ==
  \A h \in 1 .. Len(handles) :
    IF IsWritten(h, w) /\ Waiting(h, w, d) = {}
    THEN \E l \in Layers : EndsAt(h, l) /\ allocated[h] = 2 * l ELSE allocated[h] = 0

PlanInv ==
  /\ HandleInv
  /\ phase # "undefined"
  /\ phase \in {"build", "handles", "constants"} => DOMAIN refs = {}
  /\ phase = "constants" => \A h \in 1 .. Len(handles) : managed[h] = 0 /\ allocated[h] = 0
  /\ phase \in {"outputs", "inputs", "ready"} =>
       /\ cur \in 1 .. Len(net) + 1
       /\ phase = "inputs" => cur <= Len(net)
       /\ phase = "ready" => cur = Len(net) + 1
       /\ CountsAre(Written, Read) /\ ManagedAre(Written) /\ AllocatedAre(Written, Read)

LEMMA BuffersKept ==
  ASSUME net' = net, handles' = handles, data' = data
  PROVE  /\ Slots' = Slots /\ Layers' = Layers /\ Reads' = Reads
         /\ \A s : RootOf(s)' = RootOf(s)
         /\ \A r, w, d : Waiting(r, w, d)' = Waiting(r, w, d)
         /\ \A h, l : (StartsAt(h, l)' <=> StartsAt(h, l)) /\ (EndsAt(h, l)' <=> EndsAt(h, l))
<1>1. Slots' = Slots /\ Layers' = Layers /\ Reads' = Reads
  BY DEF Slots, Layers, Reads
<1>2. \A s : RootOf(s)' = RootOf(s)
  BY DEF RootOf, Root
<1>3. \A e : Source(e)' = Source(e)
  BY DEF Source
<1>4. \A r, w, d : Waiting(r, w, d)' = Waiting(r, w, d)
  BY <1>1, <1>2, <1>3 DEF Waiting
<1>5. \A h, l : StartsAt(h, l)' <=> StartsAt(h, l)
  BY <1>1, <1>2 DEF StartsAt
<1>6. \A h, l : EndsAt(h, l)' <=> EndsAt(h, l)
  BY <1>1, <1>2, <1>3 DEF EndsAt
<1> QED
  BY <1>1, <1>2, <1>4, <1>5, <1>6

LEMMA WaitingIsFinite ==
  ASSUME HandlesMade, NEW r, NEW w, NEW d
  PROVE  IsFiniteSet(Waiting(r, w, d)) /\ Cardinality(Waiting(r, w, d)) \in Nat
         /\ (Cardinality(Waiting(r, w, d)) = 0 <=> Waiting(r, w, d) = {})
<1>1. Len(net) \in Int /\ 1 \in Int /\ 2 \in Int /\ Layers = 1 .. Len(net)
  BY StateIs, NetIs
<1>2. IsFiniteSet(1 .. Len(net)) /\ IsFiniteSet(1 .. 2)
  BY <1>1, FS_Interval
<1>3. IsFiniteSet(Layers \X (1 .. 2))
  BY <1>1, <1>2, FS_Product
<1>4. Waiting(r, w, d) \in SUBSET (Layers \X (1 .. 2))
  BY DEF Waiting, Reads
<1>5. IsFiniteSet(Waiting(r, w, d))
  BY <1>3, <1>4, FS_Subset
<1> QED
  BY <1>5, FS_CardinalityType, FS_EmptySet

LEMMA CrossedIsWaiting ==
  ASSUME HandlesMade, NEW c \in Nat, NEW s \in Slots, NEW t \in Slots, RootOf(s) = RootOf(t), s[1] <= c, ~(t[1] <= c)
  PROVE  Waiting(RootOf(s), c, c) # {}
<1>1. s[1] \in Nat /\ t[1] \in Nat /\ c + 1 \in Nat
  BY StateIs
<1>2. s[1] < c + 1 /\ ~(t[1] < c + 1)
  BY <1>1
<1>3. PICK e \in Reads : RootOf(Source(e)) = RootOf(s) /\ Source(e)[1] < c + 1 /\ ~(e[1] < c + 1)
  BY <1>1, <1>2, Crossing DEF IsCrossed
<1>4. e[1] \in Nat /\ Source(e)[1] \in Nat
  BY ReadIs
<1>5. Source(e)[1] <= c /\ ~(e[1] <= c)
  BY <1>3, <1>4
<1> QED
  BY <1>3, <1>5 DEF Waiting

LEMMA NeverDangling ==
  ASSUME HandlesMade, NEW s \in Slots
  PROVE  ~Dangling(data[s])
BY StateIs, AncestorsAreCurrent DEF HandlesMade

(* Every output is read.                                                   *)
LEMMA EverySlotRead ==
  ASSUME "OutputsConnected" \in Promises, HandlesMade, NEW s \in Slots
  PROVE  \E e \in Reads : Source(e) = s /\ e \in Connections(net, s)
<1>1. NetInv /\ phase # "build" /\ IsNet(net)
  BY StateIs DEF HandlesMade, HandleInv
<1>2. Connections(net, s) # {}
  BY <1>1 DEF NetInv, Unread, Slots
<1>3. PICK e : e \in Connections(net, s)
  BY <1>2
<1>4. e = <<e[1], e[2]>> /\ e[1] \in 1 .. Len(net) /\ e[2] \in 1 .. NumInputs(net[e[1]].kind) /\ net[e[1]].ins[e[2]] = s
  BY <1>1, <1>3, ConnectionIs
<1>5. e \in Reads
  <2>1. <<e[1], e[2]>> \in Reads
    BY <1>4, InputIsRead
  <2> QED
    BY <1>4, <2>1
<1> QED
  BY <1>3, <1>4, <1>5 DEF Source

----------------------------------------------------------------------------
(* The plan is made step by step.                                          *)

(* The reads of what layer c writes, and the reads by layer c.             *)
ReadsOf(r, c) == {e \in Layers \X (1 .. 2) : \E s \in OutputSlots(c) : RootOf(s) = r /\ e \in Connections(net, s)}
ReadsBy(r, c) == {e \in InputSlots(c) : RootOf(Source(e)) = r}

LEMMA WaitingGrows ==
  ASSUME HandlesMade, NEW c \in 1 .. Len(net), NEW r
  PROVE  /\ Waiting(r, c, c - 1) = Waiting(r, c - 1, c - 1) \cup ReadsOf(r, c)
         /\ Waiting(r, c - 1, c - 1) \cap ReadsOf(r, c) = {}
<1>1. ASSUME NEW e, NEW s \in Slots
      PROVE  e \in Connections(net, s) <=> e \in Reads /\ Source(e) = s
  <2>1. IsNet(net) /\ Layers = 1 .. Len(net)
    BY StateIs, NetIs
  <2>2. e \in Connections(net, s) <=> /\ e = <<e[1], e[2]>> /\ e[1] \in 1 .. Len(net)
                                      /\ e[2] \in 1 .. NumInputs(net[e[1]].kind)
                                      /\ net[e[1]].ins[e[2]] = s
    BY <2>1, ConnectionIs
  <2>3. ASSUME e = <<e[1], e[2]>>, e[1] \in 1 .. Len(net), e[2] \in 1 .. NumInputs(net[e[1]].kind)
        PROVE  e \in Reads
    BY <2>3, InputIsRead
  <2>4. e \in Reads => e = <<e[1], e[2]>> /\ e[1] \in 1 .. Len(net) /\ e[2] \in 1 .. NumInputs(net[e[1]].kind)
    BY ReadIs
  <2> QED
    BY <2>2, <2>3, <2>4 DEF Source
<1>2. ASSUME NEW e
      PROVE  e \in ReadsOf(r, c) <=> e \in Reads /\ RootOf(Source(e)) = r /\ Source(e)[1] = c
  <2>1. e \in Reads => e \in Layers \X (1 .. 2) /\ Source(e) \in Slots
    BY ReadIs DEF Reads
  <2> QED
    BY <1>1, <2>1 DEF ReadsOf, OutputSlots
<1>3. ASSUME NEW e \in Reads
      PROVE  /\ Source(e)[1] <= c /\ ~(e[1] <= c - 1) <=>
                  (Source(e)[1] <= c - 1 /\ ~(e[1] <= c - 1)) \/ Source(e)[1] = c
             /\ ~(Source(e)[1] <= c - 1 /\ Source(e)[1] = c)
  <2>1. e[1] \in Nat /\ Source(e)[1] \in 1 .. e[1] - 1 /\ c \in Nat
    BY ReadIs, StateIs
  <2> QED
    BY <2>1
<1> QED
  BY <1>2, <1>3 DEF Waiting

LEMMA WaitingShrinks ==
  ASSUME HandlesMade, NEW c \in 1 .. Len(net), NEW r
  PROVE  /\ Waiting(r, c, c) = Waiting(r, c, c - 1) \ ReadsBy(r, c)
         /\ ReadsBy(r, c) \subseteq Waiting(r, c, c - 1)
         /\ \A e : e \in InputSlots(c) <=> e \in Reads /\ e[1] = c
<1>1. DOMAIN net[c].ins = 1 .. NumInputs(net[c].kind)
  <2>1. IsLayer(net, c)
    BY StateIs, NetIs
  <2> QED
    BY <2>1 DEF IsLayer
<1>2. ASSUME NEW e
      PROVE  e \in InputSlots(c) <=> e \in Reads /\ e[1] = c
  <2>1. e \in InputSlots(c) <=> \E i \in 1 .. NumInputs(net[c].kind) : e = <<c, i>>
    BY <1>1 DEF InputSlots
  <2>2. \A i \in 1 .. NumInputs(net[c].kind) : <<c, i>> \in Reads
    BY InputIsRead
  <2>3. e \in Reads => e = <<e[1], e[2]>> /\ e[2] \in 1 .. NumInputs(net[e[1]].kind)
    BY ReadIs
  <2> QED
    BY <2>1, <2>2, <2>3
<1>3. ASSUME NEW e \in Reads
      PROVE  /\ ~(e[1] <= c) <=> ~(e[1] <= c - 1) /\ e[1] # c
             /\ e[1] = c => Source(e)[1] <= c /\ ~(e[1] <= c - 1)
  <2>1. e[1] \in Nat /\ Source(e)[1] \in 1 .. e[1] - 1 /\ c \in Nat
    BY ReadIs, StateIs
  <2> QED
    BY <2>1
<1>4. ReadsBy(r, c) = {e \in Reads : e[1] = c /\ RootOf(Source(e)) = r}
  BY <1>2 DEF ReadsBy
<1> QED
  BY <1>2, <1>3, <1>4 DEF Waiting

LEMMA ReadsOfSlot ==
  ASSUME "OutputsConnected" \in Promises, HandlesMade, NEW s \in Slots
  PROVE  ReadsOf(RootOf(s), s[1]) # {}
<1>1. PICK e \in Reads : Source(e) = s /\ e \in Connections(net, s)
  BY EverySlotRead
<1>2. e \in Layers \X (1 .. 2) /\ s \in OutputSlots(s[1])
  BY <1>1 DEF Reads, OutputSlots
<1> QED
  BY <1>1, <1>2 DEF ReadsOf

LEMMA PlanConstants ==
  ASSUME PlanInv, HandleInv', AllocateConstants
  PROVE  PlanInv'
<1>1. HandlesMade /\ phase = "constants"
  BY DEF HandlesMade, PlanInv, AllocateConstants
<1>2. \A s \in ConstantSlots : ~Dangling(data[s])
  BY <1>1, NeverDangling DEF ConstantSlots
<1>3. phase' = "outputs" /\ cur' = 1 /\ UNCHANGED <<net, handleVars, refs, managed, allocated>>
  BY <1>2 DEF AllocateConstants, UseDangling
<1>4. net' = net /\ handles' = handles /\ data' = data
  BY <1>3 DEF handleVars
<1>5. Written' = 0 /\ Read' = 0
  BY <1>3 DEF Written, Read
<1>6. \A s \in Slots : ~(s[1] <= 0)
  BY <1>1, StateIs
<1>7. \A h : Waiting(h, 0, 0) = {}
  BY <1>1, <1>6, ReadIs DEF Waiting
<1>8. \A h : Waiting(h, 0, 0)' = {}
  BY <1>4, <1>7, BuffersKept
<1>9. \A h : ~IsWritten(h, 0)'
  BY <1>4, <1>6, BuffersKept DEF IsWritten
<1>10. DOMAIN refs' = {} /\ \A h \in 1 .. Len(handles) : managed'[h] = 0 /\ allocated'[h] = 0
  BY <1>1, <1>3 DEF PlanInv
<1>11. CountsAre(0, 0)'
  BY <1>8, <1>10 DEF CountsAre
<1>12. ManagedAre(0)' /\ AllocatedAre(0, 0)'
  BY <1>4, <1>9, <1>10 DEF ManagedAre, AllocatedAre
<1>13. CountsAre(Written, Read)' /\ ManagedAre(Written)' /\ AllocatedAre(Written, Read)'
  BY <1>5, <1>11, <1>12 DEF CountsAre, ManagedAre, AllocatedAre
<1>14. 1 \in 1 .. Len(net) + 1
  BY <1>1, StateIs
<1> QED
  BY <1>3, <1>4, <1>13, <1>14 DEF PlanInv

LEMMA PlanOutputs ==
  ASSUME "OutputsConnected" \in Promises, PlanInv, HandleInv', ManageOutputs
  PROVE  PlanInv'
<1> DEFINE roots == Roots(OutputSlots(cur))
<1>1. HandlesMade /\ phase = "outputs" /\ cur \in 1 .. Len(net) /\ Len(net) \in Nat
  <2>1. HandlesMade /\ phase = "outputs" /\ cur <= Len(net) /\ cur \in 1 .. Len(net) + 1
    BY DEF HandlesMade, PlanInv, ManageOutputs
  <2>2. Len(net) \in Nat
    BY <2>1, StateIs
  <2> QED
    BY <2>1, <2>2
<1>2. \A s \in OutputSlots(cur) : ~Dangling(data[s])
  BY <1>1, NeverDangling DEF OutputSlots
<1>3. /\ refs' = [r \in DOMAIN refs \cup roots |->
                    (IF r \in DOMAIN refs THEN refs[r] ELSE 0)
                    + (IF r \in roots THEN NewReferences(r, OutputSlots(cur)) ELSE 0)]
      /\ managed' = [h \in DOMAIN handles |-> IF h \in roots \ DOMAIN refs THEN 2 * cur - 1 ELSE managed[h]]
      /\ phase' = "inputs"
      /\ UNCHANGED <<net, cur, handleVars, preallocated, allocated>>
  BY <1>2 DEF ManageOutputs, UseDangling
<1>4. net' = net /\ handles' = handles /\ data' = data /\ cur' = cur /\ preallocated' = preallocated /\ allocated' = allocated
  BY <1>3 DEF handleVars
<1>5. Written = cur - 1 /\ Read = cur - 1 /\ Written' = cur /\ Read' = cur - 1
  BY <1>1, <1>3, <1>4 DEF Written, Read
<1>6. CountsAre(cur - 1, cur - 1) /\ ManagedAre(cur - 1) /\ AllocatedAre(cur - 1, cur - 1)
  BY <1>1, <1>5 DEF PlanInv
<1>7. PICK c \in 1 .. Len(net) : c = cur
  BY <1>1
<1>8. /\ \A h : h \in roots <=> /\ h \in 1 .. Len(handles) /\ h \notin preallocated
                                /\ \E s \in Slots : s[1] = c /\ RootOf(s) = h
      /\ DOMAIN handles = 1 .. Len(handles)
  <2>1. \A s \in Slots : RootOf(s) \in 1 .. Len(handles)
    BY <1>1, RootOfIs
  <2>2. \A h : h \in roots <=> h \notin preallocated /\ \E s \in Slots : s[1] = c /\ RootOf(s) = h
    BY <1>7 DEF Roots, RootOf, OutputSlots
  <2> QED
    BY <1>1, <2>1, <2>2, StateIs
<1> HIDE DEF roots
<1>9. \A h \in roots : ReadsOf(h, c) # {}
  BY <1>1, <1>8, ReadsOfSlot
<1>10. \A h \in 1 .. Len(handles) : h \notin roots /\ h \notin preallocated => ReadsOf(h, c) = {}
  <2> TAKE h \in 1 .. Len(handles)
  <2>1. \A s \in OutputSlots(c) : s \in Slots /\ s[1] = c
    BY DEF OutputSlots
  <2> QED
    BY <1>8, <2>1 DEF ReadsOf
<1>11. \A h : Waiting(h, c, c - 1) = Waiting(h, c - 1, c - 1) \cup ReadsOf(h, c)
  BY <1>1, WaitingGrows
<1>12. ASSUME NEW h \in 1 .. Len(handles), h \in roots, IsWritten(h, c - 1)
       PROVE  h \in DOMAIN refs
  <2>1. PICK s \in Slots : RootOf(s) = h /\ s[1] <= c - 1
    BY <1>12 DEF IsWritten
  <2>2. PICK t \in Slots : RootOf(t) = h /\ t[1] = c
    BY <1>8, <1>12
  <2>3. c - 1 \in Nat /\ ~(t[1] <= c - 1)
    BY <1>1, <2>2
  <2>4. Waiting(h, c - 1, c - 1) # {}
    BY <1>1, <2>1, <2>2, <2>3, CrossedIsWaiting
  <2> QED
    BY <1>6, <1>7, <1>8, <1>12, <2>4 DEF CountsAre
<1>13. ASSUME NEW h \in DOMAIN refs
       PROVE  /\ h \in 1 .. Len(handles) /\ h \notin preallocated /\ Waiting(h, c - 1, c - 1) # {} /\ IsWritten(h, c - 1)
              /\ refs[h] = Cardinality(Waiting(h, c - 1, c - 1))
  <2>1. h \in 1 .. Len(handles) /\ h \notin preallocated /\ Waiting(h, c - 1, c - 1) # {}
        /\ refs[h] = Cardinality(Waiting(h, c - 1, c - 1))
    BY <1>6, <1>7 DEF CountsAre
  <2>2. PICK e \in Reads : RootOf(Source(e)) = h /\ Source(e)[1] <= c - 1
    BY <2>1 DEF Waiting
  <2>3. Source(e) \in Slots
    BY <1>1, ReadIs
  <2> QED
    BY <2>1, <2>2, <2>3 DEF IsWritten
<1>14. \A h \in 1 .. Len(handles) : h \notin roots => (IsWritten(h, c) <=> IsWritten(h, c - 1))
  <2> SUFFICES ASSUME NEW h \in 1 .. Len(handles), h \notin roots, h \notin preallocated
               PROVE  \A s \in Slots : RootOf(s) = h => (s[1] <= c <=> s[1] <= c - 1)
    BY DEF IsWritten
  <2> TAKE s \in Slots
  <2>1. RootOf(s) = h => s[1] # c
    BY <1>8
  <2>2. s[1] \in Nat /\ c \in Nat
    BY <1>1, StateIs
  <2> QED
    BY <2>1, <2>2
<1>15. CountsAre(c, c - 1)'
  <2>1. DOMAIN refs' = {h \in 1 .. Len(handles) : h \notin preallocated /\ Waiting(h, c, c - 1) # {}}
    <3>1. DOMAIN refs' = DOMAIN refs \cup roots
      BY <1>3
    <3>2. ASSUME NEW h \in 1 .. Len(handles)
          PROVE  h \in DOMAIN refs \cup roots <=> h \notin preallocated /\ Waiting(h, c, c - 1) # {}
      <4>1. h \in DOMAIN refs <=> h \notin preallocated /\ Waiting(h, c - 1, c - 1) # {}
        BY <1>6, <1>7 DEF CountsAre
      <4>2. h \in roots <=> h \notin preallocated /\ ReadsOf(h, c) # {}
        BY <1>8, <1>9, <1>10
      <4> QED
        BY <1>11, <4>1, <4>2
    <3> QED
      BY <1>8, <1>13, <3>1, <3>2
  <2>2. ASSUME NEW h \in DOMAIN refs'
        PROVE  refs'[h] = Cardinality(Waiting(h, c, c - 1))
    <3>1. h \in 1 .. Len(handles) /\ h \in DOMAIN refs \cup roots /\ h \notin preallocated
      BY <1>3, <2>1
    <3>2. refs'[h] = (IF h \in DOMAIN refs THEN refs[h] ELSE 0) + (IF h \in roots THEN Cardinality(ReadsOf(h, c)) ELSE 0)
      BY <1>3, <1>7, <3>1 DEF NewReferences, CountConnections, ReadsOf, RootOf
    <3>3. (IF h \in DOMAIN refs THEN refs[h] ELSE 0) = Cardinality(Waiting(h, c - 1, c - 1))
      <4>1. CASE h \in DOMAIN refs
        BY <1>13, <4>1
      <4>2. CASE h \notin DOMAIN refs
        <5>1. Waiting(h, c - 1, c - 1) = {}
          BY <1>6, <1>7, <3>1, <4>2 DEF CountsAre
        <5> QED
          BY <4>2, <5>1, FS_EmptySet
      <4> QED
        BY <4>1, <4>2
    <3>4. (IF h \in roots THEN Cardinality(ReadsOf(h, c)) ELSE 0) = Cardinality(ReadsOf(h, c))
      <4>1. CASE h \notin roots
        BY <1>10, <3>1, <4>1, FS_EmptySet
      <4> QED
        BY <4>1
    <3>5. IsFiniteSet(Waiting(h, c - 1, c - 1)) /\ IsFiniteSet(ReadsOf(h, c))
      <4>1. IsFiniteSet(Waiting(h, c, c - 1)) /\ ReadsOf(h, c) \in SUBSET Waiting(h, c, c - 1)
        BY <1>1, <1>11, WaitingIsFinite
      <4> QED
        BY <1>1, <4>1, WaitingIsFinite, FS_Subset
    <3>6. Waiting(h, c - 1, c - 1) \cap ReadsOf(h, c) = {}
      BY <1>1, WaitingGrows
    <3>7. Cardinality(Waiting(h, c, c - 1))
          = Cardinality(Waiting(h, c - 1, c - 1)) + Cardinality(ReadsOf(h, c)) - Cardinality({})
      <4>1. Cardinality(Waiting(h, c - 1, c - 1) \cup ReadsOf(h, c))
            = Cardinality(Waiting(h, c - 1, c - 1)) + Cardinality(ReadsOf(h, c))
              - Cardinality(Waiting(h, c - 1, c - 1) \cap ReadsOf(h, c))
        BY ONLY <3>5, FS_Union, Zenon
      <4>2. Waiting(h, c, c - 1) = Waiting(h, c - 1, c - 1) \cup ReadsOf(h, c)
        BY <1>11
      <4> QED
        BY ONLY <3>6, <4>1, <4>2, Zenon
    <3>8. Cardinality({}) = 0 /\ Cardinality(Waiting(h, c - 1, c - 1)) \in Nat /\ Cardinality(ReadsOf(h, c)) \in Nat
      BY <3>5, FS_EmptySet, FS_CardinalityType
    <3> QED
      BY <3>2, <3>3, <3>4, <3>7, <3>8
  <2> QED
    BY <1>4, <2>1, <2>2, BuffersKept DEF CountsAre
<1>16. \A h : IsWritten(h, c)' <=> IsWritten(h, c)
  BY <1>4, BuffersKept DEF IsWritten
<1>17. ManagedAre(c)'
  <2> SUFFICES ASSUME NEW h \in 1 .. Len(handles)
               PROVE  IF IsWritten(h, c) THEN \E l \in Layers : StartsAt(h, l) /\ managed'[h] = 2 * l - 1 ELSE managed'[h] = 0
    BY <1>4, <1>16, BuffersKept DEF ManagedAre
  <2>1. managed'[h] = IF h \in roots \ DOMAIN refs THEN 2 * c - 1 ELSE managed[h]
    BY <1>3, <1>7, <1>8
  <2>2. IF IsWritten(h, c - 1) THEN \E l \in Layers : StartsAt(h, l) /\ managed[h] = 2 * l - 1 ELSE managed[h] = 0
    BY <1>6, <1>7 DEF ManagedAre
  <2>3. CASE h \in roots \ DOMAIN refs
    <3>1. ~IsWritten(h, c - 1) /\ h \notin preallocated /\ \E s \in Slots : s[1] = c /\ RootOf(s) = h
      BY <1>8, <1>12, <2>3
    <3>2. \A s \in Slots : RootOf(s) = h => c <= s[1]
      <4> TAKE s \in Slots
      <4>1. s[1] \in Nat /\ c \in Nat
        BY <1>1, StateIs
      <4>2. RootOf(s) = h => ~(s[1] <= c - 1)
        BY <3>1 DEF IsWritten
      <4> QED
        BY <4>1, <4>2
    <3>3. StartsAt(h, c) /\ c \in Layers
      BY <1>1, <3>1, <3>2, StateIs, NetIs DEF StartsAt
    <3>4. IsWritten(h, c)
      BY <3>1 DEF IsWritten
    <3> QED
      BY <2>1, <2>3, <3>3, <3>4
  <2>4. CASE h \notin roots \ DOMAIN refs
    <3>1. IsWritten(h, c) <=> IsWritten(h, c - 1)
      <4>1. CASE h \notin roots
        BY <1>14, <4>1
      <4>2. CASE h \in roots
        <5>1. h \in DOMAIN refs /\ IsWritten(h, c - 1)
          BY <1>13, <2>4, <4>2
        <5>2. IsWritten(h, c)
          BY <1>8, <4>2 DEF IsWritten
        <5> QED
          BY <5>1, <5>2
      <4> QED
        BY <4>1, <4>2
    <3> QED
      BY <2>1, <2>2, <2>4, <3>1
  <2> QED
    BY <2>3, <2>4
<1>18. AllocatedAre(c, c - 1)'
  <2> SUFFICES ASSUME NEW h \in 1 .. Len(handles)
               PROVE  IF IsWritten(h, c) /\ Waiting(h, c, c - 1) = {}
                      THEN \E l \in Layers : EndsAt(h, l) /\ allocated[h] = 2 * l ELSE allocated[h] = 0
    BY <1>4, <1>16, BuffersKept DEF AllocatedAre
  <2>1. IF IsWritten(h, c - 1) /\ Waiting(h, c - 1, c - 1) = {}
        THEN \E l \in Layers : EndsAt(h, l) /\ allocated[h] = 2 * l ELSE allocated[h] = 0
    BY <1>6, <1>7 DEF AllocatedAre
  <2>2. CASE h \in roots
    <3>1. Waiting(h, c, c - 1) # {}
      BY <1>9, <1>11, <2>2
    <3>2. ~(IsWritten(h, c - 1) /\ Waiting(h, c - 1, c - 1) = {})
      BY <1>12, <1>13, <2>2
    <3> QED
      BY <2>1, <3>1, <3>2
  <2>3. CASE h \notin roots /\ h \in preallocated
    <3>1. ~IsWritten(h, c) /\ ~IsWritten(h, c - 1)
      BY <2>3 DEF IsWritten
    <3> QED
      BY <2>1, <3>1
  <2>4. CASE h \notin roots /\ h \notin preallocated
    <3>1. Waiting(h, c, c - 1) = Waiting(h, c - 1, c - 1)
      BY <1>10, <1>11, <2>4
    <3>2. IsWritten(h, c) <=> IsWritten(h, c - 1)
      BY <1>14, <2>4
    <3> QED
      BY <2>1, <3>1, <3>2
  <2> QED
    BY <2>2, <2>3, <2>4
<1>19. CountsAre(Written, Read)' /\ ManagedAre(Written)' /\ AllocatedAre(Written, Read)'
  BY <1>5, <1>7, <1>15, <1>17, <1>18 DEF CountsAre, ManagedAre, AllocatedAre
<1> QED
  BY <1>1, <1>3, <1>4, <1>19 DEF PlanInv

LEMMA PlanInputs ==
  ASSUME "OutputsConnected" \in Promises, PlanInv, HandleInv', ReleaseInputs
  PROVE  PlanInv'
<1> DEFINE roots == Roots({Source(e) : e \in InputSlots(cur)})
           left(r) == (IF r \in DOMAIN refs THEN refs[r] ELSE 0)
                      - Cardinality({e \in InputSlots(cur) : Root(data[Source(e)]) = r})
           done == {r \in roots : left(r) = 0}
<1>1. HandlesMade /\ phase = "inputs" /\ cur \in 1 .. Len(net) /\ Len(net) \in Nat
  <2>1. HandlesMade /\ phase = "inputs" /\ cur <= Len(net) /\ cur \in 1 .. Len(net) + 1
    BY DEF HandlesMade, PlanInv, ReleaseInputs
  <2>2. Len(net) \in Nat
    BY <2>1, StateIs
  <2> QED
    BY <2>1, <2>2
<1>2. PICK c \in 1 .. Len(net) : c = cur
  BY <1>1
<1>3. \A e : e \in InputSlots(c) <=> e \in Reads /\ e[1] = c
  BY <1>1, WaitingShrinks
<1>4. \A s \in {Source(e) : e \in InputSlots(cur)} : ~Dangling(data[s])
  <2>1. \A e \in InputSlots(cur) : Source(e) \in Slots
    BY <1>1, <1>2, <1>3, ReadIs
  <2> QED
    BY <1>1, <2>1, NeverDangling
<1>5. /\ refs' = [r \in (DOMAIN refs \cup roots) \ done |-> IF r \in roots THEN left(r) ELSE refs[r]]
      /\ allocated' = [h \in DOMAIN handles |-> IF h \in done THEN 2 * cur ELSE allocated[h]]
      /\ phase' = IF cur = Len(net) THEN "ready" ELSE "outputs"
      /\ cur' = cur + 1
      /\ UNCHANGED <<net, handleVars, preallocated, managed>>
  BY <1>4 DEF ReleaseInputs, UseDangling
<1>6. net' = net /\ handles' = handles /\ data' = data /\ preallocated' = preallocated /\ managed' = managed
  BY <1>5 DEF handleVars
<1>7. Written = cur /\ Read = cur - 1 /\ Written' = cur /\ Read' = cur
  BY <1>1, <1>5 DEF Written, Read
<1>8. CountsAre(cur, cur - 1) /\ ManagedAre(cur) /\ AllocatedAre(cur, cur - 1)
  BY <1>1, <1>7 DEF PlanInv
<1>9. /\ \A h : h \in roots <=> h \in 1 .. Len(handles) /\ h \notin preallocated /\ ReadsBy(h, c) # {}
      /\ DOMAIN handles = 1 .. Len(handles)
  <2>1. \A e \in InputSlots(c) : RootOf(Source(e)) \in 1 .. Len(handles)
    BY <1>1, <1>3, ReadIs
  <2>2. \A h : h \in roots <=> h \notin preallocated /\ \E e \in InputSlots(c) : RootOf(Source(e)) = h
    BY <1>2 DEF Roots, RootOf
  <2> QED
    BY <1>1, <2>1, <2>2, StateIs DEF ReadsBy
<1>10. /\ \A h : Waiting(h, c, c) = Waiting(h, c, c - 1) \ ReadsBy(h, c)
       /\ \A h : ReadsBy(h, c) \subseteq Waiting(h, c, c - 1)
  BY <1>1, WaitingShrinks
<1>11. \A h : left(h) = (IF h \in DOMAIN refs THEN refs[h] ELSE 0) - Cardinality(ReadsBy(h, c))
  BY <1>2 DEF ReadsBy, RootOf
<1> HIDE DEF roots, left
<1>12. ASSUME NEW h \in roots
       PROVE  h \in DOMAIN refs /\ h \in 1 .. Len(handles) /\ left(h) = Cardinality(Waiting(h, c, c))
  <2>1. h \in 1 .. Len(handles) /\ h \notin preallocated /\ ReadsBy(h, c) # {}
    BY <1>9
  <2>2. h \in DOMAIN refs /\ refs[h] = Cardinality(Waiting(h, c, c - 1))
    BY <1>2, <1>8, <1>10, <2>1 DEF CountsAre
  <2>3. IsFiniteSet(Waiting(h, c, c)) /\ IsFiniteSet(ReadsBy(h, c))
    <3>1. IsFiniteSet(Waiting(h, c, c - 1)) /\ ReadsBy(h, c) \in SUBSET Waiting(h, c, c - 1)
      BY <1>1, <1>10, WaitingIsFinite
    <3> QED
      BY <1>1, <3>1, WaitingIsFinite, FS_Subset
  <2>4. Waiting(h, c, c) \cup ReadsBy(h, c) = Waiting(h, c, c - 1) /\ Waiting(h, c, c) \cap ReadsBy(h, c) = {}
    BY <1>10
  <2>5. Cardinality(Waiting(h, c, c) \cup ReadsBy(h, c))
        = Cardinality(Waiting(h, c, c)) + Cardinality(ReadsBy(h, c)) - Cardinality(Waiting(h, c, c) \cap ReadsBy(h, c))
    BY ONLY <2>3, FS_Union, Zenon
  <2>6. Cardinality(Waiting(h, c, c - 1)) = Cardinality(Waiting(h, c, c)) + Cardinality(ReadsBy(h, c)) - Cardinality({})
    BY ONLY <2>4, <2>5, Zenon
  <2>7. Cardinality({}) = 0 /\ Cardinality(Waiting(h, c, c)) \in Nat /\ Cardinality(ReadsBy(h, c)) \in Nat
    BY <2>3, FS_EmptySet, FS_CardinalityType
  <2>8. left(h) = Cardinality(Waiting(h, c, c - 1)) - Cardinality(ReadsBy(h, c))
    BY <1>11, <2>2
  <2> QED
    BY <2>1, <2>2, <2>6, <2>7, <2>8
<1>13. \A h : h \in done <=> h \in roots /\ Waiting(h, c, c) = {}
  <2> TAKE h
  <2>1. h \in roots => (left(h) = 0 <=> Waiting(h, c, c) = {})
    BY <1>1, <1>12, WaitingIsFinite
  <2> QED
    BY <2>1
<1> HIDE DEF done
<1>14. CountsAre(c, c)'
  <2>1. DOMAIN refs' = {h \in 1 .. Len(handles) : h \notin preallocated /\ Waiting(h, c, c) # {}}
    <3>1. DOMAIN refs' = DOMAIN refs \ done
      BY <1>5, <1>12
    <3>2. DOMAIN refs = {h \in 1 .. Len(handles) : h \notin preallocated /\ Waiting(h, c, c - 1) # {}}
      BY <1>2, <1>8 DEF CountsAre
    <3>3. ASSUME NEW h \in 1 .. Len(handles), h \notin preallocated
          PROVE  Waiting(h, c, c - 1) # {} /\ h \notin done <=> Waiting(h, c, c) # {}
      <4>1. CASE h \in roots
        BY <1>9, <1>10, <1>13, <4>1
      <4>2. CASE h \notin roots
        BY <1>9, <1>10, <1>13, <3>3, <4>2
      <4> QED
        BY <4>1, <4>2
    <3> QED
      BY <3>1, <3>2, <3>3
  <2>2. ASSUME NEW h \in DOMAIN refs'
        PROVE  refs'[h] = Cardinality(Waiting(h, c, c))
    <3>1. h \in (DOMAIN refs \cup roots) \ done /\ refs'[h] = IF h \in roots THEN left(h) ELSE refs[h]
      BY <1>5
    <3>2. CASE h \in roots
      BY <1>12, <3>1, <3>2
    <3>3. CASE h \notin roots
      <4>1. h \in DOMAIN refs
        BY <3>1, <3>3
      <4>2. h \in 1 .. Len(handles) /\ h \notin preallocated /\ refs[h] = Cardinality(Waiting(h, c, c - 1))
        BY <1>2, <1>8, <4>1 DEF CountsAre
      <4>3. ReadsBy(h, c) = {}
        BY <1>9, <3>3, <4>2
      <4>4. Waiting(h, c, c) = Waiting(h, c, c - 1)
        BY <1>10, <4>3
      <4> QED
        BY <3>1, <3>3, <4>2, <4>4
    <3> QED
      BY <3>2, <3>3
  <2> QED
    BY <1>6, <2>1, <2>2, BuffersKept DEF CountsAre
<1>15. \A h : IsWritten(h, c)' <=> IsWritten(h, c)
  BY <1>6, BuffersKept DEF IsWritten
<1>16. ManagedAre(c)'
  BY <1>2, <1>6, <1>8, <1>15, BuffersKept DEF ManagedAre
<1>17. AllocatedAre(c, c)'
  <2> SUFFICES ASSUME NEW h \in 1 .. Len(handles)
               PROVE  IF IsWritten(h, c) /\ Waiting(h, c, c) = {}
                      THEN \E l \in Layers : EndsAt(h, l) /\ allocated'[h] = 2 * l ELSE allocated'[h] = 0
    BY <1>6, <1>15, BuffersKept DEF AllocatedAre
  <2>1. IF IsWritten(h, c) /\ Waiting(h, c, c - 1) = {}
        THEN \E l \in Layers : EndsAt(h, l) /\ allocated[h] = 2 * l ELSE allocated[h] = 0
    BY <1>2, <1>8 DEF AllocatedAre
  <2>2. allocated'[h] = IF h \in done THEN 2 * c ELSE allocated[h]
    BY <1>2, <1>5, <1>9
  <2>3. CASE h \in done
    <3>1. h \in roots /\ Waiting(h, c, c) = {} /\ h \notin preallocated
      BY <1>9, <1>13, <2>3
    <3>2. PICK e \in Reads : e[1] = c /\ RootOf(Source(e)) = h
      BY <1>3, <1>9, <3>1 DEF ReadsBy
    <3>3. Source(e) \in Slots /\ Source(e)[1] <= c /\ c \in Nat
      <4>1. e[1] \in Nat /\ Source(e) \in Slots /\ Source(e)[1] \in 1 .. e[1] - 1
        BY <1>1, ReadIs
      <4> QED
        BY <3>2, <4>1
    <3>4. \A f \in Reads : RootOf(Source(f)) = h => f[1] <= c
      <4> SUFFICES ASSUME NEW f \in Reads, RootOf(Source(f)) = h, ~(f[1] <= c) PROVE FALSE
        OBVIOUS
      <4>1. Source(f) \in Slots
        BY <1>1, ReadIs
      <4>2. CASE Source(f)[1] <= c
        BY <3>1, <4>2 DEF Waiting
      <4>3. CASE ~(Source(f)[1] <= c)
        <5>1. Waiting(h, c, c) # {}
          BY <1>1, <3>2, <3>3, <4>1, <4>3, CrossedIsWaiting
        <5> QED
          BY <3>1, <5>1
      <4> QED
        BY <4>2, <4>3
    <3>5. EndsAt(h, c) /\ c \in Layers
      BY <1>1, <3>2, <3>4, StateIs, NetIs DEF EndsAt
    <3>6. IsWritten(h, c)
      BY <3>1, <3>2, <3>3 DEF IsWritten
    <3> QED
      BY <2>2, <2>3, <3>1, <3>5, <3>6
  <2>4. CASE h \notin done /\ h \in roots
    <3>1. Waiting(h, c, c) # {} /\ Waiting(h, c, c - 1) # {}
      BY <1>10, <1>13, <2>4
    <3> QED
      BY <2>1, <2>2, <2>4, <3>1
  <2>5. CASE h \notin done /\ h \notin roots /\ h \notin preallocated
    <3>1. Waiting(h, c, c) = Waiting(h, c, c - 1)
      BY <1>9, <1>10, <2>5
    <3> QED
      BY <2>1, <2>2, <2>5, <3>1
  <2>6. CASE h \notin done /\ h \in preallocated
    <3>1. ~IsWritten(h, c)
      BY <2>6 DEF IsWritten
    <3> QED
      BY <2>1, <2>2, <2>6, <3>1
  <2> QED
    BY <2>3, <2>4, <2>5, <2>6
<1>18. CountsAre(Written, Read)' /\ ManagedAre(Written)' /\ AllocatedAre(Written, Read)'
  BY <1>2, <1>7, <1>14, <1>16, <1>17 DEF CountsAre, ManagedAre, AllocatedAre
<1>19. /\ cur' \in 1 .. Len(net) + 1 /\ phase' \in {"outputs", "ready"}
       /\ phase' = "ready" => cur' = Len(net) + 1
  BY <1>1, <1>5
<1> QED
  BY <1>6, <1>18, <1>19 DEF PlanInv

LEMMA PlanInit == Init => PlanInv
<1> SUFFICES ASSUME Init PROVE PlanInv
  OBVIOUS
<1>1. phase = "build" /\ refs = <<>> /\ HandleInv
  BY HandleInit DEF Init
<1>2. DOMAIN refs = {}
  BY <1>1
<1> QED
  BY <1>1, <1>2 DEF PlanInv

LEMMA PlanStep ==
  ASSUME "ExclusiveViews" \in Promises, "OutputsConnected" \in Promises, PlanInv, [Next]_vars
  PROVE  PlanInv'
<1>1. HandleInv /\ HandleInv'
  BY HandleStep DEF PlanInv
<1>2. CASE AddLayer \/ Load \/ CreateTensorHandles \/ SubstituteInputs
  <2>1. phase' \in {"build", "handles"} /\ refs' = refs /\ DOMAIN refs = {}
    <3>1. CASE mergers = <<>>
      BY <1>2, <3>1 DEF AddLayer, Load, CreateTensorHandles, SubstituteInputs, planVars, PlanInv
    <3>2. CASE mergers # <<>>
      <4>1. phase = "handles"
        BY <1>1, <3>2 DEF HandleInv, HandlesTyped
      <4> QED
        BY <1>2, <4>1 DEF AddLayer, Load, CreateTensorHandles, SubstituteInputs, planVars, PlanInv
    <3> QED
      BY <3>1, <3>2
  <2> QED
    BY <1>1, <2>1 DEF PlanInv
<1>3. CASE CreateWorkloads
  <2>1. /\ phase = "handles" /\ phase' = "constants" /\ refs' = refs /\ handles' = handles
        /\ managed' = [h \in DOMAIN handles |-> 0] /\ allocated' = [h \in DOMAIN handles |-> 0]
    BY <1>3 DEF CreateWorkloads
  <2>2. DOMAIN handles = 1 .. Len(handles)
    BY <1>1 DEF HandleInv, HandlesTyped
  <2> QED
    BY <1>1, <2>1, <2>2 DEF PlanInv
<1>4. CASE AllocateConstants
  BY <1>1, <1>4, PlanConstants
<1>5. CASE ManageOutputs
  BY <1>1, <1>5, PlanOutputs
<1>6. CASE ReleaseInputs
  BY <1>1, <1>6, PlanInputs
<1>7. CASE UNCHANGED vars
  <2>1. UNCHANGED <<net, phase, cur, handles, data, preallocated, refs, managed, allocated>>
    BY <1>7 DEF vars
  <2>2. Written' = Written /\ Read' = Read /\ \A h, w : IsWritten(h, w)' <=> IsWritten(h, w)
    BY <2>1, BuffersKept DEF Written, Read, IsWritten
  <2>3. \A w, d : (CountsAre(w, d)' <=> CountsAre(w, d)) /\ (ManagedAre(w)' <=> ManagedAre(w)) /\ (AllocatedAre(w, d)' <=> AllocatedAre(w, d))
    <3>1. \A w, d : CountsAre(w, d)' <=> CountsAre(w, d)
      BY <2>1, BuffersKept DEF CountsAre
    <3>2. \A w : ManagedAre(w)' <=> ManagedAre(w)
      BY <2>1, <2>2, BuffersKept DEF ManagedAre
    <3>3. \A w, d : AllocatedAre(w, d)' <=> AllocatedAre(w, d)
      BY <2>1, <2>2, BuffersKept DEF AllocatedAre
    <3> QED
      BY <3>1, <3>2, <3>3
  <2>4. PICK w, d : w = Written /\ d = Read /\ w = Written' /\ d = Read'
    BY <2>2
  <2>5. CountsAre(Written, Read)' <=> CountsAre(Written, Read)
    <3>1. CountsAre(Written, Read)' <=> CountsAre(w, d)'
      BY ONLY <2>4 DEF CountsAre
    <3>2. CountsAre(Written, Read) <=> CountsAre(w, d)
      BY ONLY <2>4, Zenon
    <3>3. CountsAre(w, d)' <=> CountsAre(w, d)
      BY <2>3
    <3> QED
      BY ONLY <3>1, <3>2, <3>3, Zenon
  <2>6. ManagedAre(Written)' <=> ManagedAre(Written)
    BY <2>3, <2>4 DEF ManagedAre
  <2>7. AllocatedAre(Written, Read)' <=> AllocatedAre(Written, Read)
    <3>1. AllocatedAre(Written, Read)' <=> AllocatedAre(w, d)'
      BY ONLY <2>4 DEF AllocatedAre
    <3>2. AllocatedAre(Written, Read) <=> AllocatedAre(w, d)
      BY ONLY <2>4, Zenon
    <3>3. AllocatedAre(w, d)' <=> AllocatedAre(w, d)
      BY <2>3
    <3> QED
      BY ONLY <3>1, <3>2, <3>3, Zenon
  <2> QED
    BY <1>1, <2>1, <2>5, <2>6, <2>7 DEF PlanInv
<1> QED
  BY <1>2, <1>3, <1>4, <1>5, <1>6, <1>7 DEF Next, NotLoaded, Done

LEMMA MovesOn ==
  ASSUME PlanInv, PlanInv', [Next]_vars, phase \in {"outputs", "inputs"}
  PROVE  LifetimesMoveOn
<1>1. /\ HandlesMade /\ cur \in Nat /\ mergers = <<>>
      /\ CountsAre(Written, Read) /\ ManagedAre(Written) /\ AllocatedAre(Written, Read)
  <2>1. HandlesMade /\ cur \in 1 .. Len(net) + 1
        /\ CountsAre(Written, Read) /\ ManagedAre(Written) /\ AllocatedAre(Written, Read)
    BY DEF HandlesMade, PlanInv
  <2> QED
    BY <2>1, StateIs
<1>2. /\ net' = net /\ handles' = handles /\ data' = data /\ preallocated' = preallocated
      /\ phase' \in {"outputs", "inputs", "ready"}
      /\ \/ phase = "outputs" /\ phase' = "inputs" /\ cur' = cur
         \/ phase = "inputs" /\ phase' \in {"outputs", "ready"} /\ cur' = cur + 1
         \/ phase' = phase /\ cur' = cur
  <2>1. phase' # "undefined"
    BY DEF PlanInv
  <2>2. CASE ManageOutputs
    BY <2>1, <2>2 DEF ManageOutputs, UseDangling, handleVars
  <2>3. CASE ReleaseInputs
    BY <2>1, <2>3 DEF ReleaseInputs, UseDangling, handleVars
  <2>4. CASE UNCHANGED vars
    BY <2>4 DEF vars
  <2> QED
    BY <1>1, <2>2, <2>3, <2>4 DEF Next, AddLayer, Load, NotLoaded, CreateTensorHandles, SubstituteInputs, CreateWorkloads,
                                 AllocateConstants, Done
<1>3. CountsAre(Written, Read)' /\ ManagedAre(Written)' /\ AllocatedAre(Written, Read)'
  BY <1>2 DEF PlanInv
<1>4. PICK w, d, v, b : w = Written /\ d = Read /\ v = Written' /\ b = Read'
  OBVIOUS
<1>5. w \in Int /\ d \in Int /\ v \in Int /\ b \in Int /\ d <= w /\ w <= v /\ d <= b /\ w >= 0
  <2>1. cur >= 1
    BY DEF PlanInv
  <2> QED
    BY <1>1, <1>2, <1>4, <2>1 DEF Written, Read
<1>6. DOMAIN handles = 1 .. Len(handles)
  BY <1>1, StateIs
<1> SUFFICES ASSUME NEW h \in 1 .. Len(handles) PROVE LifetimeMovesOn(h)
  BY <1>6 DEF LifetimesMoveOn, Handles
<1>7. /\ IF IsWritten(h, w) THEN \E l \in Layers : StartsAt(h, l) /\ managed[h] = 2 * l - 1 ELSE managed[h] = 0
      /\ IF IsWritten(h, w) /\ Waiting(h, w, d) = {} THEN \E l \in Layers : EndsAt(h, l) /\ allocated[h] = 2 * l ELSE allocated[h] = 0
  BY <1>1, <1>4 DEF ManagedAre, AllocatedAre
<1>8. \A x : IsWritten(h, x)' <=> IsWritten(h, x)
  BY <1>2, BuffersKept DEF IsWritten
<1>9. /\ IF IsWritten(h, v) THEN \E l \in Layers : StartsAt(h, l) /\ managed'[h] = 2 * l - 1 ELSE managed'[h] = 0
      /\ IF IsWritten(h, v) /\ Waiting(h, v, b) = {} THEN \E l \in Layers : EndsAt(h, l) /\ allocated'[h] = 2 * l ELSE allocated'[h] = 0
  <2>1. ManagedAre(v)' /\ AllocatedAre(v, b)'
    BY <1>3, <1>4 DEF ManagedAre, AllocatedAre, IsWritten, Waiting
  <2>2. /\ IF IsWritten(h, v)' THEN \E l \in Layers' : StartsAt(h, l)' /\ managed'[h] = 2 * l - 1 ELSE managed'[h] = 0
        /\ IF IsWritten(h, v)' /\ Waiting(h, v, b)' = {} THEN \E l \in Layers' : EndsAt(h, l)' /\ allocated'[h] = 2 * l ELSE allocated'[h] = 0
    BY <1>2, <2>1 DEF ManagedAre, AllocatedAre
  <2> QED
    BY <1>2, <1>8, <2>2, BuffersKept
<1>10. Layers \subseteq Nat \ {0} /\ \A s \in Slots : s[1] \in Layers
  BY <1>1, StateIs, NetIs
<1>11. IsWritten(h, w) => IsWritten(h, v)
  <2>1. \A s \in Slots : s[1] <= w => s[1] <= v
    <3> TAKE s \in Slots
    <3>1. s[1] \in Nat
      BY <1>10
    <3> QED
      BY <1>5, <3>1
  <2> QED
    BY <2>1 DEF IsWritten
<1>12. IsWritten(h, w) /\ Waiting(h, w, d) = {} => Waiting(h, v, b) = {}
  <2> SUFFICES ASSUME IsWritten(h, w), Waiting(h, w, d) = {}, NEW e \in Waiting(h, v, b) PROVE FALSE
    OBVIOUS
  <2>1. PICK s \in Slots : RootOf(s) = h /\ s[1] <= w
    BY DEF IsWritten
  <2>2. e \in Reads /\ RootOf(Source(e)) = h /\ ~(e[1] <= b)
    BY DEF Waiting
  <2>3. Source(e) \in Slots /\ e[1] \in Nat /\ Source(e)[1] \in Nat
    BY <1>1, <2>2, ReadIs
  <2>4. ~(e[1] <= d)
    BY <1>5, <2>2, <2>3
  <2>5. ~(Source(e)[1] <= w)
    BY <2>2, <2>4 DEF Waiting
  <2>6. Waiting(h, w, w) # {}
    BY <1>1, <1>5, <2>1, <2>2, <2>3, <2>5, CrossedIsWaiting
  <2>7. PICK f \in Reads : RootOf(Source(f)) = h /\ Source(f)[1] <= w /\ ~(f[1] <= w)
    BY <2>6 DEF Waiting
  <2>8. ~(f[1] <= d)
    <3>1. f[1] \in Nat
      BY <1>1, ReadIs
    <3> QED
      BY <1>5, <2>7, <3>1
  <2> QED
    BY <2>7, <2>8 DEF Waiting
<1>13. \A k \in Layers, l \in Layers : StartsAt(h, k) /\ StartsAt(h, l) => k = l
  BY <1>10 DEF StartsAt
<1>14. \A k \in Layers, l \in Layers : EndsAt(h, k) /\ EndsAt(h, l) => k = l
  BY <1>10 DEF EndsAt
<1>15. managed[h] # 0 => managed'[h] = managed[h]
  BY <1>7, <1>9, <1>11, <1>13
<1>16. allocated[h] # 0 => allocated'[h] = allocated[h]
  BY <1>7, <1>9, <1>11, <1>12, <1>14
<1>17. allocated'[h] # 0 => managed'[h] # 0
  <2>1. \A l \in Layers : 2 * l - 1 # 0
    BY <1>10
  <2> QED
    BY <1>9, <2>1
<1>18. h \in preallocated => managed'[h] = 0
  BY <1>9 DEF IsWritten
<1> QED
  BY <1>15, <1>16, <1>17, <1>18 DEF LifetimeMovesOn

(* A buffer's lifetime begins once and ends once: its count of readers     *)
(* reaches 0 only after the last of them, because whoever still uses the   *)
(* buffer later reads it across the layers in between                      *)
(* (Graph::AllocateDynamicBuffers, Graph.cpp:166-225).                     *)
THEOREM LifetimesOnce ==
  ASSUME "ExclusiveViews" \in Promises, "OutputsConnected" \in Promises
  PROVE  Spec => LifetimesHappenOnce
<1>1. PlanInv /\ [Next]_vars => PlanInv'
  BY PlanStep
<1>2. PlanInv /\ PlanInv' /\ [Next]_vars => [LifetimesMoveOn]_vars
  BY MovesOn DEF LifetimesMoveOn
<1> QED
  BY <1>1, <1>2, PlanInit, PTL DEF Spec, LifetimesHappenOnce

(* When the plan is ready every buffer is planned, from the layer that     *)
(* writes it first to the layer that reads it last.                        *)
LEMMA ReadyPlan ==
  ASSUME "OutputsConnected" \in Promises, PlanInv, phase = "ready", NEW s \in Slots, RootOf(s) \notin preallocated
  PROVE  /\ HandlesMade
         /\ \E l \in Layers : StartsAt(RootOf(s), l) /\ managed[RootOf(s)] = 2 * l - 1
         /\ \E l \in Layers : EndsAt(RootOf(s), l) /\ allocated[RootOf(s)] = 2 * l
<1> DEFINE h == RootOf(s)
<1>1. HandlesMade
  BY DEF HandlesMade, PlanInv
<1>2. Len(net) \in Nat /\ h \in 1 .. Len(handles) /\ s[1] \in 1 .. Len(net)
  BY <1>1, StateIs, RootOfIs
<1>3. PICK n : n = Len(net)
  OBVIOUS
<1>4. n = Written /\ n = Read
  BY <1>2, <1>3 DEF PlanInv, Written, Read
<1>5. ManagedAre(n) /\ AllocatedAre(n, n)
  BY <1>4 DEF PlanInv
<1>6. IsWritten(h, n)
  BY <1>2, <1>3 DEF IsWritten
<1>7. Waiting(h, n, n) = {}
  <2>1. \A e \in Reads : e[1] <= n
    <3> TAKE e \in Reads
    <3>1. e[1] \in 1 .. Len(net)
      BY <1>1, ReadIs
    <3> QED
      BY <1>3, <3>1
  <2> QED
    BY <2>1 DEF Waiting
<1> QED
  BY <1>1, <1>2, <1>5, <1>6, <1>7 DEF ManagedAre, AllocatedAre

LEMMA PlanAlways ==
  ASSUME "ExclusiveViews" \in Promises, "OutputsConnected" \in Promises
  PROVE  Spec => []PlanInv
<1>1. PlanInv /\ [Next]_vars => PlanInv'
  BY PlanStep
<1> QED
  BY <1>1, PlanInit, PTL DEF Spec

(* Every tensor of a loaded network gets memory: once the plan is ready    *)
(* the buffer of each slot is a constant's or has had Allocate() called    *)
(* (Graph::AllocateDynamicBuffers).                                        *)
THEOREM TensorsAllocated ==
  ASSUME "ExclusiveViews" \in Promises, "OutputsConnected" \in Promises
  PROVE  Spec => []AllTensorsAllocated
<1>1. PlanInv => AllTensorsAllocated
  <2> SUFFICES ASSUME PlanInv, phase = "ready", NEW s \in Slots, RootOf(s) \notin preallocated
               PROVE  allocated[RootOf(s)] # 0
    BY DEF AllTensorsAllocated, RootOf
  <2>1. PICK l \in Layers : allocated[RootOf(s)] = 2 * l
    BY ReadyPlan
  <2>2. HandlesMade
    BY ReadyPlan
  <2>3. l \in 1 .. Len(net)
    BY <2>2, StateIs, NetIs
  <2> QED
    BY <2>1, <2>3
<1> QED
  BY <1>1, PlanAlways, PTL

(* The order in which the layers run follows the order of the list, but    *)
(* for the inputs and the outputs.                                         *)
LEMMA RunsLater ==
  ASSUME HandlesMade, NEW p \in Layers, NEW q \in Layers, p < q, net[p].kind # "output", net[q].kind # "input"
  PROVE  RunTime(p) < RunTime(q)
<1>1. p \in 1 .. Len(net) /\ q \in 1 .. Len(net) /\ Len(net) \in Nat /\ N \in Nat /\ Len(net) <= N
  BY StateIs, NetIs
<1>2. RunTime(p) \in {0, p}
  BY DEF RunTime
<1>3. RunTime(q) \in {q, N + 1}
  BY DEF RunTime
<1> QED
  BY <1>1, <1>2, <1>3

(* Nothing but inputs comes before an input, nothing but outputs after an  *)
(* output.                                                                 *)
LEMMA InputsFirst ==
  ASSUME HandlesMade, NEW p \in Layers, NEW q \in Layers, p <= q
  PROVE  /\ net[q].kind = "input" => net[p].kind = "input"
         /\ net[p].kind = "output" => net[q].kind = "output"
<1>1. IsNet(net) /\ p \in 1 .. Len(net) /\ q \in 1 .. Len(net) /\ Len(net) \in Nat /\ N \in Nat /\ Len(net) <= N
      /\ net \in Seq(LayerTypes)
  BY StateIs, NetIs
<1>2. net[p].prio <= net[q].prio
  BY <1>1 DEF IsNet, IsSorted
<1>3. \A l \in 1 .. Len(net) :
        /\ net[l].kind = "input" => net[l].prio = 0
        /\ net[l].kind = "output" => net[l].prio = N + 1
        /\ net[l].kind \notin {"input", "output"} => net[l].prio \in 1 .. l
  BY <1>1 DEF IsNet, IsSorted
<1> QED
  BY <1>1, <1>2, <1>3

(* A buffer is not used before the first layer that writes it, nor after   *)
(* the last that reads it.                                                 *)
LEMMA UsedBetween ==
  ASSUME HandlesMade, "OutputsConnected" \in Promises, NEW h, NEW t \in UseTimes(h)
  PROVE  \E u \in Layers : /\ t = RunTime(u)
                           /\ \A k \in Layers : EndsAt(h, k) => u <= k
                           /\ \A j \in Layers : StartsAt(h, j) => j <= u
<1>1. IsNet(net) /\ Layers = 1 .. Len(net) /\ Len(net) \in Nat
  BY StateIs, NetIs
<1>2. ASSUME NEW s \in Slots, RootOf(s) = h
      PROVE  \E e \in Reads : Source(e) = s /\ s[1] <= e[1] /\ s[1] \in Layers
  <2>1. PICK e \in Reads : Source(e) = s
    BY <1>2, EverySlotRead
  <2>2. s[1] \in 1 .. e[1] - 1 /\ e[1] \in 1 .. Len(net)
    BY <2>1, ReadIs
  <2> QED
    BY <1>1, <2>1, <2>2
<1>3. CASE \E s \in Slots : RootOf(s) = h /\ t = RunTime(s[1])
  <2>1. PICK s \in Slots : RootOf(s) = h /\ t = RunTime(s[1])
    BY <1>3
  <2>2. PICK e \in Reads : Source(e) = s /\ s[1] <= e[1] /\ s[1] \in Layers
    BY <1>2, <2>1
  <2>3. ASSUME NEW k \in Layers, EndsAt(h, k)
        PROVE  s[1] <= k
    <3>1. e[1] <= k /\ e[1] \in 1 .. Len(net)
      BY <2>1, <2>2, <2>3, ReadIs DEF EndsAt
    <3> QED
      BY <1>1, <2>2, <3>1
  <2> QED
    BY <2>1, <2>2, <2>3 DEF StartsAt
<1>4. CASE \E f \in Reads : RootOf(Source(f)) = h /\ t = RunTime(f[1])
  <2>1. PICK f \in Reads : RootOf(Source(f)) = h /\ t = RunTime(f[1])
    BY <1>4
  <2>2. Source(f) \in Slots /\ Source(f)[1] \in 1 .. f[1] - 1 /\ f[1] \in Layers
    BY <1>1, ReadIs
  <2>3. ASSUME NEW j \in Layers, StartsAt(h, j)
        PROVE  j <= f[1]
    <3>1. j <= Source(f)[1]
      BY <2>1, <2>2, <2>3 DEF StartsAt
    <3> QED
      BY <1>1, <2>2, <3>1
  <2> QED
    BY <2>1, <2>2, <2>3 DEF EndsAt
<1>5. \A f \in Layers \X (1 .. 2) : f[2] \in DOMAIN net[f[1]].ins => f \in Reads
  <2> TAKE f \in Layers \X (1 .. 2)
  <2>1. IsLayer(net, f[1])
    BY <1>1, NetIs
  <2> QED
    BY <2>1 DEF IsLayer, Reads
<1> QED
  BY <1>3, <1>4, <1>5 DEF UseTimes, RootOf

(* What shares memory is never in use at once: of two buffers whose        *)
(* lifetimes are one after the other, the last write or read of the one,   *)
(* in the order in which the workloads and the copies in and out really    *)
(* run, comes before the first of the other.                               *)
THEOREM MemoryIsFree ==
  ASSUME "ExclusiveViews" \in Promises, "OutputsConnected" \in Promises
  PROVE  Spec => []SharedMemoryIsFree
<1>1. PlanInv => SharedMemoryIsFree
  <2> SUFFICES ASSUME PlanInv, phase = "ready", NEW x \in Slots, NEW y \in Slots, MayShareMemory(RootOf(x), RootOf(y)),
                      NEW t \in UseTimes(RootOf(x)), NEW u \in UseTimes(RootOf(y))
               PROVE  t < u
    BY DEF SharedMemoryIsFree, RootOf
  <2> DEFINE a == RootOf(x)
             b == RootOf(y)
  <2>1. a \notin preallocated /\ b \notin preallocated /\ allocated[a] < managed[b]
    BY DEF MayShareMemory
  <2>2. HandlesMade
    BY DEF HandlesMade, PlanInv
  <2>3. PICK k \in Layers : EndsAt(a, k) /\ allocated[a] = 2 * k
    BY <2>1, ReadyPlan
  <2>4. PICK j \in Layers : StartsAt(b, j) /\ managed[b] = 2 * j - 1
    BY <2>1, ReadyPlan
  <2> HIDE DEF a, b
  <2>5. Layers \subseteq Nat
    BY <2>2, StateIs, NetIs
  <2>6. k < j
    <3>1. k \in Nat /\ j \in Nat /\ 2 * k < 2 * j - 1
      BY <2>1, <2>3, <2>4, <2>5
    <3> QED
      BY <3>1
  <2>7. PICK p \in Layers : t = RunTime(p) /\ p <= k
    BY <2>2, <2>3, UsedBetween DEF a
  <2>8. PICK q \in Layers : u = RunTime(q) /\ j <= q
    BY <2>2, <2>4, UsedBetween DEF b
  <2>9. net[p].kind # "output"
    <3>1. PICK s \in Slots : s[1] = j
      BY <2>4 DEF StartsAt
    <3>2. net[j].kind # "output"
      <4>1. NumOutputs(net[j].kind) # 0
        <5>1. net \in Seq(LayerTypes)
          BY <2>2, StateIs, NetIs
        <5>2. s[2] \in 1 .. NumOutputs(net[j].kind)
          BY <3>1, <5>1, SlotIs DEF Slots
        <5> QED
          BY <5>2
      <4> QED
        BY <4>1, NumOutputsIs
    <3>3. p <= j
      BY <2>5, <2>6, <2>7
    <3> QED
      BY <2>2, <3>2, <3>3, InputsFirst
  <2>10. net[q].kind # "input"
    <3>1. PICK e \in Reads : e[1] = k
      BY <2>3 DEF EndsAt
    <3>2. net[k].kind # "input"
      <4>1. e[2] \in 1 .. NumInputs(net[k].kind)
        BY <2>2, <3>1, ReadIs
      <4> QED
        BY <4>1 DEF NumInputs
    <3>3. k <= q
      BY <2>5, <2>6, <2>8
    <3> QED
      BY <2>2, <3>2, <3>3, InputsFirst
  <2>11. p < q
    BY <2>5, <2>6, <2>7, <2>8
  <2> QED
    BY <2>2, <2>7, <2>8, <2>9, <2>10, <2>11, RunsLater
<1> QED
  BY <1>1, PlanAlways, PTL
=============================================================================
