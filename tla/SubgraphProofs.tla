--------------------------- MODULE SubgraphProofs ---------------------------
(***************************************************************************)
(* Proofs about SubgraphViewSelector.tla, for graphs of any size whose     *)
(* layers have at most two inputs.                                         *)
(***************************************************************************)
EXTENDS SubgraphViewSelector, FiniteSetTheorems, TLAPS

----------------------------------------------------------------------------
(* A set of at most two elements is inside a pair.                         *)
LEMMA InPair ==
  ASSUME NEW S, IsFiniteSet(S), Cardinality(S) <= 2, S # {}
  PROVE  \E a \in S, b \in S : S = {a, b}
<1>1. PICK a \in S : TRUE
  OBVIOUS
<1>2. IsFiniteSet(S \ {a}) /\ Cardinality(S \ {a}) = Cardinality(S) - 1
  BY <1>1, FS_RemoveElement
<1>3. CASE S \ {a} = {}
  BY <1>1, <1>3
<1>4. CASE S \ {a} # {}
  <2>1. PICK b \in S \ {a} : TRUE
    BY <1>4
  <2>2. /\ IsFiniteSet((S \ {a}) \ {b})
        /\ Cardinality((S \ {a}) \ {b}) = Cardinality(S) - 2
    BY <1>2, <2>1, FS_RemoveElement, FS_CardinalityType, SMTT(30)
  <2>3. (S \ {a}) \ {b} = {}
    BY <2>2, FS_CardinalityType, FS_EmptySet
  <2> QED
    BY <1>1, <2>1, <2>3
<1> QED
  BY <1>3, <1>4

(* The folds of AssignSplitId over the ids of at most two parents.         *)
LEMMA MaxIsBound ==
  ASSUME NEW x \in Nat, NEW y \in Nat, NEW S, S \subseteq {x, y}
  PROVE  /\ MaxOr0(S) \in S \cup {0}
         /\ \A s \in S : s <= MaxOr0(S)
<1>1. \E m \in S \cup {0} : \A s \in S : s <= m
  <2>1. CASE x \in S /\ y \in S /\ x <= y
    BY <2>1
  <2>2. CASE x \in S /\ y \in S /\ ~(x <= y)
    BY <2>2
  <2>3. CASE x \notin S \/ y \notin S
    <3>1. \A s, t \in S : s = t
      BY <2>3
    <3> QED
      BY <3>1
  <2> QED
    BY <2>1, <2>2, <2>3
<1> QED
  BY <1>1 DEF MaxOr0

LEMMA MinIsElement ==
  ASSUME NEW x \in Nat, NEW y \in Nat
  PROVE  MinOf({x, y}) \in {x, y}
<1>1. \E m \in {x, y} : \A s \in {x, y} : m <= s
  <2>1. CASE x <= y
    BY <2>1
  <2>2. CASE ~(x <= y)
    BY <2>2
  <2> QED
    BY <2>1, <2>2
<1> QED
  BY <1>1 DEF MinOf

----------------------------------------------------------------------------
(* What AssignSplitId gives a layer is at least what its parents have, and *)
(* more than what those on the other side of the selection have.           *)
LEMMA AssignedIdGrows ==
  ASSUME NEW l, splitId \in [Layers -> Nat], NEW a \in Layers, NEW b \in Layers,
         Parents(l) = {a, b}
  PROVE  /\ AssignSplitId(l) \in Nat
         /\ \A p \in Parents(l) :
              /\ splitId[p] <= AssignSplitId(l)
              /\ (p \in selected) # (l \in selected) => splitId[p] < AssignSplitId(l)
<1> DEFINE x == splitId[a]
           y == splitId[b]
<1>1. x \in Nat /\ y \in Nat
  OBVIOUS
<1>2. ParentIds(l) = {x, y}
  BY DEF ParentIds
<1>3. SelectableIds(l) \subseteq {x, y}
  BY DEF SelectableIds
<1>4. /\ MaxOr0(ParentIds(l)) \in Nat
      /\ \A p \in Parents(l) : splitId[p] <= MaxOr0(ParentIds(l))
  <2>1. /\ MaxOr0({x, y}) \in {x, y} \cup {0}
        /\ \A s \in {x, y} : s <= MaxOr0({x, y})
    BY <1>1, MaxIsBound
  <2> QED
    BY <1>1, <1>2, <2>1
<1>5. /\ MaxOr0(SelectableIds(l)) \in SelectableIds(l) \cup {0}
      /\ \A s \in SelectableIds(l) : s <= MaxOr0(SelectableIds(l))
  BY <1>1, <1>3, MaxIsBound
<1>6. MinOf(ParentIds(l)) \in {x, y}
  BY <1>1, <1>2, MinIsElement
<1>7. CASE ~NewSplit(l)
  BY <1>4, <1>7 DEF AssignSplitId, NewSplit
<1>8. CASE NewSplit(l) /\ MaxOr0(SelectableIds(l)) > MinOf(ParentIds(l))
  <2>1. AssignSplitId(l) = MaxOr0(SelectableIds(l))
    BY <1>8 DEF AssignSplitId
  <2>2. PICK q \in Parents(l) :
          q \in selected /\ l \in selected /\ splitId[q] = AssignSplitId(l)
    BY <1>1, <1>3, <1>5, <1>6, <1>8, <2>1 DEF SelectableIds
  <2>3. PICK p \in Parents(l) : p \notin selected
    BY <1>8, <2>2 DEF NewSplit
  <2>4. Parents(l) = {p, q}
    BY <2>2, <2>3
  <2>5. splitId[p] < splitId[q]
    BY <1>1, <1>6, <1>8, <2>1, <2>2, <2>3, <2>4
  <2> QED
    BY <1>1, <2>2, <2>3, <2>4, <2>5
<1>9. CASE NewSplit(l) /\ ~(MaxOr0(SelectableIds(l)) > MinOf(ParentIds(l)))
  <2>1. AssignSplitId(l) = MaxOr0(ParentIds(l)) + 1
    BY <1>9 DEF AssignSplitId
  <2> QED
    BY <1>1, <1>4, <2>1
<1> QED
  BY <1>7, <1>8, <1>9

(* A source keeps the split id 0.                                          *)
LEMMA SourceHasIdZero ==
  ASSUME NEW l, Parents(l) = {}
  PROVE  AssignSplitId(l) = 0
<1>1. ParentIds(l) = {} /\ ~NewSplit(l)
  BY DEF ParentIds, NewSplit
<1>2. MaxOr0({}) = 0
  BY DEF MaxOr0
<1> QED
  BY <1>1, <1>2 DEF AssignSplitId

----------------------------------------------------------------------------
(* SplitIdsGrow speaks of processed layers only.  It is inductive together *)
(* with the fact that a layer is processed after all of its parents, so    *)
(* that no layer gets its id behind the back of one of its children.       *)
SplitInv ==
  /\ edges \subseteq {e \in Layers \X Layers : e[1] < e[2]}
  /\ \A l \in Layers : Cardinality(Parents(l)) <= 2
  /\ splitId \in [Layers -> Nat]
  /\ \A p, c \in Layers : <<p, c>> \in edges /\ c \in processed => p \in processed
  /\ SplitIdsGrow

LEMMA ParentsAreFinite == \A l : IsFiniteSet(Parents(l))
<1>1. IsFiniteSet(1 .. N)
  BY NAssumption, FS_Interval
<1> TAKE l
<1>2. Parents(l) \in SUBSET (1 .. N)
  BY DEF Parents, Layers
<1> QED
  BY <1>1, <1>2, FS_Subset

LEMMA SplitInit ==
  ASSUME MaxInputs <= 2, Init
  PROVE  SplitInv
<1>1. edges \subseteq {e \in Layers \X Layers : e[1] < e[2]}
  BY DEF Init
<1>2. \A l \in Layers : Cardinality(Parents(l)) <= 2
  <2> TAKE l \in Layers
  <2>1. IsFiniteSet(Parents(l))
    BY ParentsAreFinite
  <2>2. Cardinality(Parents(l)) \in Nat
    BY <2>1, FS_CardinalityType
  <2> QED
    BY <2>2, MaxInputsAssumption DEF Init
<1> QED
  BY <1>1, <1>2 DEF Init, SplitInv, SplitIdsGrow

LEMMA SplitProcess ==
  ASSUME SplitInv, Process
  PROVE  SplitInv'
<1> DEFINE l == Head(queue)
<1>1. /\ l \notin processed /\ Parents(l) \subseteq processed
      /\ splitId' = [splitId EXCEPT ![l] = AssignSplitId(l)]
      /\ processed' = processed \cup {l}
      /\ UNCHANGED <<edges, selected>>
  BY DEF Process, IsReadyForSplitAssignment
<1>2. /\ edges' \subseteq {e \in Layers \X Layers : e[1] < e[2]}
      /\ \A k \in Layers : Parents(k)' = Parents(k)
  BY <1>1 DEF SplitInv, Parents
<1>3. l \in Layers =>
        /\ AssignSplitId(l) \in Nat
        /\ \A p \in Parents(l) :
             /\ splitId[p] <= AssignSplitId(l)
             /\ (p \in selected) # (l \in selected) => splitId[p] < AssignSplitId(l)
  <2> SUFFICES ASSUME l \in Layers PROVE <1>3!2
    OBVIOUS
  <2>1. CASE Parents(l) = {}
    BY <2>1, SourceHasIdZero
  <2>2. CASE Parents(l) # {}
    <3>1. IsFiniteSet(Parents(l))
      BY ParentsAreFinite
    <3>2. \E a \in Parents(l), b \in Parents(l) : Parents(l) = {a, b}
      BY <2>2, <3>1, InPair DEF SplitInv
    <3>3. PICK a \in Layers, b \in Layers : Parents(l) = {a, b}
      BY <3>2 DEF Parents
    <3> QED
      BY <3>3, AssignedIdGrows DEF SplitInv
  <2> QED
    BY <2>1, <2>2
<1>4. splitId' \in [Layers -> Nat]
  BY <1>1, <1>3 DEF SplitInv
<1>5. \A p, c \in Layers : <<p, c>> \in edges' /\ c \in processed' => p \in processed'
  BY <1>1 DEF SplitInv, Parents
<1>6. SplitIdsGrow'
  <2> SUFFICES ASSUME NEW p \in processed', NEW c \in processed', <<p, c>> \in edges'
               PROVE  /\ splitId'[p] <= splitId'[c]
                      /\ (p \in selected') # (c \in selected') => splitId'[p] < splitId'[c]
    BY DEF SplitIdsGrow
  <2>1. p \in Layers /\ c \in Layers /\ p # c
    BY <1>2 DEF Layers
  <2>2. <<p, c>> \in edges
    BY <1>1
  <2>3. CASE c = l
    <3>1. p \in Parents(l)
      BY <2>1, <2>2, <2>3 DEF Parents
    <3>2. splitId'[p] = splitId[p] /\ splitId'[c] = AssignSplitId(l)
      BY <1>1, <2>1, <2>3 DEF SplitInv
    <3> QED
      BY <1>1, <1>3, <2>1, <2>3, <3>1, <3>2
  <2>4. CASE c # l
    <3>1. c \in processed /\ p \in processed /\ p # l
      BY <1>1, <2>1, <2>2, <2>4 DEF SplitInv
    <3>2. splitId'[p] = splitId[p] /\ splitId'[c] = splitId[c]
      BY <1>1, <2>1, <2>4, <3>1 DEF SplitInv
    <3> QED
      BY <1>1, <2>2, <3>1, <3>2 DEF SplitInv, SplitIdsGrow
  <2> QED
    BY <2>3, <2>4
<1> QED
  BY <1>2, <1>4, <1>5, <1>6 DEF SplitInv

LEMMA SplitNext ==
  ASSUME SplitInv, [Next]_vars
  PROVE  SplitInv'
<1>1. CASE Process
  BY <1>1, SplitProcess
<1>2. CASE UNCHANGED <<edges, selected, splitId, processed>>
  BY <1>2 DEF SplitInv, SplitIdsGrow, Parents
<1> QED
  BY <1>1, <1>2 DEF Next, Skip, Postpone, Finished, vars

(* SubgraphViewSelector::AssignSplitId: over a graph of any size whose     *)
(* layers have at most two inputs, with any selection, the split id never  *)
(* decreases along a connection and grows where the selection changes.     *)
THEOREM SplitIdsGrowAlways == MaxInputs <= 2 /\ Spec => []SplitIdsGrow
<1>1. MaxInputs <= 2 /\ Init => SplitInv
  BY SplitInit
<1>2. SplitInv /\ [Next]_vars => SplitInv'
  BY SplitNext
<1>3. SplitInv => SplitIdsGrow
  BY DEF SplitInv
<1> QED
  BY <1>1, <1>2, <1>3, PTL DEF Spec

----------------------------------------------------------------------------
(* The work queue.                                                         *)

(* The order in which the children are queued names all of them.           *)
LEMMA SetToSeqHasAll ==
  ASSUME NEW S \in SUBSET Layers
  PROVE  /\ SetToSeq(S) \in Seq(Layers)
         /\ \A x \in S : \E i \in 1 .. Len(SetToSeq(S)) : SetToSeq(S)[i] = x
<1> DEFINE D == 1 .. Cardinality(S)
           q == SetToSeq(S)
<1>1. IsFiniteSet(S)
  <2>1. IsFiniteSet(Layers)
    BY NAssumption, FS_Interval DEF Layers
  <2> QED
    BY <2>1, FS_Subset
<1>2. Cardinality(S) \in Nat /\ ExistsBijection(D, S)
  BY <1>1, FS_CardinalityType
<1>3. IsFiniteSet(D) /\ Cardinality(D) = Cardinality(S)
  BY <1>2, FS_Interval
<1>4. \E f \in [D -> S] : IsInjective(f)
  BY <1>2 DEF ExistsBijection, Bijection, Injection
<1>5. q \in [D -> S] /\ IsInjective(q)
  BY <1>4 DEF SetToSeq
<1>6. q \in Injection(D, S)
  BY <1>5 DEF Injection
<1>7. q \in Surjection(D, S)
  BY <1>1, <1>3, <1>6, FS_Injection
<1>8. q \in Seq(Layers) /\ Len(q) = Cardinality(S)
  BY <1>2, <1>5
<1> QED
  BY <1>7, <1>8 DEF Surjection

LEMMA HasLeast ==
  ASSUME NEW S \in SUBSET Nat, S # {}
  PROVE  \E m \in S : \A s \in S : m <= s
<1>1. \E m \in S : \A s \in S : <<s, m>> \notin OpToRel(<, Nat)
  BY NatLessThanWellFounded, WFMin
<1>2. PICK m \in S : \A s \in S : <<s, m>> \notin OpToRel(<, Nat)
  BY <1>1
<1>3. \A s \in S : ~(s < m)
  BY <1>2, Zenon DEF OpToRel
<1> QED
  BY <1>3

LEMMA LayersAreNat == Layers \subseteq Nat
BY NAssumption DEF Layers

InQueue(l) == \E i \in 1 .. Len(queue) : queue[i] = l

(* That nothing is forgotten is not inductive either: a layer that is not  *)
(* processed is in the queue, or all of its parents are yet to be          *)
(* processed, the last of which will queue it.                             *)
QueueInv ==
  /\ SplitInv
  /\ selected \subseteq Layers
  /\ queue \in Seq(Layers)
  /\ \A l \in Layers \ processed :
       InQueue(l) \/ (Parents(l) # {} /\ Parents(l) \cap processed = {})

LEMMA QueueInit ==
  ASSUME MaxInputs <= 2, Init
  PROVE  QueueInv
<1> DEFINE S == {l \in Layers : Parents(l) = {}}
<1>1. SplitInv
  BY SplitInit
<1>2. /\ SetToSeq(S) \in Seq(Layers)
      /\ \A x \in S : \E i \in 1 .. Len(SetToSeq(S)) : SetToSeq(S)[i] = x
  BY SetToSeqHasAll
<1> QED
  BY <1>1, <1>2 DEF Init, QueueInv, InQueue

LEMMA QueueSkip ==
  ASSUME QueueInv, Skip
  PROVE  QueueInv'
<1>1. SplitInv'
  BY SplitNext DEF QueueInv, Next
<1>2. queue' \in Seq(Layers) /\ \A l \in Layers \ processed : InQueue(l) => InQueue(l)'
  <2>1. Len(queue') = Len(queue) - 1 /\ \A i \in 1 .. Len(queue') : queue'[i] = queue[i + 1]
    BY DEF QueueInv, Skip
  <2>2. ASSUME NEW l \in Layers \ processed, InQueue(l)
        PROVE  InQueue(l)'
    <3>1. PICK i \in 1 .. Len(queue) : queue[i] = l
      BY <2>2 DEF InQueue
    <3>2. i # 1
      BY <3>1 DEF QueueInv, Skip
    <3>3. i - 1 \in 1 .. Len(queue') /\ queue'[i - 1] = l
      BY <2>1, <3>1, <3>2 DEF QueueInv
    <3> QED
      BY <3>3 DEF InQueue
  <2> QED
    BY <2>2 DEF QueueInv, Skip
<1> QED
  BY <1>1, <1>2 DEF QueueInv, Skip, Parents

LEMMA QueuePostpone ==
  ASSUME QueueInv, Postpone
  PROVE  QueueInv'
<1>1. SplitInv'
  BY SplitNext DEF QueueInv, Next
<1>2. queue' \in Seq(Layers) /\ \A l \in Layers : InQueue(l) => InQueue(l)'
  <2>1. /\ Len(queue') = Len(queue)
        /\ \A i \in 1 .. Len(queue) - 1 : queue'[i] = queue[i + 1]
        /\ queue'[Len(queue)] = queue[1]
        /\ Len(queue) \in Nat \ {0}
    BY DEF QueueInv, Postpone
  <2>2. ASSUME NEW l \in Layers, InQueue(l)
        PROVE  InQueue(l)'
    <3>1. PICK i \in 1 .. Len(queue) : queue[i] = l
      BY <2>2 DEF InQueue
    <3>2. CASE i = 1
      BY <2>1, <3>1, <3>2 DEF InQueue
    <3>3. CASE i # 1
      <4>1. i - 1 \in 1 .. Len(queue') /\ queue'[i - 1] = l
        BY <2>1, <3>1, <3>3
      <4> QED
        BY <4>1 DEF InQueue
    <3> QED
      BY <3>2, <3>3
  <2> QED
    BY <2>2 DEF QueueInv, Postpone
<1> QED
  BY <1>1, <1>2 DEF QueueInv, Postpone, Parents

LEMMA QueueProcess ==
  ASSUME QueueInv, Process
  PROVE  QueueInv'
<1> DEFINE h == Head(queue)
           t == Tail(queue)
           q == SetToSeq(Children(h))
<1>1. SplitInv'
  BY SplitNext DEF QueueInv, Next
<1>2. /\ queue \in Seq(Layers) /\ queue # <<>> /\ h \in Layers
      /\ t \in Seq(Layers) /\ queue' = t \o q
      /\ processed' = processed \cup {h} /\ UNCHANGED <<edges, selected>>
  BY DEF QueueInv, Process, QueueAfter
<1>3. q \in Seq(Layers) /\ \A x \in Children(h) : \E i \in 1 .. Len(q) : q[i] = x
  <2>1. Children(h) \in SUBSET Layers
    BY DEF Children
  <2> QED
    BY <2>1, SetToSeqHasAll
<1>4. queue' \in Seq(Layers)
  BY <1>2, <1>3
<1>5. /\ Len(queue') = Len(queue) - 1 + Len(q)
      /\ \A i \in 1 .. Len(queue) - 1 : queue'[i] = queue[i + 1]
      /\ \A i \in 1 .. Len(q) : queue'[Len(queue) - 1 + i] = q[i]
      /\ Len(queue) \in Nat \ {0} /\ Len(q) \in Nat
  BY <1>2, <1>3
<1>6. ASSUME NEW l \in Layers, l # h, InQueue(l)
      PROVE  InQueue(l)'
  <2>1. PICK i \in 1 .. Len(queue) : queue[i] = l
    BY <1>6 DEF InQueue
  <2>2. i # 1
    BY <1>2, <1>6, <2>1
  <2>3. i - 1 \in 1 .. Len(queue') /\ queue'[i - 1] = l
    BY <1>5, <2>1, <2>2
  <2> QED
    BY <2>3 DEF InQueue
<1>7. ASSUME NEW l \in Children(h)
      PROVE  InQueue(l)'
  <2>1. PICK i \in 1 .. Len(q) : q[i] = l
    BY <1>3
  <2>2. Len(queue) - 1 + i \in 1 .. Len(queue') /\ queue'[Len(queue) - 1 + i] = l
    BY <1>5, <2>1
  <2> QED
    BY <2>2 DEF InQueue
<1>8. ASSUME NEW l \in Layers \ processed'
      PROVE  InQueue(l)' \/ (Parents(l)' # {} /\ Parents(l)' \cap processed' = {})
  <2>1. Parents(l)' = Parents(l) /\ l \notin processed /\ l # h
    BY <1>2 DEF Parents
  <2>2. CASE InQueue(l)
    BY <1>6, <2>1, <2>2
  <2>3. CASE h \in Parents(l)
    BY <1>7, <2>3 DEF Parents, Children
  <2>4. CASE ~InQueue(l) /\ h \notin Parents(l)
    BY <1>2, <2>1, <2>4 DEF QueueInv
  <2> QED
    BY <2>2, <2>3, <2>4
<1> QED
  BY <1>1, <1>2, <1>4, <1>8 DEF QueueInv

LEMMA QueueNext ==
  ASSUME QueueInv, [Next]_vars
  PROVE  QueueInv'
<1>1. CASE UNCHANGED vars
  BY <1>1, SplitNext DEF QueueInv, InQueue, Parents, vars
<1> QED
  BY <1>1, QueueSkip, QueuePostpone, QueueProcess DEF Next, Finished

(* The first layer that is not processed is queued, and can be.            *)
LEMMA FirstIsReady ==
  ASSUME QueueInv, ~(Layers \subseteq processed)
  PROVE  \E l \in Layers : InQueue(l) /\ IsReadyForSplitAssignment(l)
<1>1. PICK m \in Layers \ processed : \A s \in Layers \ processed : m <= s
  <2>1. Layers \ processed \in SUBSET Nat /\ Layers \ processed # {}
    BY LayersAreNat
  <2> QED
    BY <2>1, HasLeast
<1>2. Parents(m) \subseteq processed
  <2> SUFFICES ASSUME NEW p \in Parents(m), p \notin processed PROVE FALSE
    OBVIOUS
  <2>1. p \in Layers /\ p < m
    BY <1>1 DEF Parents, QueueInv, SplitInv
  <2> QED
    BY <1>1, <2>1, LayersAreNat
<1>3. InQueue(m)
  BY <1>1, <1>2 DEF QueueInv
<1> QED
  BY <1>1, <1>2, <1>3 DEF IsReadyForSplitAssignment

LEMMA AllProcessed ==
  ASSUME QueueInv, queue = <<>>
  PROVE  Layers \subseteq processed
BY FirstIsReady DEF InQueue

(* SelectSubgraphs comes to its end: in a graph of any size the queue       *)
(* never holds only layers that are postponed, and no layer is left out of  *)
(* it.  What is postponed or skipped in between changes nothing else.       *)
THEOREM QueueGoesOn == MaxInputs <= 2 /\ Spec => []QueueRunsDry
<1>1. MaxInputs <= 2 /\ Init => QueueInv
  BY QueueInit
<1>2. QueueInv /\ [Next]_vars => QueueInv'
  BY QueueNext
<1>3. ASSUME QueueInv PROVE QueueRunsDry
  <2>1. ASSUME queue # <<>>
        PROVE  \E l \in ToSet(queue) : l \in processed \/ IsReadyForSplitAssignment(l)
    <3>1. CASE Layers \subseteq processed
      <4>1. Head(queue) \in Layers /\ Head(queue) \in ToSet(queue)
        BY <1>3, <2>1 DEF QueueInv, ToSet
      <4> QED
        BY <3>1, <4>1
    <3>2. CASE ~(Layers \subseteq processed)
      <4>1. PICK l \in Layers : InQueue(l) /\ IsReadyForSplitAssignment(l)
        BY <1>3, <3>2, FirstIsReady
      <4>2. l \in ToSet(queue)
        BY <1>3, <4>1 DEF QueueInv, InQueue, ToSet
      <4> QED
        BY <4>1, <4>2
    <3> QED
      BY <3>1, <3>2
  <2> QED
    BY <1>3, <2>1, AllProcessed DEF QueueRunsDry
<1> QED
  BY <1>1, <1>2, <1>3, PTL DEF Spec

----------------------------------------------------------------------------
(* The result.                                                             *)

LEMMA IdsGrowInTheEnd ==
  ASSUME QueueInv, queue = <<>>, NEW e \in edges
  PROVE  /\ e[1] \in Layers /\ e[2] \in Layers /\ e[1] < e[2]
         /\ splitId[e[1]] \in Nat /\ splitId[e[2]] \in Nat
         /\ splitId[e[1]] <= splitId[e[2]]
         /\ (e[1] \in selected) # (e[2] \in selected) => splitId[e[1]] < splitId[e[2]]
<1>1. e = <<e[1], e[2]>> /\ e[1] \in Layers /\ e[2] \in Layers /\ e[1] < e[2]
  BY DEF QueueInv, SplitInv
<1>2. e[1] \in processed /\ e[2] \in processed
  BY <1>1, AllProcessed
<1> QED
  BY <1>1, <1>2 DEF QueueInv, SplitInv, SplitIdsGrow

(* A subgraph gets every slot that crosses its boundary, whatever its      *)
(* shape: a layer outside a subgraph never has the subgraph's split id on  *)
(* the other side of a connection (CollectNonSelectedInputs).              *)
THEOREM BoundariesComplete == MaxInputs <= 2 /\ Spec => []BoundaryComplete
<1>1. MaxInputs <= 2 /\ Init => QueueInv
  BY QueueInit
<1>2. QueueInv /\ [Next]_vars => QueueInv'
  BY QueueNext
<1>3. QueueInv => BoundaryComplete
  BY IdsGrowInTheEnd DEF BoundaryComplete, CollectedInputs, CollectedOutputs, Subgraph
<1> QED
  BY <1>1, <1>2, <1>3, PTL DEF Spec

(* The node of a layer has its split id and is selected with it, and the   *)
(* selected layers of one split id are one node.                           *)
LEMMA NodeOfLayer ==
  ASSUME QueueInv, NEW l \in Layers
  PROVE  /\ NodeOf(l) \in Layers
         /\ splitId[NodeOf(l)] = splitId[l]
         /\ l \notin selected => NodeOf(l) = l
         /\ l \in selected => NodeOf(l) = MinOf(Subgraph(splitId[l]))
<1>1. CASE l \notin selected
  BY <1>1 DEF NodeOf
<1>2. CASE l \in selected
  <2> DEFINE S == Subgraph(splitId[l])
  <2>1. S \in SUBSET Nat /\ S # {}
    BY <1>2, LayersAreNat DEF Subgraph, QueueInv
  <2>2. MinOf(S) \in S
    BY <2>1, HasLeast DEF MinOf
  <2> QED
    BY <1>2, <2>2 DEF NodeOf, Subgraph, QueueInv
<1> QED
  BY <1>1, <1>2

(* A connection between two nodes leads to a greater split id, or within   *)
(* one split id between two layers that are not selected, from the earlier *)
(* to the later one.                                                       *)
LEMMA FeedsGrows ==
  ASSUME QueueInv, queue = <<>>, NEW a \in Layers, NEW b \in Layers, a # b, Feeds(a, b)
  PROVE  splitId[a] < splitId[b] \/ (splitId[a] = splitId[b] /\ a < b)
<1>1. PICK e \in edges : NodeOf(e[1]) = a /\ NodeOf(e[2]) = b
  BY DEF Feeds
<1>2. /\ e[1] \in Layers /\ e[2] \in Layers /\ e[1] < e[2]
      /\ splitId[e[1]] \in Nat /\ splitId[e[2]] \in Nat
      /\ splitId[e[1]] <= splitId[e[2]]
      /\ (e[1] \in selected) # (e[2] \in selected) => splitId[e[1]] < splitId[e[2]]
  BY IdsGrowInTheEnd
<1>3. splitId[a] = splitId[e[1]] /\ splitId[b] = splitId[e[2]]
  BY <1>1, <1>2, NodeOfLayer
<1>4. CASE splitId[e[1]] # splitId[e[2]]
  BY <1>2, <1>3, <1>4
<1>5. CASE splitId[e[1]] = splitId[e[2]] /\ e[1] \in selected
  <2>1. e[2] \in selected
    BY <1>2, <1>5
  <2> QED
    BY <1>1, <1>2, <1>5, <2>1, NodeOfLayer
<1>6. CASE splitId[e[1]] = splitId[e[2]] /\ e[1] \notin selected
  <2>1. e[2] \notin selected
    BY <1>2, <1>6
  <2>2. a = e[1] /\ b = e[2]
    BY <1>1, <1>2, <1>6, <2>1, NodeOfLayer
  <2> QED
    BY <1>2, <1>6, <2>2
<1> QED
  BY <1>4, <1>5, <1>6

LEMMA QueueInvNoCycle == QueueInv => NoCyclicSubgraphs
<1> SUFFICES ASSUME QueueInv, queue = <<>>,
                    NEW C \in SUBSET {NodeOf(l) : l \in Layers}, C # {}
             PROVE  \E b \in C : \A a \in C \ {b} : ~Feeds(a, b)
  BY DEF NoCyclicSubgraphs
<1>1. C \subseteq Layers /\ \A c \in C : splitId[c] \in Nat
  BY NodeOfLayer DEF QueueInv, SplitInv
<1>2. PICK m \in {splitId[c] : c \in C} : \A s \in {splitId[c] : c \in C} : m <= s
  <2>1. {splitId[c] : c \in C} \in SUBSET Nat /\ {splitId[c] : c \in C} # {}
    BY <1>1
  <2> QED
    BY <2>1, HasLeast
<1> DEFINE B == {c \in C : splitId[c] = m}
<1>3. PICK b \in B : \A c \in B : b <= c
  <2>1. B \in SUBSET Nat /\ B # {}
    BY <1>1, <1>2, LayersAreNat
  <2> QED
    BY <2>1, HasLeast
<1>4. ASSUME NEW a \in C \ {b}, Feeds(a, b) PROVE FALSE
  <2>1. splitId[a] < splitId[b] \/ (splitId[a] = splitId[b] /\ a < b)
    BY <1>1, <1>3, <1>4, FeedsGrows
  <2>2. m <= splitId[a] /\ splitId[b] = m /\ splitId[a] \in Nat
    BY <1>1, <1>2, <1>3
  <2>3. a \in B /\ a < b
    BY <2>1, <2>2, <1>1
  <2> QED
    BY <1>1, <1>3, <2>3, LayersAreNat
<1> QED
  BY <1>3, <1>4

(* SubgraphViewSelector.cpp:185-188 keeps its promise for layers of at     *)
(* most two inputs: with every subgraph taken as one node, any graph still *)
(* has an execution order.  With three inputs it does not.                 *)
THEOREM NoCycleWithTwoInputs == MaxInputs <= 2 /\ Spec => []NoCyclicSubgraphs
<1>1. MaxInputs <= 2 /\ Init => QueueInv
  BY QueueInit
<1>2. QueueInv /\ [Next]_vars => QueueInv'
  BY QueueNext
<1> QED
  BY <1>1, <1>2, QueueInvNoCycle, PTL DEF Spec
=============================================================================
