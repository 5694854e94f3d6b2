--------------------------- MODULE OptimizerPass ---------------------------
(***************************************************************************)
(* The first pass of armnn::Optimize over a copy of the user's network:    *)
(* Optimizer::Pass (Optimizer.cpp) walks the graph of Graph.tla from its   *)
(* end to its beginning and runs the optimizations of src/optimizations on *)
(* every layer, while these add, move and erase layers of the list it      *)
(* walks.                                                                  *)
(***************************************************************************)
EXTENDS Optimization

CONSTANTS
  N,       \* bound: layers of the user's network
  Kinds,   \* bound: the kinds of layers in it
  Perms,   \* bound: the permutations of its permute layers
  Shapes   \* the shapes of its reshape layers, and of its inputs

Dims == 1 .. 3  \* bound: the dimensions of every tensor

Size(s) == s[1] * s[2] * s[3]
NumElements == Size(CHOOSE s \in Shapes : TRUE)

ASSUME NAssumption == N \in Nat
ASSUME KindsAssumption ==
  Kinds \subseteq {"input", "activation", "addition", "permute", "reshape",
                   "other", "output"}
ASSUME PermsAssumption ==
  \A p \in Perms : p \in [Dims -> Dims] /\ IsInjective(p)
ASSUME ShapesAssumption ==
  \A s, t \in Shapes : s \in [Dims -> Nat \ {0}] /\ Size(s) = Size(t)

VARIABLES
  graph,   \* the graph being optimized
  phase,   \* "build", "pass", "done"
  it,      \* Optimizer::Pass's iterator: the layer it is at, or None at the end
  opt,     \* the optimization to run on it next, or 0 between two layers
  visited, \* the layers it was at, those since erased left out
  source   \* the user's network

vars == <<graph, phase, it, opt, visited, source>>

Init == /\ graph = EmptyGraph /\ phase = "build" /\ it = None
        /\ opt = 0 /\ visited = {} /\ source = EmptyGraph

----------------------------------------------------------------------------
(* The user's network: layers are added after the layers they read, inputs *)
(* first and outputs last, which is where the list has them either way.    *)

NumInputSlots(kind) == CASE kind = "input" -> 0 [] kind = "addition" -> 2 [] OTHER -> 1

Params(kind) ==
  CASE kind = "permute" -> Perms
    [] kind \in {"reshape", "input"} -> Shapes
    [] OTHER -> {<<>>}

Permuted(s, perm) == [d \in Dims |-> s[CHOOSE i \in Dims : perm[i] = d]]

OutputInfo(g, l) ==  \* the TensorInfo the user gives an output slot
  CASE g.kind[l] \in {"input", "reshape"} -> g.param[l]
    [] g.kind[l] = "permute" -> Permuted(g.info[g.ins[l][1]], g.param[l])
    [] OTHER -> g.info[g.ins[l][1]]

ConnectAll(g, l, from) ==
  LET after[k \in 0 .. Len(from)] ==
        IF k = 0 THEN g ELSE Connect(after[k - 1], from[k], <<l, k>>)
  IN after[Len(from)]

Unread(g) == {l \in LayersOf(g) : IsOutputUnconnected(g, l)}

AddConnectedLayer ==
  /\ phase = "build"
  /\ Cardinality(LayersOf(graph)) < N
  /\ \E kind \in Kinds :
     \E param \in Params(kind), from \in [1 .. NumInputSlots(kind) -> LayersOf(graph)] :
       LET l == Cardinality(LayersOf(graph)) + 1
           g == ConnectAll(AddLayer(graph, l, kind, param, NumInputSlots(kind)), l, from)
       IN
       /\ kind = "input" => NumInputs(graph) = Len(graph.order)
       /\ kind = "output" \/ NumOutputs(graph) = 0
       /\ \A i \in DOMAIN from : graph.kind[from[i]] # "output"
       /\ \A i, j \in DOMAIN from : graph.info[from[i]] = graph.info[from[j]]
       /\ graph' = [g EXCEPT !.info[l] = OutputInfo(g, l)]
       /\ Cardinality(Unread(graph')) <= N - l  \* or some stay unread
  /\ UNCHANGED <<phase, it, opt, visited, source>>

(* auto it = graph.TopologicalSort().end();                                *)
BeginPass ==
  /\ phase = "build"
  /\ LayersOf(graph) # {} /\ Unread(graph) = {}
  /\ graph' = TopologicalSort(graph)
  /\ source' = graph
  /\ phase' = "pass"
  /\ it' = None
  /\ UNCHANGED <<opt, visited>>

----------------------------------------------------------------------------
(* The optimizations.                                                      *)

IsEqual(g, l, m) == g.kind[l] = g.kind[m] /\ g.param[l] = g.param[m]

SquashIntoFirst(g, e) ==  \* mutant
  LET child == e[1]
      squash(h, f) == IF f[1] # child /\ h.kind[f[1]] = h.kind[child]
                      THEN MoveAllConnections(h, f[1], child) ELSE h
  IN IF IsOutputUnconnected(g, child) THEN g
     ELSE FoldLeft(squash, g, g.outs[g.ins[child][1]])

(* Of equal siblings the one of lowest priority takes all the readers.     *)
SquashSibling(a, child, sibling) ==
  LET h == GetPriority(GetPriority(a.g, sibling), a.lowest)
      p == PriorityOf(h)
      lowest == IF p[sibling] < p[a.lowest] THEN sibling ELSE a.lowest
      other == IF lowest = sibling THEN a.lowest ELSE sibling
  IN IF sibling = a.lowest \/ ~IsEqual(a.g, child, sibling) THEN a
     ELSE [g |-> MoveAllConnections(h, other, lowest), lowest |-> lowest]

SquashEqualSiblings(g, e) ==
  LET siblings == g.outs[g.ins[e[1]][1]]
      after[k \in 0 .. Len(siblings)] ==
        IF k = 0 THEN [g |-> g, lowest |-> e[1]]
        ELSE SquashSibling(after[k - 1], e[1], siblings[k][1])
  IN IF IsOutputUnconnected(g, e[1]) THEN g ELSE after[Len(siblings)].g

IsInverse(p, q) == \A i \in Dims : p[q[i]] = i

OptimizeInversePermutes(g, e) ==
  LET base == g.ins[e[1]][1] IN
  IF IsInverse(g.param[e[1]], g.param[base])
  THEN MoveAllConnections(g, e[1], g.ins[base][1]) ELSE g

CanMovePermuteToInputs(g, l) == g.kind[l] \in {"activation", "addition"}

InsertPermuteBefore(g, e, perm) ==
  LET n == New(g)
      h == InsertNewLayer(g, n, e, "permute", perm)
  IN [h EXCEPT !.info[n] = Permuted(h.info[h.ins[n][1]], perm)]

PermuteInputs(g, base, perm) ==
  LET after[k \in 0 .. Len(g.ins[base])] ==
        IF k = 0 THEN g ELSE InsertPermuteBefore(after[k - 1], <<base, k>>, perm)
  IN after[Len(g.ins[base])]

MovePermuteUp(g, e) ==
  LET base == g.ins[e[1]][1]
      h == PermuteInputs(g, base, g.param[e[1]])
  IN IF Len(g.outs[base]) = 1 /\ CanMovePermuteToInputs(g, base)
     THEN MoveAllConnections([h EXCEPT !.info[base] = h.info[e[1]]], e[1], base)
     ELSE g

(* The loop follows the dimensions that are not 1.                         *)
IsReshape(g, l) ==
  LET moved == SelectSeq([i \in Dims |-> g.param[l][i]], LAMBDA d : g.info[l][d] > 1)
  IN \A i \in 1 .. Len(moved) - 1 : moved[i] < moved[i + 1]

PermuteAsReshape(g, l) ==
  LET n == New(g)
      h == InsertNewLayer(g, n, <<l, 1>>, "reshape", g.info[l])
  IN IF g.kind[l] = "permute" /\ IsReshape(g, l)
     THEN MoveAllConnections([h EXCEPT !.info[n] = g.info[l]], l, n) ELSE g

(* The new reshape is inserted before the base, which is then connected to *)
(* its own parent again.                                                   *)
OptimizeConsecutiveReshapes(g, e) ==
  LET base == g.ins[e[1]][1]
      parent == g.ins[base][1]
      n == New(g)
      h == InsertNewLayer(g, n, <<base, 1>>, "reshape", g.info[e[1]])
      k == MoveAllConnections([h EXCEPT !.info[n] = g.info[e[1]]], n, parent)
  IN IF g.info[parent] # g.info[e[1]]
     THEN MoveAllConnections(k, e[1], n)
     ELSE MoveAllConnections(g, e[1], parent)

----------------------------------------------------------------------------
(* Optimizer::Pass.                                                        *)

(* MakeOptimizations of Network.cpp, but FoldPadIntoConvolution2d: there   *)
(* are no pads.                                                            *)
Optimizations == <<"squashPermutes", "squashReshapes", "inversePermutes",
                   "movePermuteUp", "permuteAsReshape", "consecutiveReshapes">>

(* The layers an optimization runs for, and those it is to find behind     *)
(* them.                                                                   *)
BaseKinds(o) ==
  CASE o = "inversePermutes" -> {"permute"}
    [] o = "consecutiveReshapes" -> {"reshape"}
    [] OTHER -> Kinds \cup {"permute", "reshape"}

ChildKind(o) == IF o \in {"squashReshapes", "consecutiveReshapes"} THEN "reshape" ELSE "permute"

Optimize(o, g, e) ==
  CASE o \in {"squashPermutes", "squashReshapes"} -> SquashEqualSiblings(g, e)
    [] o = "inversePermutes" -> OptimizeInversePermutes(g, e)
    [] o = "movePermuteUp" -> MovePermuteUp(g, e)
    [] o = "consecutiveReshapes" -> OptimizeConsecutiveReshapes(g, e)

Run(o, g, l) ==
  IF o = "permuteAsReshape" THEN PermuteAsReshape(g, l)
  ELSE ForConnections(g, l, BaseKinds(o), ChildKind(o), LAMBDA h, e : Optimize(o, h, e))

NextOf(g, l) ==
  IF PosInGraph(g, l) = Len(g.order) THEN None ELSE g.order[PosInGraph(g, l) + 1]

StaysThere(g, l) == g.order[IF l = None THEN Len(g.order) ELSE PosInGraph(g, l)]  \* mutant

Previous(g, l) == g.order[IF l = None THEN Len(g.order) ELSE PosInGraph(g, l) - 1]

(* --it;                                                                   *)
Visit ==
  /\ phase = "pass" /\ opt = 0
  /\ it # graph.order[1]
  /\ it' = Previous(graph, it)
  /\ opt' = 1
  /\ visited' = visited \cup {it'}
  /\ UNCHANGED <<graph, phase, source>>

(* When the layer is erased the iterator goes to the layer behind it.      *)
RunOptimization ==
  /\ opt \in DOMAIN Optimizations
  /\ LET g == Run(Optimizations[opt], graph, it)
         h == EraseIfUnconnected(g, it)
     IN
     /\ graph' = h
     /\ visited' = visited \cap LayersOf(h)
     /\ IF it \in LayersOf(h) THEN it' = it /\ opt' = opt + 1
        ELSE it' = NextOf(g, it) /\ opt' = Len(Optimizations) + 1
  /\ UNCHANGED <<phase, source>>

(* The sort that ends a turn of the loop.                                  *)
EndVisit ==
  /\ opt = Len(Optimizations) + 1
  /\ opt' = 0
  /\ graph' = TopologicalSort(graph)
  /\ UNCHANGED <<phase, it, visited, source>>

EndPass ==
  /\ phase = "pass" /\ opt = 0
  /\ it = graph.order[1]
  /\ phase' = "done"
  /\ UNCHANGED <<graph, it, opt, visited, source>>

Done == phase = "done" /\ UNCHANGED vars

(* A network some layer of which stays unread is not optimized.            *)
NotOptimized == phase = "build" /\ Unread(graph) # {} /\ UNCHANGED vars

Next ==
  \/ AddConnectedLayer \/ BeginPass
  \/ Visit \/ RunOptimization \/ EndVisit \/ EndPass
  \/ Done \/ NotOptimized

Spec == Init /\ [][Next]_vars

(* The pass goes on until it is over: the fairness of its steps, one of    *)
(* which can always be taken in it.                                        *)
PassGoesOn == []<>(phase # "pass") \/ []<><<TRUE>>_vars

FairSpec == Spec /\ PassGoesOn

----------------------------------------------------------------------------
(* What a network computes: the shape of the tensor of every layer, and    *)
(* every element of it, as the term it is of the elements of the inputs.   *)

Index(s, c) == ((c[1] - 1) * s[2] + c[2] - 1) * s[3] + c[3]
Coordinates(s, i) ==
  << (i - 1) \div (s[2] * s[3]) + 1, (((i - 1) \div s[3]) % s[2]) + 1, ((i - 1) % s[3]) + 1 >>

(* Element(g)[l, i]: the ith element of the tensor of layer l.  What a     *)
(* layer of another kind makes of an element depends on where it is.       *)
Shape(g) ==
  LET shape[l \in LayersOf(g)] ==
        CASE g.kind[l] \in {"input", "reshape"} -> g.param[l]
          [] g.kind[l] = "permute" -> Permuted(shape[g.ins[l][1]], g.param[l])
          [] OTHER -> shape[g.ins[l][1]]
  IN shape

MovedFrom(g, l, i) ==  \* the element a permute layer l puts at i
  LET c == Coordinates(Shape(g)[l], i)
  IN Index(Shape(g)[g.ins[l][1]], [d \in Dims |-> c[g.param[l][d]]])

Element(g) ==
  LET x[l \in LayersOf(g), i \in 1 .. NumElements] ==
        LET p == g.ins[l] IN
        CASE g.kind[l] = "input" -> <<l, i>>
          [] g.kind[l] = "activation" -> <<l, x[p[1], i]>>
          [] g.kind[l] = "addition" -> <<l, x[p[1], i], x[p[2], i]>>
          [] g.kind[l] = "other" -> <<l, i, Shape(g)[l], x[p[1], i]>>
          [] g.kind[l] = "permute" -> x[p[1], MovedFrom(g, l, i)]
          [] g.kind[l] \in {"reshape", "output"} -> x[p[1], i]
  IN x

----------------------------------------------------------------------------
(* Properties                                                              *)

(* While layers are inserted, moved and erased under the iterator, the     *)
(* list holds each layer once, every link is known at both of its ends,    *)
(* every input slot stays connected and the inputs and outputs stay where  *)
(* they are looked for; and no layer the iterator was at gets before it,   *)
(* where it goes next.  The pass leaves no layer that nothing reads: its   *)
(* tensor would be given a lifetime that never ends (TensorPlan).          *)
WellFormed ==
  /\ ToSet(graph.order) = LayersOf(graph) /\ IsInjective(graph.order)
  /\ LinksAgree(graph)
  /\ InputsFirstOutputsLast(graph)
  /\ \A l \in LayersOf(graph) : None \notin ToSet(graph.ins[l])
  /\ \A l \in visited : it # None /\ PosInGraph(graph, it) <= PosInGraph(graph, l)
  /\ phase = "done" => Unread(graph) = {}

(* The optimized network computes what the user's network computes: each   *)
(* output the same elements, in the same order and shape; and the          *)
(* TensorInfo of every output slot is the shape of what it computes.       *)
SameFunction ==
  phase = "done" =>
    /\ \A l \in LayersOf(source) : source.kind[l] = "output" =>
         /\ l \in LayersOf(graph) /\ Shape(graph)[l] = Shape(source)[l]
         /\ \A i \in 1 .. NumElements : Element(graph)[l, i] = Element(source)[l, i]
    /\ \A l \in LayersOf(graph) : graph.info[l] = Shape(graph)[l]

(* New layers are inserted "so layers don't need to be re-sorted"          *)
(* (PermuteAsReshape.hpp:26): a list said to be in order is in order.      *)
OrderKept == phase = "done" /\ graph.inOrder => TopologicallyOrdered(graph)

(* The iterator goes to no layer twice, whatever is inserted before it and *)
(* erased under it: no optimization runs again on a layer it has left.     *)
NoLayerTwice == [][Visit => it' \notin visited]_vars

(* The pass comes to an end although it inserts layers before the one it   *)
(* is at, where it goes next.                                              *)
PassEnds == (phase = "pass") ~> (phase = "done")
=============================================================================
