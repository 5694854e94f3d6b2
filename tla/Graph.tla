------------------------------- MODULE Graph -------------------------------
(***************************************************************************)
(* armnn::Graph, Layer, InputSlot and OutputSlot (Graph.hpp, Graph.cpp,    *)
(* Layer.hpp, Layer.cpp): the operations on a graph, each as the graph it  *)
(* leaves.  A graph is a record:                                           *)
(*   order     m_Layers, the list of layers                                *)
(*   inOrder   m_LayersInOrder                                             *)
(*   kind, param  the type and the descriptor of a layer                   *)
(*   info      the shape its output slot was given (TensorInfo)            *)
(*   ins       per layer and input slot: InputSlot::m_Connection           *)
(*   outs      per layer: OutputSlot::m_Connections                        *)
(*   prio      per layer: m_Priority, 0 if not known                       *)
(*   backend   per layer: m_BackendId                                      *)
(* A layer stands for its only output slot; an output layer has none.      *)
(***************************************************************************)
EXTENDS Integers, SequencesExt

None == 0

EmptyGraph ==
  [order |-> <<>>, inOrder |-> TRUE, kind |-> <<>>, param |-> <<>>,
   info |-> <<>>, ins |-> <<>>, outs |-> <<>>, prio |-> <<>>, backend |-> <<>>]

LayersOf(g) == DOMAIN g.kind
Parents(g, l) == ToSet(g.ins[l]) \ {None}
IsOutputUnconnected(g, l) == g.kind[l] # "output" /\ g.outs[l] = <<>>
PosInGraph(g, l) == CHOOSE i \in DOMAIN g.order : g.order[i] = l

NumInputs(g) == Cardinality({l \in LayersOf(g) : g.kind[l] = "input"})
NumOutputs(g) == Cardinality({l \in LayersOf(g) : g.kind[l] = "output"})

----------------------------------------------------------------------------
(* Slots.  e is an input slot: a layer and an index.                       *)

(* The sequence s without the elements of S.                               *)
Without(s, S) ==
  LET kept[k \in 0 .. Len(s)] ==
        IF k = 0 THEN <<>>
        ELSE IF s[k] \in S THEN kept[k - 1] ELSE Append(kept[k - 1], s[k])
  IN kept[Len(s)]

Connect(g, s, e) ==
  [g EXCEPT !.ins[e[1]][e[2]] = s, !.outs[s] = Append(@, e)]

Disconnect(g, s, e) ==
  [g EXCEPT !.ins[e[1]][e[2]] = None, !.outs[s] = Without(@, {e})]

(* The readers of s, from the first, are disconnected and read d.          *)
MoveAllConnections(g, s, d) ==
  LET moved == ToSet(g.outs[s]) IN
  [g EXCEPT !.ins = [l \in LayersOf(g) |->
                      [i \in DOMAIN g.ins[l] |-> IF <<l, i>> \in moved THEN d ELSE g.ins[l][i]]],
            !.outs[d] = @ \o g.outs[s],
            !.outs[s] = <<>>]

(* What is left of the connections when those of the slots of S are undone. *)
DisconnectAll(g, S) ==
  [g EXCEPT !.ins = [l \in LayersOf(g) |->
                      [i \in DOMAIN g.ins[l] |-> IF <<l, i>> \in S THEN None ELSE g.ins[l][i]]],
            !.outs = [l \in LayersOf(g) |-> Without(g.outs[l], S)]]

----------------------------------------------------------------------------
(* Layers.  A new layer n goes before position pos, but an input to the    *)
(* back of the inputs, an output to the back of the outputs and any other  *)
(* between the inputs and the outputs.                                     *)

Anywhere(g, pos) == pos  \* mutant

Between(g, pos) ==  \* ForwardToEndOfInputs(RewindToBeginOfOutputs(pos))
  LET first == NumInputs(g) + 1
      last == Len(g.order) - NumOutputs(g) + 1
  IN IF pos > last THEN last ELSE IF pos < first THEN first ELSE pos

NewLayer(g, n, pos, kind, param, numInputs) ==
  LET extend(f, v) == [m \in DOMAIN f \cup {n} |-> IF m = n THEN v ELSE f[m]] IN
  [order |-> InsertAt(g.order, pos, n),
   inOrder |-> g.inOrder,
   kind |-> extend(g.kind, kind),
   param |-> extend(g.param, param),
   info |-> extend(g.info, <<>>),
   ins |-> extend(g.ins, [i \in 1 .. numInputs |-> None]),
   outs |-> extend(g.outs, <<>>),
   prio |-> extend(g.prio, 0),
   backend |-> extend(g.backend, "Undefined")]

AddLayer(g, n, kind, param, numInputs) ==
  LET pos == CASE kind = "input" -> NumInputs(g) + 1
               [] kind = "output" -> Len(g.order) + 1
               [] OTHER -> Len(g.order) - NumOutputs(g) + 1
  IN [NewLayer(g, n, pos, kind, param, numInputs)
        EXCEPT !.inOrder = @ /\ kind \in {"input", "output"}]

(* InsertNewLayer(InputSlot&): after the parent if any, or before the      *)
(* child otherwise; then InputSlot::Insert.  m_LayersInOrder stays.        *)
InsertPosition(g, e) ==
  LET p == g.ins[e[1]][e[2]] IN
  Between(g, IF p # None THEN PosInGraph(g, p) + 1 ELSE PosInGraph(g, e[1]))

InsertNewLayer(g, n, e, kind, param) ==
  LET p == g.ins[e[1]][e[2]]
      h == NewLayer(g, n, InsertPosition(g, e), kind, param, 1)
      linked == [Connect(Disconnect(h, p, e), p, <<n, 1>>) EXCEPT !.info[n] = h.info[p]]
  IN Connect(IF p # None THEN linked ELSE h, n, e)

(* InsertNewLayer(OutputSlot&): the new layer takes all the readers of s.  *)
InsertNewLayerAfter(g, n, s, kind, param) ==
  LET h == NewLayer(g, n, Between(g, PosInGraph(g, s) + 1), kind, param, 1)
  IN Connect(MoveAllConnections(h, s, n), s, <<n, 1>>)

(* ~Layer: its slots disconnect, it leaves the list.                       *)
EraseLayer(g, l) ==
  LET h == DisconnectAll(g, ToSet(g.outs[l]) \cup {<<l, i>> : i \in DOMAIN g.ins[l]})
      keep(f) == [m \in DOMAIN f \ {l} |-> f[m]]
  IN [order |-> Without(h.order, {l}),
      inOrder |-> h.inOrder,
      kind |-> keep(h.kind), param |-> keep(h.param), info |-> keep(h.info),
      ins |-> keep(h.ins), outs |-> keep(h.outs), prio |-> keep(h.prio),
      backend |-> keep(h.backend)]

----------------------------------------------------------------------------
(* Layer::GetPriority keeps what it finds out, for the layer and for those *)
(* before it that it had to ask.                                           *)

InputPriority == 0
OutputPriority(g) == Cardinality(LayersOf(g)) + 1

PriorityOf(g) ==
  LET p[l \in LayersOf(g)] ==
        CASE g.kind[l] = "input" -> InputPriority
          [] g.kind[l] = "output" -> OutputPriority(g)
          [] g.prio[l] # 0 -> g.prio[l]
          [] OTHER -> 1 + Max({p[q] : q \in Parents(g, l)} \cup {0})
  IN p

Asked(g, l) ==  \* GetPriority is called on these when it is called on l
  LET asked[m \in LayersOf(g)] ==
        {m} \cup IF g.kind[m] \in {"input", "output"} \/ g.prio[m] # 0
                 THEN {} ELSE UNION {asked[q] : q \in Parents(g, m)}
  IN asked[l]

GetPriority(g, l) ==
  [g EXCEPT !.prio = Restrict(PriorityOf(g), Asked(g, l)) @@ @]

(* std::list::sort by the priorities p.                                    *)
StableSort(s, p) ==
  LET keys == {<<p[s[i]], i>> : i \in DOMAIN s}
      before(a, b) == a[1] < b[1] \/ (a[1] = b[1] /\ a[2] < b[2])
      key(k) == CHOOSE a \in keys : Cardinality({b \in keys : before(b, a)}) = k - 1
  IN [k \in DOMAIN s |-> s[key(k)[2]]]

TopologicalSort(g) ==
  IF g.inOrder THEN g ELSE
  LET p == PriorityOf([g EXCEPT !.prio = [l \in LayersOf(g) |-> 0]])
  IN [g EXCEPT !.prio = p, !.order = StableSort(@, p), !.inOrder = TRUE]

----------------------------------------------------------------------------
(* Copies between backends, and the substitution of subgraphs.  A view is  *)
(* a record: layers, ins (input slots) and outs (output slots), sequences. *)

MayNeedCopyLayer(g, l) == g.kind[l] # "memCopy"

CopyOnSource(g, src, e) ==  \* mutant
  LET n == 1 + Max(LayersOf(g)) IN
  IF MayNeedCopyLayer(g, e[1]) /\ g.backend[e[1]] # g.backend[src]
  THEN [InsertNewLayer(g, n, e, "memCopy", <<>>) EXCEPT !.backend[n] = g.backend[src]]
  ELSE g

CopyForConnection(g, src, e) ==
  LET n == 1 + Max(LayersOf(g)) IN
  IF MayNeedCopyLayer(g, e[1]) /\ g.backend[e[1]] # g.backend[src]
  THEN [InsertNewLayer(g, n, e, "memCopy", <<>>) EXCEPT !.backend[n] = g.backend[e[1]]]
  ELSE g

AddCopyLayers(g) ==
  LET copyBehind(h, src) ==
        IF MayNeedCopyLayer(h, src)
        THEN FoldLeft(LAMBDA k, e : CopyForConnection(k, src, e), h, h.outs[src])
        ELSE h
  IN FoldLeft(copyBehind, g, g.order)

(* Layer::Reparent to the end of the list, for a layer of another graph.   *)
Reparent(g, n, kind, param, numInputs) ==
  [NewLayer(g, n, Len(g.order) + 1, kind, param, numInputs) EXCEPT !.inOrder = FALSE]

ReplaceInputsOnly(g, view, by) ==  \* mutant
  LET input(h, i) == LET s == h.ins[view.ins[i][1]][view.ins[i][2]]
                     IN Connect(Disconnect(h, s, view.ins[i]), s, by.ins[i])
  IN FoldLeftDomain(input, g, view.ins)

ReplaceInOppositeOrder(g, view, by) ==  \* mutant
  LET input(h, i) == LET s == h.ins[view.ins[i][1]][view.ins[i][2]]
                     IN Connect(Disconnect(h, s, view.ins[i]), s, by.ins[Len(by.ins) + 1 - i])
      output(h, j) == MoveAllConnections(h, view.outs[j], by.outs[j])
  IN FoldLeftDomain(output, FoldLeftDomain(input, g, view.ins), view.outs)

ReplaceSubgraphConnections(g, view, by) ==
  LET input(h, i) == LET s == h.ins[view.ins[i][1]][view.ins[i][2]]
                     IN Connect(Disconnect(h, s, view.ins[i]), s, by.ins[i])
      output(h, j) == MoveAllConnections(h, view.outs[j], by.outs[j])
  IN FoldLeftDomain(output, FoldLeftDomain(input, g, view.ins), view.outs)

EraseSubgraphLayers(g, view) == FoldLeft(EraseLayer, g, view.layers)

(* by: a view of layers that were reparented to the graph g.               *)
SubstituteSubgraph(g, view, by) ==
  TopologicalSort(EraseSubgraphLayers(ReplaceSubgraphConnections(g, view, by), view))

----------------------------------------------------------------------------
(* What a graph should be.                                                 *)

(* An input slot and an output slot agree about their connection.          *)
LinksAgree(g) ==
  /\ \A l \in LayersOf(g) : \A i \in DOMAIN g.ins[l] :
       g.ins[l][i] # None =>
         g.ins[l][i] \in LayersOf(g) /\ Contains(g.outs[g.ins[l][i]], <<l, i>>)
  /\ \A l \in LayersOf(g) : IsInjective(g.outs[l]) /\ \A e \in ToSet(g.outs[l]) :
       e[1] \in LayersOf(g) /\ g.ins[e[1]][e[2]] = l

(* The list starts with the inputs and ends with the outputs: where        *)
(* GetInputLayers and GetOutputLayers look for them.                       *)
InputsFirstOutputsLast(g) ==
  /\ \A i \in 1 .. NumInputs(g) : g.kind[g.order[i]] = "input"
  /\ \A i \in Len(g.order) - NumOutputs(g) + 1 .. Len(g.order) :
       g.kind[g.order[i]] = "output"

(* Every layer comes after the layers it reads.                            *)
TopologicallyOrdered(g) ==
  \A l \in LayersOf(g) : \A p \in Parents(g, l) :
    PosInGraph(g, p) < PosInGraph(g, l)
=============================================================================
