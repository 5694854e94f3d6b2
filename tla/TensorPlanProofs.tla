--------------------------- MODULE TensorPlanProofs ---------------------------
(* The handles of a loaded network, whatever its layers are: when what a   *)
(* merger reads through sub-tensors is read by nothing else, no handle in  *)
(* use is a view of a destroyed one, and when besides nothing that was     *)
(* split is merged, a workload that does nothing has nothing to do.        *)
EXTENDS TensorPlan, FiniteSetTheorems, SequenceTheorems, TLAPS

----------------------------------------------------------------------------
(* The network: a layer reads slots of earlier layers, as many as its kind *)
(* has inputs, and the layers are sorted by their priorities.              *)

NumInputs(kind) ==
  CASE kind \in {"input", "constant"} -> 0 [] kind = "merger" -> 2 [] OTHER -> 1

AllKinds == {"input", "constant", "unary", "splitter", "merger", "output"}

LayerTypes ==
  [kind : AllKinds, ins : Seq(Nat \X Nat), sub : BOOLEAN, prio : 0 .. N + 1]

IsLayer(g, l) ==
  /\ g[l].ins \in Seq(Nat \X Nat) /\ Len(g[l].ins) = NumInputs(g[l].kind)
  /\ \A i \in 1 .. NumInputs(g[l].kind) :
       /\ g[l].ins[i][1] \in 1 .. l - 1
       /\ g[l].ins[i][2] \in 1 .. NumOutputs(g[g[l].ins[i][1]].kind)
  /\ g[l].sub => SubTensors /\ g[l].kind \in {"splitter", "merger"}

IsSorted(g) ==
  /\ \A k \in 1 .. Len(g), l \in 1 .. Len(g) : k <= l => g[k].prio <= g[l].prio
  /\ \A l \in 1 .. Len(g) :
       /\ g[l].kind = "input" => g[l].prio = 0
       /\ g[l].kind = "output" => g[l].prio = N + 1
       /\ g[l].kind \notin {"input", "output"} => g[l].prio \in 1 .. l

IsNet(g) ==
  /\ g \in Seq(LayerTypes) /\ Len(g) <= N
  /\ \A l \in 1 .. Len(g) : IsLayer(g, l)
  /\ IsSorted(g) /\ KeepsPromises(g)

LEMMA LayerFields ==
  ASSUME NEW g \in Seq(LayerTypes), NEW l \in 1 .. Len(g)
  PROVE  g[l].kind \in AllKinds /\ g[l].sub \in BOOLEAN /\ g[l].prio \in Int
<1>1. g[l] \in LayerTypes
  OBVIOUS
<1>2. g[l].prio \in 0 .. N + 1 /\ N \in Nat
  BY <1>1, NAssumption DEF LayerTypes
<1> QED
  BY <1>1, <1>2 DEF LayerTypes

LEMMA NumOutputsIs ==
  /\ \A kind : NumOutputs(kind) \in 0 .. 2
  /\ NumOutputs("output") = 0 /\ NumOutputs("splitter") = 2
  /\ \A kind \in AllKinds \ {"output", "splitter"} : NumOutputs(kind) = 1
BY DEF NumOutputs, AllKinds

LEMMA SlotIs ==
  ASSUME NEW g \in Seq(LayerTypes), NEW s
  PROVE  s \in SlotsOf(g) <=> /\ s = <<s[1], s[2]>> /\ s[1] \in 1 .. Len(g)
                              /\ s[2] \in 1 .. NumOutputs(g[s[1]].kind)
BY NumOutputsIs DEF SlotsOf

LEMMA ConnectionIs ==
  ASSUME NEW g, IsNet(g), NEW s, NEW e
  PROVE  e \in Connections(g, s) <=> /\ e = <<e[1], e[2]>> /\ e[1] \in 1 .. Len(g)
                                     /\ e[2] \in 1 .. NumInputs(g[e[1]].kind)
                                     /\ g[e[1]].ins[e[2]] = s
<1>1. \A l \in 1 .. Len(g) : Len(g[l].ins) = NumInputs(g[l].kind) /\ NumInputs(g[l].kind) \in 0 .. 2
  BY DEF IsNet, IsLayer, NumInputs
<1> QED
  BY <1>1 DEF Connections

LEMMA PriorityIs ==
  ASSUME IsNet(net), Len(net) < N, NEW kind \in AllKinds, NEW ins \in Seq(Slots), Len(ins) <= 2
  PROVE  /\ kind = "input" => Priority(net, kind, ins) = 0
         /\ kind = "output" => Priority(net, kind, ins) = N + 1
         /\ kind \notin {"input", "output"} => Priority(net, kind, ins) \in 1 .. Len(net) + 1
<1> DEFINE prio(i) == net[ins[i][1]].prio
           IsP(p) == p \in {prio(i) : i \in DOMAIN ins} \cup {0} /\ \A i \in DOMAIN ins : prio(i) <= p
<1>1. \A i \in DOMAIN ins : prio(i) \in 0 .. Len(net)
  <2> TAKE i \in DOMAIN ins
  <2>1. ins[i] \in Slots /\ net \in Seq(LayerTypes)
    BY DEF IsNet
  <2>2. ins[i][1] \in 1 .. Len(net) /\ NumOutputs(net[ins[i][1]].kind) # 0
    BY <2>1, SlotIs, NumOutputsIs DEF Slots
  <2>3. net[ins[i][1]].kind # "output"
    BY <2>2, NumOutputsIs
  <2> QED
    BY <2>1, <2>2, <2>3 DEF IsNet, IsSorted
<1>2. \E p \in 0 .. Len(net) : IsP(p)
  <2>1. Len(ins) \in 0 .. 2 /\ Len(net) \in Nat
    <3>1. Len(ins) \in Nat
      OBVIOUS
    <3>2. net \in Seq(LayerTypes)
      BY DEF IsNet
    <3>3. Len(net) \in Nat
      BY <3>2
    <3>4. Len(ins) <= 2
      OBVIOUS
    <3>5. \A n \in Nat : n <= 2 => n \in 0 .. 2
      OBVIOUS
    <3>6. Len(ins) \in 0 .. 2
      BY <3>1, <3>4, <3>5
    <3> QED
      BY <3>3, <3>6
  <2>2. CASE Len(ins) = 0
    BY <2>1, <2>2
  <2>3. CASE Len(ins) = 1
    <3>1. IsP(prio(1))
      BY <1>1, <2>3
    <3> QED
      BY <1>1, <2>3, <3>1
  <2>4. CASE Len(ins) = 2 /\ prio(1) <= prio(2)
    <3>1. IsP(prio(2))
      BY <1>1, <2>4
    <3> QED
      BY <1>1, <2>4, <3>1
  <2>5. CASE Len(ins) = 2 /\ ~(prio(1) <= prio(2))
    <3>1. IsP(prio(1))
      BY <1>1, <2>5
    <3> QED
      BY <1>1, <2>5, <3>1
  <2> QED
    BY <2>1, <2>2, <2>3, <2>4, <2>5
<1>3. Len(net) \in Nat /\ N \in Nat
  BY NAssumption DEF IsNet
<1>4. \E p \in 0 .. N : IsP(p)
  BY <1>2, <1>3
<1>5. IsP(CHOOSE p \in 0 .. N : IsP(p))
  BY <1>4
<1>6. \A p : IsP(p) => p \in 0 .. Len(net)
  BY <1>1, <1>3
<1>7. (CHOOSE p \in 0 .. N : IsP(p)) \in 0 .. Len(net)
  BY <1>5, <1>6
<1>8. ASSUME kind \notin {"input", "output"}
      PROVE  Priority(net, kind, ins) = 1 + (CHOOSE p \in 0 .. N : IsP(p))
  BY <1>8 DEF Priority
<1> QED
  BY <1>3, <1>7, <1>8 DEF Priority

(* A layer that reads slots of the network can be put behind it.           *)
LEMMA NetGrows ==
  ASSUME IsNet(net), Len(net) < N, NEW layer,
         layer = [kind |-> layer.kind, ins |-> layer.ins, sub |-> layer.sub, prio |-> layer.prio],
         layer.kind \in AllKinds, layer.ins \in Seq(Slots), Len(layer.ins) = NumInputs(layer.kind),
         layer.sub \in BOOLEAN, layer.sub => SubTensors /\ layer.kind \in {"splitter", "merger"},
         layer.prio = Priority(net, layer.kind, layer.ins),
         \A l \in Layers : net[l].prio <= layer.prio,
         KeepsPromises(Append(net, layer))
  PROVE  IsNet(Append(net, layer))
<1> DEFINE g == Append(net, layer)
           new == Len(net) + 1
<1>1. net \in Seq(LayerTypes) /\ Len(net) \in Nat /\ N \in Nat /\ NumInputs(layer.kind) \in 0 .. 2
      /\ \A l \in 1 .. Len(net) : IsLayer(net, l)
  BY NAssumption DEF IsNet, NumInputs
<1>2. layer.prio \in 0 .. N + 1
  BY <1>1, PriorityIs
<1>3. \A i \in DOMAIN layer.ins : /\ layer.ins[i] = <<layer.ins[i][1], layer.ins[i][2]>> /\ layer.ins[i][1] \in 1 .. Len(net)
                            /\ layer.ins[i][2] \in 1 .. NumOutputs(net[layer.ins[i][1]].kind)
  BY <1>1, SlotIs DEF Slots
<1>4. layer.ins \in Seq(Nat \X Nat)
  <2>1. \A s \in Slots : s \in Nat \X Nat
    BY <1>1, NumOutputsIs, SlotIs DEF Slots
  <2> QED
    BY <2>1
<1>5. layer \in LayerTypes
  BY <1>2, <1>4 DEF LayerTypes
<1>6. g \in Seq(LayerTypes) /\ Len(g) = new /\ g[new] = layer /\ \A l \in 1 .. Len(net) : g[l] = net[l]
  BY <1>1, <1>5
<1> HIDE DEF g
<1>7. ASSUME NEW l \in 1 .. Len(net)
      PROVE  IsLayer(g, l)
  <2>1. IsLayer(net, l) /\ g[l] = net[l] /\ l \in Nat /\ NumInputs(net[l].kind) \in 0 .. 2
    BY <1>1, <1>6 DEF NumInputs
  <2>2. \A i \in 1 .. NumInputs(net[l].kind) : g[net[l].ins[i][1]] = net[net[l].ins[i][1]]
    <3> TAKE i \in 1 .. NumInputs(net[l].kind)
    <3>1. net[l].ins[i][1] \in 1 .. l - 1
      BY <2>1 DEF IsLayer
    <3>2. net[l].ins[i][1] \in 1 .. Len(net)
      BY <1>1, <3>1
    <3> QED
      BY <1>6, <3>2
  <2> QED
    BY <2>1, <2>2 DEF IsLayer
<1>8. IsLayer(g, new)
  BY <1>1, <1>3, <1>4, <1>6 DEF IsLayer
<1>9. IsSorted(g)
  <2>1. \A l \in 1 .. Len(net) : net[l].prio <= layer.prio /\ net[l].prio \in Int /\ layer.prio \in Int
    BY <1>1, <1>2, LayerFields DEF Layers
  <2>2. ASSUME NEW k \in 1 .. new, NEW l \in 1 .. new, k <= l
        PROVE  g[k].prio <= g[l].prio
    <3>1. CASE l = new
      <4>1. k = new \/ k \in 1 .. Len(net)
        BY <1>1
      <4> QED
        BY <1>6, <2>1, <3>1, <4>1, <1>2
    <3>2. CASE l # new
      <4>1. k \in 1 .. Len(net) /\ l \in 1 .. Len(net)
        BY <1>1, <2>2, <3>2
      <4> QED
        BY <1>6, <2>2, <4>1 DEF IsNet, IsSorted
    <3> QED
      BY <3>1, <3>2
  <2>3. /\ layer.kind = "input" => layer.prio = 0
        /\ layer.kind = "output" => layer.prio = N + 1
        /\ layer.kind \notin {"input", "output"} => layer.prio \in 1 .. new
    BY <1>1, PriorityIs
  <2>4. \A l \in 1 .. new :
          /\ g[l].kind = "input" => g[l].prio = 0
          /\ g[l].kind = "output" => g[l].prio = N + 1
          /\ g[l].kind \notin {"input", "output"} => g[l].prio \in 1 .. l
    BY <1>1, <1>6, <2>3 DEF IsNet, IsSorted
  <2> QED
    BY <1>6, <2>2, <2>4 DEF IsSorted
<1> QED
  BY <1>1, <1>6, <1>7, <1>8, <1>9 DEF IsNet, g

(* What is read when a layer is loaded, and what the promises add to it.   *)
NetInv ==
  /\ IsNet(net)
  /\ phase # "build" => Unread(net) = {}

LEMMA NetInit == Init => NetInv
<1> SUFFICES ASSUME Init PROVE NetInv
  OBVIOUS
<1>1. net = <<>> /\ phase = "build" /\ N \in Nat
  BY NAssumption DEF Init
<1> QED
  BY <1>1 DEF NetInv, IsNet, IsSorted, KeepsPromises

LEMMA NetAddLayer ==
  ASSUME NetInv, AddLayer
  PROVE  NetInv'
<1>1. phase' = "build" /\ Len(net) < N /\ IsNet(net)
  BY DEF AddLayer, NetInv
<1>2. PICK x \in Shapes :
        /\ x[1] \in Kinds
        /\ \A l \in Layers : net[l].prio <= Priority(net, x[1], x[2])
        /\ net' = Append(net, [kind |-> x[1], ins |-> x[2], sub |-> x[3], prio |-> Priority(net, x[1], x[2])])
        /\ KeepsPromises(net')
  BY DEF AddLayer
<1>3. x[1] \in AllKinds
  BY <1>2, KindsAssumption DEF AllKinds
<1>4. /\ x[2] \in Seq(Slots) /\ Len(x[2]) = NumInputs(x[1])
      /\ x[3] \in BOOLEAN /\ (x[3] => SubTensors /\ x[1] \in {"splitter", "merger"})
  <2>1. \/ x[1] \in {"input", "constant"} /\ x[2] = <<>> /\ x[3] = FALSE
        \/ x[1] \in {"unary", "output"} /\ (\E s \in Slots : x[2] = <<s>>) /\ x[3] = FALSE
        \/ x[1] = "splitter" /\ (\E s \in Slots : x[2] = <<s>>) /\ x[3] \in {FALSE, SubTensors}
        \/ x[1] = "merger" /\ x[2] \in Slots \X Slots /\ x[3] \in {FALSE, SubTensors}
    BY <1>2 DEF Shapes
  <2>2. \A s \in Slots : <<s>> \in Seq(Slots) /\ Len(<<s>>) = 1
    OBVIOUS
  <2>3. \A p \in Slots \X Slots : p \in Seq(Slots) /\ Len(p) = 2
    <3> TAKE p \in Slots \X Slots
    <3>1. p = <<p[1], p[2]>> /\ p[1] \in Slots /\ p[2] \in Slots
      OBVIOUS
    <3>2. <<p[1], p[2]>> \in Seq(Slots) /\ Len(<<p[1], p[2]>>) = 2
      BY <3>1
    <3> QED
      BY <3>1, <3>2
  <2>4. x[2] \in Seq(Slots) /\ Len(x[2]) = NumInputs(x[1])
    <3>1. NumInputs("input") = 0 /\ NumInputs("constant") = 0 /\ NumInputs("unary") = 1 /\ NumInputs("output") = 1
          /\ NumInputs("splitter") = 1 /\ NumInputs("merger") = 2
      BY DEF NumInputs
    <3>2. <<>> \in Seq(Slots) /\ Len(<<>>) = 0
      OBVIOUS
    <3> QED
      BY <2>1, <2>2, <2>3, <3>1, <3>2, Zenon
  <2>5. x[3] \in BOOLEAN /\ (x[3] => SubTensors /\ x[1] \in {"splitter", "merger"})
    BY <2>1, SubTensorsAssumption
  <2> QED
    BY <2>4, <2>5
<1>5. IsNet(net')
  <2> DEFINE layer == [kind |-> x[1], ins |-> x[2], sub |-> x[3], prio |-> Priority(net, x[1], x[2])]
  <2>1. /\ layer = [kind |-> layer.kind, ins |-> layer.ins, sub |-> layer.sub, prio |-> layer.prio]
        /\ layer.kind = x[1] /\ layer.ins = x[2] /\ layer.sub = x[3] /\ layer.prio = Priority(net, x[1], x[2])
    OBVIOUS
  <2> HIDE DEF layer
  <2>2. \A l \in Layers : net[l].prio <= layer.prio
    BY <1>2, <2>1
  <2>3. KeepsPromises(Append(net, layer)) /\ net' = Append(net, layer)
    BY <1>2 DEF layer
  <2>4. IsNet(Append(net, layer))
    BY <1>1, <1>3, <1>4, <2>1, <2>2, <2>3, NetGrows
  <2> QED
    BY <2>3, <2>4
<1> QED
  BY <1>1, <1>5 DEF NetInv

LEMMA UsesDangling ==
  ASSUME NEW slots, NEW ACTION next, UseDangling(slots, next)
  PROVE  \/ (\E s \in slots : Dangling(data[s])) /\ phase' = "undefined" /\ UNCHANGED <<net, cur, handleVars, planVars>>
         \/ (\A s \in slots : ~Dangling(data[s])) /\ next
BY DEF UseDangling

LEMMA NetStep ==
  ASSUME NetInv, [Next]_vars
  PROVE  NetInv'
<1>1. CASE AddLayer
  BY <1>1, NetAddLayer
<1>2. CASE Load
  BY <1>2 DEF Load, NetInv
<1>3. CASE CreateTensorHandles \/ SubstituteInputs \/ CreateWorkloads
  BY <1>3 DEF CreateTensorHandles, SubstituteInputs, CreateWorkloads, NetInv
<1>4. CASE AllocateConstants
  BY <1>4 DEF AllocateConstants, UseDangling, NetInv
<1>5. CASE ManageOutputs
  BY <1>5 DEF ManageOutputs, UseDangling, NetInv
<1>6. CASE ReleaseInputs
  BY <1>6 DEF ReleaseInputs, UseDangling, NetInv
<1>7. CASE UNCHANGED vars
  BY <1>7 DEF vars, NetInv
<1> QED
  BY <1>1, <1>2, <1>3, <1>4, <1>5, <1>6, <1>7 DEF Next, NotLoaded, Done

LEMMA NetIs ==
  ASSUME IsNet(net)
  PROVE  /\ net \in Seq(LayerTypes) /\ Len(net) \in Nat /\ N \in Nat /\ Len(net) <= N /\ Layers = 1 .. Len(net)
         /\ \A l \in 1 .. Len(net) : net[l].kind \in AllKinds /\ IsLayer(net, l)
<1>1. net \in Seq(LayerTypes) /\ N \in Nat
  BY NAssumption DEF IsNet
<1> QED
  BY <1>1, LayerFields DEF IsNet, Layers

(* Inputs are connected to slots of the network.                           *)
LEMMA InputIsSlot ==
  ASSUME IsNet(net), NEW l \in 1 .. Len(net), NEW i \in 1 .. NumInputs(net[l].kind)
  PROVE  net[l].ins[i] \in Slots /\ net[l].ins[i][1] \in 1 .. l - 1 /\ <<l, i>> \in Connections(net, net[l].ins[i])
<1>1. IsLayer(net, l) /\ net \in Seq(LayerTypes) /\ Len(net) \in Nat
  BY NetIs
<1>2. net[l].ins[i] \in Nat \X Nat /\ net[l].ins[i][1] \in 1 .. l - 1
      /\ net[l].ins[i][2] \in 1 .. NumOutputs(net[net[l].ins[i][1]].kind)
  <2>1. net[l].ins \in Seq(Nat \X Nat) /\ Len(net[l].ins) = NumInputs(net[l].kind)
    BY <1>1 DEF IsLayer
  <2>2. net[l].ins[i] \in Nat \X Nat
    BY <2>1
  <2> QED
    BY <1>1, <2>2, Zenon DEF IsLayer
<1>3. net[l].ins[i] \in Slots
  <2>1. net[l].ins[i] = <<net[l].ins[i][1], net[l].ins[i][2]>>
    BY <1>2
  <2>2. net[l].ins[i][1] \in 1 .. Len(net)
    BY <1>1, <1>2
  <2> QED
    BY <1>1, <1>2, <2>1, <2>2, SlotIs, Zenon DEF Slots
<1> QED
  BY <1>2, <1>3, ConnectionIs

----------------------------------------------------------------------------
(* The handles that are made.                                              *)

HandleTypes == [view : Nat, parent : Nat, ancestors : SUBSET Nat]

LEMMA SetDataIs ==
  ASSUME handles \in Seq(HandleTypes), data \in [Slots -> 0 .. Len(handles)],
         NEW slots \in Seq(Slots), NEW new \in Seq(HandleTypes), Len(new) = Len(slots),
         \A i \in 1 .. Len(slots), j \in 1 .. Len(slots) : slots[i] = slots[j] => i = j,
         SetData(slots, new)
  PROVE  /\ handles' \in Seq(HandleTypes) /\ Len(handles') = Len(handles) + Len(slots)
         /\ \A h \in 1 .. Len(handles) : handles'[h] = handles[h]
         /\ \A i \in 1 .. Len(slots) : handles'[Len(handles) + i] = new[i]
         /\ data' \in [Slots -> 0 .. Len(handles')]
         /\ \A i \in 1 .. Len(slots) : data'[slots[i]] = Len(handles) + i
         /\ \A s \in Slots : (\A i \in 1 .. Len(slots) : slots[i] # s) => data'[s] = data[s]
         /\ freed' = freed \cup ({data[slots[i]] : i \in 1 .. Len(slots)} \ {0})
<1> DEFINE at(s) == {i \in DOMAIN slots : slots[i] = s}
           last(s) == CHOOSE i \in at(s) : \A j \in at(s) : j <= i
<1>1. handles' = handles \o new /\ Len(handles) \in Nat /\ Len(slots) \in Nat /\ DOMAIN slots = 1 .. Len(slots)
  BY DEF SetData
<1>2. /\ handles' \in Seq(HandleTypes) /\ Len(handles') = Len(handles) + Len(slots)
      /\ \A h \in 1 .. Len(handles) : handles'[h] = handles[h]
      /\ \A i \in 1 .. Len(slots) : handles'[Len(handles) + i] = new[i]
  <2>1. handles \o new \in Seq(HandleTypes) /\ Len(handles \o new) = Len(handles) + Len(new)
    <3>1. handles \in Seq(HandleTypes) /\ new \in Seq(HandleTypes)
      OBVIOUS
    <3>2. handles \o new \in Seq(HandleTypes)
      BY <3>1, ConcatProperties, Zenon
    <3>3. Len(handles \o new) = Len(handles) + Len(new)
      BY ONLY <3>1, Z3
    <3> QED
      BY <3>2, <3>3
  <2>2. \A h \in 1 .. Len(handles) + Len(new) :
          (handles \o new)[h] = IF h <= Len(handles) THEN handles[h] ELSE new[h - Len(handles)]
    BY ConcatProperties
  <2>3. ASSUME NEW i \in 1 .. Len(slots)
        PROVE  (handles \o new)[Len(handles) + i] = new[i]
    <3>1. Len(handles) + i \in 1 .. Len(handles) + Len(new) /\ ~(Len(handles) + i <= Len(handles)) /\ Len(handles) + i - Len(handles) = i
      BY <1>1
    <3> QED
      BY <2>2, <3>1
  <2>4. \A h \in 1 .. Len(handles) : (handles \o new)[h] = handles[h]
    BY <1>1, <2>2
  <2> QED
    BY <1>1, <2>1, <2>3, <2>4
<1>3. \A i \in 1 .. Len(slots) : at(slots[i]) = {i}
  BY <1>1
<1>4. \A i \in 1 .. Len(slots) : last(slots[i]) = i
  BY <1>1, <1>3
<1>5. \A s \in Slots : (\A i \in 1 .. Len(slots) : slots[i] # s) => at(s) = {}
  BY <1>1
<1>6. data' = [s \in Slots |-> IF at(s) = {} THEN data[s] ELSE Len(handles) + last(s)]
  BY DEF SetData
<1>7. {Len(handles) + i : i \in DOMAIN slots} \ {Len(handles) + last(s) : s \in {slots[i] : i \in DOMAIN slots}} = {}
  <2>1. ASSUME NEW i \in DOMAIN slots
        PROVE  Len(handles) + i \in {Len(handles) + last(s) : s \in {slots[j] : j \in DOMAIN slots}}
    <3>1. last(slots[i]) = i
      BY <1>1, <1>4
    <3> HIDE DEF last
    <3> QED
      BY <3>1
  <2> HIDE DEF last
  <2> QED
    BY <2>1
<1>8. freed' = freed \cup ({Len(handles) + i : i \in DOMAIN slots} \ {Len(handles) + last(s) : s \in {slots[i] : i \in DOMAIN slots}})
                    \cup ({data[slots[i]] : i \in DOMAIN slots} \ {0})
  BY DEF SetData
<1> HIDE DEF at, last
<1>9. \A i \in 1 .. Len(slots) : slots[i] \in Slots /\ data'[slots[i]] = Len(handles) + i
  <2> TAKE i \in 1 .. Len(slots)
  <2>1. slots[i] \in Slots
    BY <1>1
  <2>2. at(slots[i]) # {} /\ last(slots[i]) = i
    BY <1>3, <1>4
  <2> QED
    BY <1>6, <2>1, <2>2
<1>10. \A s \in Slots : (\A i \in 1 .. Len(slots) : slots[i] # s) => data'[s] = data[s]
  BY <1>5, <1>6
<1>11. ASSUME NEW s \in Slots
       PROVE  data'[s] \in 0 .. Len(handles')
  <2>1. CASE \E i \in 1 .. Len(slots) : slots[i] = s
    BY <1>1, <1>2, <1>9, <2>1
  <2>2. CASE \A i \in 1 .. Len(slots) : slots[i] # s
    <3>1. data'[s] = data[s] /\ data[s] \in 0 .. Len(handles)
      BY <1>10, <2>2
    <3> QED
      BY <1>1, <1>2, <3>1
  <2> QED
    BY <2>1, <2>2
<1>12. data' \in [Slots -> 0 .. Len(handles')]
  BY <1>6, <1>11
<1> QED
  BY <1>1, <1>2, <1>7, <1>8, <1>9, <1>10, <1>12

----------------------------------------------------------------------------
(* The invariant of the handles.                                           *)

Made == IF phase = "build" THEN 0 ELSE IF phase = "handles" THEN cur - 1 ELSE Len(net)

Elements(q) == {q[i] : i \in 1 .. Len(q)}

Queued == Elements(mergers)

Phases == {"build", "handles", "constants", "outputs", "inputs", "ready", "undefined"}

HandlesTyped ==
  /\ phase \in Phases
  /\ phase = "build" => handles = <<>> /\ cur = 1 /\ freed = {} /\ skipped = {}
  /\ phase = "handles" => cur \in 1 .. Len(net) + 1 /\ skipped = {}
  /\ phase # "handles" => mergers = <<>>
  /\ mergers \in Seq(Nat) /\ \A m \in Queued : m \in 1 .. Made /\ net[m].kind = "merger"
  /\ handles \in Seq(HandleTypes)
  /\ phase # "build" => data \in [Slots -> 0 .. Len(handles)]
  /\ freed \subseteq 1 .. Len(handles)

(* The handles are a forest, in the order in which they were made.         *)
Forest ==
  \A h \in 1 .. Len(handles) :
    \/ handles[h].parent = 0 /\ handles[h].ancestors = {}
    \/ /\ handles[h].parent \in 1 .. h - 1
       /\ handles[h].ancestors = handles[handles[h].parent].ancestors \cup {handles[h].parent}

(* The layers that have handles each have their own, and those still exist.*)
DataIsCurrent ==
  phase # "build" =>
    /\ \A s \in Slots : data[s] # 0 <=> s[1] <= Made
    /\ \A s \in Slots : data[s] \notin freed
    /\ \A s \in Slots, t \in Slots : data[s] = data[t] /\ data[s] # 0 => s = t

SubMerger(m) == m \in 1 .. Made /\ net[m].kind = "merger" /\ net[m].sub
SubSplitter(l) == l \in 1 .. Made /\ net[l].kind = "splitter" /\ net[l].sub

Merged(s) == \E m \in 1 .. Made : SubMerger(m) /\ \E i \in 1 .. 2 : net[m].ins[i] = s

InPlace(part, whole, i) ==
  handles[data[part]].parent = data[whole] /\ handles[data[part]].view = i

(* A merger whose inputs are not views of its output, though they could be,*)
(* is still to be visited; a splitter's outputs are views of its input     *)
(* unless a merger has taken them; all else is no view.                    *)
ViewsInPlace ==
  phase # "build" =>
    /\ \A m \in 1 .. Made : SubMerger(m) /\ m \notin Queued => \A i \in 1 .. 2 : InPlace(net[m].ins[i], <<m, 1>>, i)
    /\ \A l \in 1 .. Made : SubSplitter(l) =>
         \A i \in 1 .. 2 : Merged(<<l, i>>) \/ InPlace(<<l, i>>, net[l].ins[1], i)
    /\ \A s \in Slots : s[1] <= Made /\ ~SubSplitter(s[1]) /\ ~Merged(s) => handles[data[s]].parent = 0

HandleInv == NetInv /\ HandlesTyped /\ Forest /\ DataIsCurrent /\ ViewsInPlace

LEMMA HandleInit == Init => HandleInv
<1> SUFFICES ASSUME Init PROVE HandleInv
  OBVIOUS
<1>1. phase = "build" /\ handles = <<>> /\ mergers = <<>> /\ cur = 1 /\ freed = {} /\ skipped = {}
  BY DEF Init
<1>2. HandlesTyped
  BY <1>1 DEF HandlesTyped, Phases, Queued, Elements
<1>3. Forest /\ DataIsCurrent /\ ViewsInPlace
  BY <1>1 DEF Forest, DataIsCurrent, ViewsInPlace
<1> QED
  BY <1>2, <1>3, NetInit DEF HandleInv

(* What a merger reads through sub-tensors, nothing else reads.            *)
LEMMA OneReader ==
  ASSUME "ExclusiveViews" \in Promises, IsNet(net),
         NEW m \in 1 .. Len(net), net[m].kind = "merger", net[m].sub, NEW i \in 1 .. 2,
         NEW l \in 1 .. Len(net), NEW j \in 1 .. NumInputs(net[l].kind), net[l].ins[j] = net[m].ins[i]
  PROVE  l = m /\ j = i
<1> DEFINE E == Connections(net, net[m].ins[i])
<1>1. NumInputs(net[m].kind) = 2
  BY DEF NumInputs
<1>2. <<m, i>> \in E /\ <<l, j>> \in E
  BY <1>1, InputIsSlot
<1>3. Cardinality(E) = 1
  BY DEF IsNet, KeepsPromises
<1>4. IsFiniteSet(E)
  <2>1. IsFiniteSet((1 .. Len(net)) \X (1 .. 2))
    <3>1. Len(net) \in Int /\ 1 \in Int /\ 2 \in Int
      BY NetIs
    <3>2. IsFiniteSet(1 .. Len(net)) /\ IsFiniteSet(1 .. 2)
      BY <3>1, FS_Interval
    <3> QED
      BY <3>2, FS_Product
  <2> QED
    BY <2>1, FS_Subset DEF Connections
<1>5. \E e : E = {e}
  BY <1>3, <1>4, FS_Singleton
<1>6. <<m, i>> = <<l, j>>
  BY <1>2, <1>5
<1> QED
  BY <1>6

(* A step that makes no handles and leaves the network as it is.           *)
handlesAt == <<net, phase, cur, handleVars>>

LEMMA HandleAddLayer ==
  ASSUME HandleInv, AddLayer
  PROVE  HandleInv'
<1>1. NetInv'
  BY NetStep DEF HandleInv, Next
<1>2. phase = "build" /\ phase' = "build" /\ UNCHANGED <<cur, handleVars>>
  BY DEF AddLayer
<1>3. HandlesTyped'
  BY <1>2 DEF HandleInv, HandlesTyped, handleVars, Queued, Elements, Made
<1>4. Forest' /\ DataIsCurrent' /\ ViewsInPlace'
  BY <1>2 DEF HandleInv, Forest, DataIsCurrent, ViewsInPlace, handleVars
<1> QED
  BY <1>1, <1>3, <1>4 DEF HandleInv

LEMMA HandleLoad ==
  ASSUME HandleInv, Load
  PROVE  HandleInv'
<1>1. NetInv'
  BY NetStep DEF HandleInv, Next
<1>2. /\ phase' = "handles" /\ cur' = cur /\ cur = 1 /\ data' = [s \in Slots |-> 0]
      /\ handles = <<>> /\ mergers = <<>> /\ freed = {} /\ skipped = {} /\ IsNet(net)
      /\ UNCHANGED <<net, mergers, handles, freed, skipped>>
  BY DEF Load, HandleInv, HandlesTyped, NetInv
<1>3. Slots' = Slots /\ Made' = 0 /\ Len(net) \in Nat
  BY <1>2, NetIs DEF Slots, Made
<1>4. HandlesTyped'
  BY <1>2, <1>3 DEF HandlesTyped, Queued, Elements, Phases
<1>5. Forest'
  BY <1>2 DEF Forest
<1>6. \A s \in Slots : s[1] \in 1 .. Len(net)
  BY <1>2, NetIs, SlotIs DEF Slots
<1>7. DataIsCurrent'
  BY <1>2, <1>3, <1>6 DEF DataIsCurrent
<1>8. ViewsInPlace'
  BY <1>2, <1>3, <1>6 DEF ViewsInPlace
<1> QED
  BY <1>1, <1>4, <1>5, <1>7, <1>8 DEF HandleInv

LEMMA OwnSlotsAre ==
  ASSUME IsNet(net), NEW l \in 1 .. Len(net)
  PROVE  /\ OwnSlots(l) \in Seq(Slots) /\ Len(OwnSlots(l)) = NumOutputs(net[l].kind)
         /\ \A i \in 1 .. NumOutputs(net[l].kind) : OwnSlots(l)[i] = <<l, i>>
         /\ \A s \in Slots : s[1] = l <=> \E i \in 1 .. NumOutputs(net[l].kind) : s = <<l, i>>
<1>1. NumOutputs(net[l].kind) \in Nat
  BY NumOutputsIs
<1>2. \A s : s \in Slots <=> /\ s = <<s[1], s[2]>> /\ s[1] \in 1 .. Len(net)
                             /\ s[2] \in 1 .. NumOutputs(net[s[1]].kind)
  BY NetIs, SlotIs DEF Slots
<1>3. \A i \in 1 .. NumOutputs(net[l].kind) : <<l, i>> \in Slots
  BY <1>2
<1> QED
  BY <1>1, <1>2, <1>3 DEF OwnSlots

LEMMA ViewTypes ==
  ASSUME handles \in Seq(HandleTypes), NEW p \in 1 .. Len(handles), NEW i \in Nat
  PROVE  /\ SubTensorHandle(p, i) \in HandleTypes
         /\ SubTensorHandle(p, i).view = i /\ SubTensorHandle(p, i).parent = p
         /\ SubTensorHandle(p, i).ancestors = handles[p].ancestors \cup {p}
<1>1. handles[p] \in HandleTypes /\ p \in Nat
  OBVIOUS
<1>2. handles[p].ancestors \in SUBSET Nat
  BY <1>1 DEF HandleTypes
<1> QED
  BY <1>1, <1>2 DEF SubTensorHandle, HandleTypes

LEMMA TensorTypes ==
  TensorHandle \in HandleTypes /\ TensorHandle.parent = 0 /\ TensorHandle.ancestors = {}
BY DEF TensorHandle, HandleTypes

(* Handles that are added to the forest are part of it.                    *)
LEMMA ForestGrows ==
  ASSUME Forest, handles \in Seq(HandleTypes), handles' \in Seq(HandleTypes), Len(handles') >= Len(handles),
         \A h \in 1 .. Len(handles) : handles'[h] = handles[h],
         \A h \in Len(handles) + 1 .. Len(handles') :
           \/ handles'[h].parent = 0 /\ handles'[h].ancestors = {}
           \/ /\ handles'[h].parent \in 1 .. Len(handles)
              /\ handles'[h].ancestors = handles[handles'[h].parent].ancestors \cup {handles'[h].parent}
  PROVE  Forest'
<1>1. Len(handles) \in Nat /\ Len(handles') \in Nat
  OBVIOUS
<1> SUFFICES ASSUME NEW h \in 1 .. Len(handles')
             PROVE  \/ handles'[h].parent = 0 /\ handles'[h].ancestors = {}
                    \/ /\ handles'[h].parent \in 1 .. h - 1
                       /\ handles'[h].ancestors = handles'[handles'[h].parent].ancestors \cup {handles'[h].parent}
  BY DEF Forest
<1>2. CASE h \in 1 .. Len(handles)
  <2>1. handles'[h] = handles[h]
    BY <1>2
  <2>2. CASE handles[h].parent = 0 /\ handles[h].ancestors = {}
    BY <2>1, <2>2
  <2>3. CASE /\ handles[h].parent \in 1 .. h - 1
             /\ handles[h].ancestors = handles[handles[h].parent].ancestors \cup {handles[h].parent}
    <3>1. handles[h].parent \in 1 .. Len(handles)
      BY <1>1, <1>2, <2>3
    <3> QED
      BY <2>1, <2>3, <3>1
  <2> QED
    BY <1>2, <2>2, <2>3 DEF Forest
<1>3. CASE h \in Len(handles) + 1 .. Len(handles')
  <2>1. CASE handles'[h].parent = 0 /\ handles'[h].ancestors = {}
    BY <2>1
  <2>2. CASE /\ handles'[h].parent \in 1 .. Len(handles)
             /\ handles'[h].ancestors = handles[handles'[h].parent].ancestors \cup {handles'[h].parent}
    <3>1. handles'[h].parent \in 1 .. h - 1
      BY <1>1, <1>3, <2>2
    <3> QED
      BY <2>2, <3>1
  <2> QED
    BY <1>3, <2>1, <2>2
<1> QED
  BY <1>1, <1>2, <1>3

LEMMA HandleCreate ==
  ASSUME HandleInv, CreateTensorHandles
  PROVE  HandleInv'
<1> DEFINE n == NumOutputs(net[cur].kind)
           views == net[cur].kind = "splitter" /\ net[cur].sub
           new == IF views THEN [i \in 1 .. n |-> SubTensorHandle(data[net[cur].ins[1]], i)]
                           ELSE [i \in 1 .. n |-> TensorHandle]
           have == Len(handles)
<1>1. /\ phase = "handles" /\ phase' = "handles" /\ net' = net /\ cur' = cur + 1 /\ skipped' = skipped
      /\ mergers = <<>> /\ cur \in 1 .. Len(net) /\ Len(net) \in Nat /\ IsNet(net) /\ n \in Nat /\ have \in Nat
  <2>1. IsNet(net) /\ Len(net) \in Nat
    BY NetIs DEF HandleInv, NetInv
  <2>2. have \in Nat
    BY DEF HandleInv, HandlesTyped
  <2> QED
    BY <2>1, <2>2, NumOutputsIs DEF CreateTensorHandles, HandleInv, HandlesTyped
<1>2. /\ handles \in Seq(HandleTypes) /\ data \in [Slots -> 0 .. have] /\ freed \subseteq 1 .. have
      /\ Slots' = Slots /\ Made = cur - 1 /\ Made' = cur
  BY <1>1 DEF HandleInv, HandlesTyped, Slots, Made
<1>3. /\ \A s \in Slots : data[s] # 0 <=> s[1] <= cur - 1
      /\ \A s \in Slots : data[s] \notin freed
      /\ \A s \in Slots, t \in Slots : data[s] = data[t] /\ data[s] # 0 => s = t
  BY <1>1, <1>2 DEF HandleInv, DataIsCurrent
<1>4. /\ OwnSlots(cur) \in Seq(Slots) /\ Len(OwnSlots(cur)) = n
      /\ \A i \in 1 .. n : OwnSlots(cur)[i] = <<cur, i>>
      /\ \A s \in Slots : s[1] = cur <=> \E i \in 1 .. n : s = <<cur, i>>
  BY <1>1, OwnSlotsAre
<1>5. \A s \in Slots : s[1] \in 1 .. Len(net)
  BY <1>1, NetIs, SlotIs DEF Slots
<1>6. ASSUME views
      PROVE  /\ net[cur].ins[1] \in Slots /\ net[cur].ins[1][1] \in 1 .. cur - 1
             /\ data[net[cur].ins[1]] \in 1 .. have
  <2>1. NumInputs(net[cur].kind) = 1
    BY <1>6 DEF NumInputs
  <2>2. net[cur].ins[1] \in Slots /\ net[cur].ins[1][1] \in 1 .. cur - 1
    <3>1. 1 \in 1 .. NumInputs(net[cur].kind)
      BY <2>1
    <3> QED
      BY <1>1, <3>1, InputIsSlot
  <2>3. data[net[cur].ins[1]] # 0
    BY <1>1, <1>3, <2>2
  <2> QED
    BY <1>1, <1>2, <2>2, <2>3
<1>7. /\ \A i \in 1 .. n : new[i] = IF views THEN SubTensorHandle(data[net[cur].ins[1]], i) ELSE TensorHandle
      /\ new \in Seq(HandleTypes) /\ Len(new) = n
  <2>1. \A i \in 1 .. n : new[i] = IF views THEN SubTensorHandle(data[net[cur].ins[1]], i) ELSE TensorHandle
    OBVIOUS
  <2>2. ASSUME NEW i \in 1 .. n
        PROVE  new[i] \in HandleTypes
    <3>1. i \in Nat
      BY <1>1
    <3> QED
      BY <1>2, <1>6, <2>1, <3>1, ViewTypes, TensorTypes
  <2>3. DOMAIN new = 1 .. n /\ new = [i \in 1 .. n |-> new[i]]
    OBVIOUS
  <2> HIDE DEF new
  <2>4. new \in [1 .. n -> HandleTypes]
    BY <2>2, <2>3
  <2> QED
    BY <1>1, <2>1, <2>3, <2>4
<1>8. SetData(OwnSlots(cur), new)
  <2>1. DOMAIN OwnSlots(cur) = 1 .. n
    BY <1>1, <1>4
  <2>2. CASE views
    BY <2>1, <2>2 DEF CreateTensorHandles, ViewsOfInput
  <2>3. CASE ~views
    BY <2>1, <2>3 DEF CreateTensorHandles, OwnHandles
  <2> QED
    BY <2>2, <2>3
<1> HIDE DEF new
<1>9. \A i \in 1 .. n, j \in 1 .. n : OwnSlots(cur)[i] = OwnSlots(cur)[j] => i = j
  BY <1>4
<1>10. /\ handles' \in Seq(HandleTypes) /\ Len(handles') = have + n
       /\ \A h \in 1 .. have : handles'[h] = handles[h]
       /\ \A i \in 1 .. n : handles'[have + i] = new[i]
       /\ data' \in [Slots -> 0 .. Len(handles')]
       /\ \A i \in 1 .. n : data'[OwnSlots(cur)[i]] = have + i
       /\ \A s \in Slots : (\A i \in 1 .. n : OwnSlots(cur)[i] # s) => data'[s] = data[s]
       /\ freed' = freed \cup ({data[OwnSlots(cur)[i]] : i \in 1 .. n} \ {0})
  <2> DEFINE slots == OwnSlots(cur)
  <2>1. slots \in Seq(Slots) /\ Len(new) = Len(slots) /\ Len(slots) = n
        /\ \A i \in 1 .. Len(slots), j \in 1 .. Len(slots) : slots[i] = slots[j] => i = j
    BY <1>4, <1>7, <1>9
  <2>2. SetData(slots, new)
    BY <1>8
  <2>3. PICK sl, made : sl = slots /\ made = new
    OBVIOUS
  <2>4. /\ sl \in Seq(Slots) /\ made \in Seq(HandleTypes) /\ Len(made) = Len(sl)
        /\ \A i \in 1 .. Len(sl), j \in 1 .. Len(sl) : sl[i] = sl[j] => i = j
    BY <1>7, <2>1, <2>3
  <2>5. SetData(sl, made)
    BY <2>2, <2>3
  <2> HIDE DEF slots
  <2>6. /\ handles' \in Seq(HandleTypes) /\ Len(handles') = Len(handles) + Len(sl)
        /\ \A h \in 1 .. Len(handles) : handles'[h] = handles[h]
        /\ \A i \in 1 .. Len(sl) : handles'[Len(handles) + i] = made[i]
        /\ data' \in [Slots -> 0 .. Len(handles')]
        /\ \A i \in 1 .. Len(sl) : data'[sl[i]] = Len(handles) + i
        /\ \A s \in Slots : (\A i \in 1 .. Len(sl) : sl[i] # s) => data'[s] = data[s]
        /\ freed' = freed \cup ({data[sl[i]] : i \in 1 .. Len(sl)} \ {0})
    BY <1>2, <2>4, <2>5, SetDataIs
  <2> QED
    BY <2>1, <2>3, <2>6 DEF slots
<1>11. /\ \A i \in 1 .. n : <<cur, i>> \in Slots /\ data'[<<cur, i>>] = have + i
       /\ \A s \in Slots : s[1] # cur => data'[s] = data[s]
       /\ freed' = freed
  <2>1. \A i \in 1 .. n : <<cur, i>> \in Slots /\ data[<<cur, i>>] = 0
    <3> TAKE i \in 1 .. n
    <3>1. OwnSlots(cur)[i] \in Slots
      BY <1>4
    <3>2. <<cur, i>> \in Slots
      BY <1>4, <3>1
    <3> QED
      BY <1>1, <1>3, <3>2
  <2>2. {data[OwnSlots(cur)[i]] : i \in 1 .. n} \ {0} = {}
    BY <1>4, <2>1
  <2>3. freed' = freed
    BY <1>10, <2>2
  <2>4. \A i \in 1 .. n : data'[<<cur, i>>] = have + i
    BY <1>4, <1>10
  <2>5. ASSUME NEW s \in Slots, s[1] # cur
        PROVE  data'[s] = data[s]
    <3>1. \A i \in 1 .. n : OwnSlots(cur)[i] # s
      BY <1>4, <2>5
    <3> QED
      BY <1>10, <3>1
  <2> QED
    BY <2>1, <2>3, <2>4, <2>5
<1>12. NetInv'
  BY NetStep DEF HandleInv, Next
<1>13. HandlesTyped'
  <2>1. mergers' = <<>> \/ (net[cur].kind = "merger" /\ mergers' = <<cur>>)
    BY DEF CreateTensorHandles
  <2>2. mergers' \in Seq(Nat) /\ \A q \in 1 .. Len(mergers') : mergers'[q] = cur /\ net[cur].kind = "merger"
    <3>1. cur \in Nat
      BY <1>1
    <3>2. <<cur>> \in Seq(Nat) /\ Len(<<cur>>) = 1 /\ <<cur>>[1] = cur
      BY <3>1
    <3>3. <<>> \in Seq(Nat) /\ Len(<<>>) = 0
      OBVIOUS
    <3>4. CASE mergers' = <<>>
      BY <3>3, <3>4
    <3>5. CASE net[cur].kind = "merger" /\ mergers' = <<cur>>
      BY <3>2, <3>5
    <3> QED
      BY <2>1, <3>4, <3>5
  <2>3. \A m \in Queued' : m \in 1 .. cur /\ net[m].kind = "merger"
    <3>1. cur \in 1 .. cur
      BY <1>1
    <3> QED
      BY <2>2, <3>1 DEF Queued, Elements
  <2>4. freed' \subseteq 1 .. Len(handles')
    BY <1>1, <1>2, <1>10, <1>11
  <2>5. skipped' = {}  /\ cur + 1 \in 1 .. Len(net) + 1
    BY <1>1 DEF HandleInv, HandlesTyped
  <2> QED
    BY <1>1, <1>2, <1>10, <2>2, <2>3, <2>4, <2>5 DEF HandlesTyped, Phases
<1>14. Forest'
  <2>1. ASSUME NEW h \in have + 1 .. Len(handles')
        PROVE  \/ handles'[h].parent = 0 /\ handles'[h].ancestors = {}
               \/ /\ handles'[h].parent \in 1 .. have
                  /\ handles'[h].ancestors = handles[handles'[h].parent].ancestors \cup {handles'[h].parent}
    <3>1. PICK i \in 1 .. n : h = have + i
      <4>1. h - have \in 1 .. n /\ h = have + (h - have)
        BY <1>1, <1>10
      <4> QED
        BY <4>1
    <3>2. handles'[h] = new[i] /\ i \in Nat
      <4>1. i \in Nat
        BY <1>1
      <4> QED
        BY <1>10, <3>1, <4>1
    <3>3. CASE ~views
      BY <1>7, <3>2, <3>3, TensorTypes
    <3>4. CASE views
      <4>1. handles'[h] = SubTensorHandle(data[net[cur].ins[1]], i)
        BY <1>7, <3>2, <3>4
      <4>2. data[net[cur].ins[1]] \in 1 .. have
        BY <1>6, <3>4
      <4>3. PICK p : p = data[net[cur].ins[1]]
        OBVIOUS
      <4>4. p \in 1 .. Len(handles)
        BY <4>2, <4>3
      <4>5. SubTensorHandle(p, i).parent = p /\ SubTensorHandle(p, i).ancestors = handles[p].ancestors \cup {p}
        BY <1>2, <3>2, <4>4, ViewTypes
      <4> QED
        BY <4>1, <4>3, <4>4, <4>5
    <3> QED
      BY <3>3, <3>4
  <2> QED
    BY <1>1, <1>2, <1>10, <2>1, ForestGrows DEF HandleInv
<1>15. DataIsCurrent'
  <2>1. ASSUME NEW s \in Slots, s[1] = cur
        PROVE  data'[s] \in have + 1 .. have + n /\ \E i \in 1 .. n : s = <<cur, i>> /\ data'[s] = have + i
    BY <1>1, <1>4, <1>11, <2>1
  <2>2. ASSUME NEW s \in Slots, s[1] # cur
        PROVE  data'[s] = data[s] /\ data'[s] \in 0 .. have
    BY <1>2, <1>11, <2>2
  <2>3. \A s \in Slots : data'[s] # 0 <=> s[1] <= cur
    BY <1>1, <1>3, <1>5, <2>1, <2>2
  <2>4. \A s \in Slots : data'[s] \notin freed'
    BY <1>1, <1>2, <1>3, <1>11, <2>1, <2>2
  <2>5. ASSUME NEW s \in Slots, NEW t \in Slots, data'[s] = data'[t], data'[s] # 0
        PROVE  s = t
    <3>1. CASE s[1] = cur /\ t[1] = cur
      <4>1. PICK i \in 1 .. n, j \in 1 .. n : s = <<cur, i>> /\ data'[s] = have + i /\ t = <<cur, j>> /\ data'[t] = have + j
        BY <2>1, <3>1
      <4>2. i = j
        BY <1>1, <2>5, <4>1
      <4> QED
        BY <4>1, <4>2
    <3>2. CASE s[1] # cur /\ t[1] # cur
      BY <1>3, <2>2, <2>5, <3>2
    <3>3. CASE (s[1] = cur) # (t[1] = cur)
      BY <1>1, <2>1, <2>2, <2>5, <3>3
    <3> QED
      BY <3>1, <3>2, <3>3
  <2> QED
    BY <1>1, <1>2, <2>3, <2>4, <2>5 DEF DataIsCurrent
<1>16. /\ \A m : SubMerger(m)' <=> SubMerger(m) \/ (m = cur /\ net[cur].kind = "merger" /\ net[cur].sub)
       /\ \A l : SubSplitter(l)' <=> SubSplitter(l) \/ (l = cur /\ views)
  BY <1>1, <1>2 DEF SubMerger, SubSplitter
<1>17. \A s \in Slots : s[1] <= cur - 1 => data'[s] = data[s] /\ data[s] \in 1 .. have /\ handles'[data[s]] = handles[data[s]]
  BY <1>1, <1>2, <1>3, <1>5, <1>10, <1>11
<1>18. \A s : Merged(s) => Merged(s)'
  BY <1>1, <1>2, <1>16 DEF Merged
<1>19. ASSUME NEW m \in 1 .. cur, SubMerger(m)', m \notin Queued', NEW i \in 1 .. 2
       PROVE  InPlace(net[m].ins[i], <<m, 1>>, i)'
  <2>1. m # cur
    <3>1. SUFFICES ASSUME m = cur PROVE FALSE
      OBVIOUS
    <3>2. net[cur].kind = "merger" /\ net[cur].sub
      BY <1>1, <1>19, <3>1 DEF SubMerger
    <3>3. SubTensors
      BY <1>1, <3>2, NetIs DEF IsLayer
    <3>4. mergers' = <<cur>>
      BY <3>2, <3>3 DEF CreateTensorHandles
    <3>5. mergers'[1] = cur /\ 1 \in 1 .. Len(mergers')
      BY <3>4
    <3> QED
      BY <1>19, <3>1, <3>5 DEF Queued, Elements
  <2>2. m \in 1 .. Made /\ m \in 1 .. Len(net) /\ SubMerger(m) /\ m \notin Queued
    BY <1>1, <1>2, <1>16, <1>19, <2>1 DEF Queued, Elements
  <2>3. InPlace(net[m].ins[i], <<m, 1>>, i)
    BY <1>1, <2>2 DEF HandleInv, ViewsInPlace
  <2>4. NumInputs(net[m].kind) = 2 /\ NumOutputs(net[m].kind) = 1
    BY <2>2, NumOutputsIs DEF SubMerger, NumInputs, AllKinds
  <2>5. net[m].ins[i] \in Slots /\ net[m].ins[i][1] \in 1 .. m - 1
    BY <1>1, <2>2, <2>4, InputIsSlot
  <2>6. <<m, 1>> \in Slots
    BY <1>1, <2>2, <2>4, NetIs, SlotIs DEF Slots
  <2>7. net[m].ins[i][1] <= cur - 1 /\ <<m, 1>>[1] <= cur - 1
    BY <1>1, <1>2, <2>2, <2>5
  <2> QED
    BY <1>1, <1>17, <2>3, <2>5, <2>6, <2>7 DEF InPlace
<1>20. ASSUME NEW l \in 1 .. cur, SubSplitter(l)', NEW i \in 1 .. 2
       PROVE  Merged(<<l, i>>)' \/ InPlace(<<l, i>>, net[l].ins[1], i)'
  <2>1. l \in 1 .. Len(net) /\ net[l].kind = "splitter" /\ net[l].sub
    BY <1>1, <1>20 DEF SubSplitter
  <2>2. NumInputs(net[l].kind) = 1 /\ NumOutputs(net[l].kind) = 2
    BY <2>1, NumOutputsIs DEF NumInputs
  <2>3. net[l].ins[1] \in Slots /\ net[l].ins[1][1] \in 1 .. l - 1
    <3>1. 1 \in 1 .. NumInputs(net[l].kind)
      BY <2>2
    <3> QED
      BY <1>1, <2>1, <3>1, InputIsSlot
  <2>4. <<l, i>> \in Slots
    BY <1>1, <2>1, <2>2, NetIs, SlotIs DEF Slots
  <2>5. net[l].ins[1][1] <= cur - 1
    BY <1>1, <2>3
  <2>6. data'[net[l].ins[1]] = data[net[l].ins[1]]
    BY <1>17, <2>3, <2>5
  <2>7. CASE l = cur
    <3>1. views /\ i \in 1 .. n /\ i \in Nat
      BY <2>1, <2>2, <2>7
    <3>2. data'[<<l, i>>] = have + i /\ handles'[have + i] = SubTensorHandle(data[net[cur].ins[1]], i)
      BY <1>7, <1>10, <1>11, <2>7, <3>1
    <3>3. /\ SubTensorHandle(data[net[cur].ins[1]], i).view = i
          /\ SubTensorHandle(data[net[cur].ins[1]], i).parent = data[net[cur].ins[1]]
      BY <1>2, <1>6, <3>1, ViewTypes
    <3> QED
      BY <1>1, <2>6, <2>7, <3>2, <3>3 DEF InPlace
  <2>8. CASE l # cur
    <3>1. l \in 1 .. Made /\ SubSplitter(l) /\ <<l, i>>[1] <= cur - 1
      BY <1>1, <1>2, <1>16, <1>20, <2>8
    <3>2. CASE Merged(<<l, i>>)
      BY <1>18, <3>2
    <3>3. CASE InPlace(<<l, i>>, net[l].ins[1], i)
      BY <1>1, <1>17, <2>4, <2>6, <3>1, <3>3 DEF InPlace
    <3> QED
      BY <1>1, <3>1, <3>2, <3>3 DEF HandleInv, ViewsInPlace
  <2> QED
    BY <2>7, <2>8
<1>21. ASSUME NEW s \in Slots, s[1] <= cur, ~SubSplitter(s[1])', ~Merged(s)'
       PROVE  handles'[data'[s]].parent = 0
  <2>1. CASE s[1] = cur
    <3>1. ~views
      BY <1>16, <1>21, <2>1
    <3>2. PICK i \in 1 .. n : s = <<cur, i>>
      BY <1>4, <2>1
    <3>3. handles'[data'[s]] = TensorHandle
      BY <1>7, <1>10, <1>11, <3>1, <3>2
    <3> QED
      BY <3>3, TensorTypes
  <2>2. CASE s[1] # cur
    <3>1. s[1] <= cur - 1 /\ ~SubSplitter(s[1]) /\ ~Merged(s)
      BY <1>1, <1>5, <1>16, <1>18, <1>21, <2>2
    <3>2. handles[data[s]].parent = 0
      BY <1>1, <1>2, <3>1 DEF HandleInv, ViewsInPlace
    <3> QED
      BY <1>17, <3>1, <3>2
  <2> QED
    BY <2>1, <2>2
<1>22. ViewsInPlace'
  BY <1>1, <1>2, <1>19, <1>20, <1>21 DEF ViewsInPlace
<1> QED
  BY <1>12, <1>13, <1>14, <1>15, <1>22 DEF HandleInv

LEMMA PairIs ==
  ASSUME NEW S, NEW f, f = [i \in 1 .. 2 |-> f[i]], \A i \in 1 .. 2 : f[i] \in S
  PROVE  f \in Seq(S) /\ Len(f) = 2 /\ DOMAIN f = 1 .. 2
<1>1. f \in [1 .. 2 -> S]
  BY Zenon
<1> QED
  BY <1>1

LEMMA ElementsAre ==
  ASSUME NEW S, NEW p \in Seq(S), NEW q \in Seq(S)
  PROVE  /\ p \o q \in Seq(S) /\ Elements(p \o q) = Elements(p) \cup Elements(q)
         /\ p # <<>> => Tail(p) \in Seq(S) /\ Elements(p) = {Head(p)} \cup Elements(Tail(p))
<1>1. Len(p) \in Nat /\ Len(q) \in Nat
  OBVIOUS
<1>2. p \o q \in Seq(S)
  OBVIOUS
<1>3. Len(p \o q) = Len(p) + Len(q)
  BY Z3
<1>4. \A i \in 1 .. Len(p) + Len(q) : (p \o q)[i] = IF i <= Len(p) THEN p[i] ELSE q[i - Len(p)]
  BY ConcatProperties
<1>5. Elements(p \o q) = Elements(p) \cup Elements(q)
  <2>1. ASSUME NEW i \in 1 .. Len(p) + Len(q)
        PROVE  (p \o q)[i] \in Elements(p) \cup Elements(q)
    <3>1. CASE i <= Len(p)
      BY <1>1, <1>4, <3>1 DEF Elements
    <3>2. CASE ~(i <= Len(p))
      <4>1. i - Len(p) \in 1 .. Len(q)
        BY <1>1, <3>2
      <4> QED
        BY <1>4, <3>2, <4>1 DEF Elements
    <3> QED
      BY <3>1, <3>2
  <2>2. ASSUME NEW i \in 1 .. Len(p)
        PROVE  p[i] \in Elements(p \o q)
    <3>1. i \in 1 .. Len(p) + Len(q) /\ i <= Len(p)
      BY <1>1
    <3> QED
      BY <1>3, <1>4, <3>1 DEF Elements
  <2>3. ASSUME NEW i \in 1 .. Len(q)
        PROVE  q[i] \in Elements(p \o q)
    <3>1. Len(p) + i \in 1 .. Len(p) + Len(q) /\ ~(Len(p) + i <= Len(p)) /\ Len(p) + i - Len(p) = i
      BY <1>1
    <3> QED
      BY <1>3, <1>4, <3>1 DEF Elements
  <2> QED
    BY <1>3, <2>1, <2>2, <2>3 DEF Elements
<1>6. ASSUME p # <<>>
      PROVE  Tail(p) \in Seq(S) /\ Elements(p) = {Head(p)} \cup Elements(Tail(p))
  <2>1. Tail(p) \in Seq(S) /\ Len(Tail(p)) = Len(p) - 1 /\ Head(p) = p[1] /\ Len(p) >= 1
    BY <1>1, <1>6, HeadTailProperties
  <2>2. \A i \in 1 .. Len(p) - 1 : Tail(p)[i] = p[i + 1]
    BY <1>6, HeadTailProperties
  <2>3. ASSUME NEW i \in 1 .. Len(p), i # 1
        PROVE  p[i] \in Elements(Tail(p))
    <3>1. i - 1 \in 1 .. Len(p) - 1 /\ i - 1 + 1 = i
      BY <1>1, <2>3
    <3> QED
      BY <2>1, <2>2, <3>1 DEF Elements
  <2>4. ASSUME NEW i \in 1 .. Len(p) - 1
        PROVE  Tail(p)[i] \in Elements(p)
    <3>1. i + 1 \in 1 .. Len(p)
      BY <1>1
    <3> QED
      BY <2>2, <3>1 DEF Elements
  <2>5. p[1] \in Elements(p)
    BY <1>1, <2>1 DEF Elements
  <2> QED
    BY <2>1, <2>3, <2>4, <2>5 DEF Elements
<1> QED
  BY <1>2, <1>5, <1>6

LEMMA MergersAre ==
  ASSUME IsNet(net), NEW m \in 1 .. Len(net), net[m].kind = "merger"
  PROVE  /\ MergersAmong(net[m].ins) \in Seq(Nat)
         /\ Elements(MergersAmong(net[m].ins)) =
              {k \in 1 .. m - 1 : net[k].kind = "merger" /\ \E i \in 1 .. 2 : net[m].ins[i][1] = k}
<1> DEFINE at(i) == net[m].ins[i]
<1>1. NumInputs(net[m].kind) = 2
  BY DEF NumInputs
<1>2. \A i \in 1 .. 2 : at(i)[1] \in 1 .. m - 1 /\ at(i)[1] \in Nat
  <2> TAKE i \in 1 .. 2
  <2>1. i \in 1 .. NumInputs(net[m].kind)
    BY <1>1
  <2>2. at(i)[1] \in 1 .. m - 1
    BY <2>1, InputIsSlot
  <2> QED
    BY <2>2
<1>3. ASSUME NEW i \in 1 .. 2
      PROVE  /\ MergerOf(at(i)) \in Seq(Nat)
             /\ Elements(MergerOf(at(i))) = {k \in {at(i)[1]} : net[k].kind = "merger"}
  <2>1. Elements(<<>>) = {} /\ <<>> \in Seq(Nat)
    BY DEF Elements
  <2>2. Elements(<<at(i)[1]>>) = {at(i)[1]} /\ <<at(i)[1]>> \in Seq(Nat)
    BY <1>2 DEF Elements
  <2> HIDE DEF at
  <2> QED
    BY <2>1, <2>2 DEF MergerOf
<1>4. MergersAmong(net[m].ins) = MergerOf(at(1)) \o MergerOf(at(2))
  BY DEF MergersAmong
<1> HIDE DEF at
<1>5. /\ MergerOf(at(1)) \o MergerOf(at(2)) \in Seq(Nat)
      /\ Elements(MergerOf(at(1)) \o MergerOf(at(2))) = Elements(MergerOf(at(1))) \cup Elements(MergerOf(at(2)))
  BY <1>3, ElementsAre
<1>6. Elements(MergersAmong(net[m].ins))
       = {k \in {at(1)[1]} : net[k].kind = "merger"} \cup {k \in {at(2)[1]} : net[k].kind = "merger"}
  BY <1>3, <1>4, <1>5
<1>7. \A k : (\E i \in 1 .. 2 : at(i)[1] = k) <=> k = at(1)[1] \/ k = at(2)[1]
  OBVIOUS
<1>8. Elements(MergersAmong(net[m].ins)) = {k \in 1 .. m - 1 : net[k].kind = "merger" /\ \E i \in 1 .. 2 : at(i)[1] = k}
  BY <1>2, <1>6, <1>7
<1> QED
  BY <1>4, <1>5, <1>8 DEF at

LEMMA HandleSubstitute ==
  ASSUME "ExclusiveViews" \in Promises, HandleInv, SubstituteInputs
  PROVE  HandleInv'
<1> DEFINE m == Head(mergers)
           ins == net[m].ins
           have == Len(handles)
           whole == data[<<m, 1>>]
<1>1. /\ phase = "handles" /\ phase' = "handles" /\ net' = net /\ cur' = cur /\ skipped' = skipped
      /\ mergers # <<>> /\ mergers \in Seq(Nat) /\ cur \in 1 .. Len(net) + 1 /\ Len(net) \in Nat /\ IsNet(net) /\ have \in Nat
  <2>1. IsNet(net) /\ Len(net) \in Nat
    BY NetIs DEF HandleInv, NetInv
  <2>2. have \in Nat
    BY DEF HandleInv, HandlesTyped
  <2> QED
    BY <2>1, <2>2 DEF SubstituteInputs, HandleInv, HandlesTyped
<1>2. /\ handles \in Seq(HandleTypes) /\ data \in [Slots -> 0 .. have] /\ freed \subseteq 1 .. have
      /\ Slots' = Slots /\ Made = cur - 1 /\ Made' = cur - 1 /\ \A k \in 1 .. Made : k \in 1 .. Len(net)
  BY <1>1 DEF HandleInv, HandlesTyped, Slots, Made
<1>3. /\ \A s \in Slots : data[s] # 0 <=> s[1] <= Made
      /\ \A s \in Slots : data[s] \notin freed
      /\ \A s \in Slots, t \in Slots : data[s] = data[t] /\ data[s] # 0 => s = t
  BY <1>1 DEF HandleInv, DataIsCurrent
<1>4. /\ Tail(mergers) \in Seq(Nat) /\ Queued = {m} \cup Elements(Tail(mergers))
      /\ m \in 1 .. Made /\ m \in 1 .. Len(net) /\ net[m].kind = "merger" /\ NumInputs(net[m].kind) = 2 /\ NumOutputs(net[m].kind) = 1
  <2>1. Tail(mergers) \in Seq(Nat) /\ Queued = {m} \cup Elements(Tail(mergers))
    BY <1>1, ElementsAre DEF Queued
  <2>2. m \in 1 .. Made /\ net[m].kind = "merger"
    BY <2>1 DEF HandleInv, HandlesTyped
  <2>3. NumOutputs("merger") = 1
    BY NumOutputsIs DEF AllKinds
  <2> QED
    BY <1>2, <2>1, <2>2, <2>3 DEF NumInputs
<1> HIDE DEF m
<1>5. NetInv'
  BY NetStep DEF HandleInv, Next
<1>6. \A k : SubMerger(k)' <=> SubMerger(k)
  BY <1>1, <1>2 DEF SubMerger
<1>7. \A l : SubSplitter(l)' <=> SubSplitter(l)
  BY <1>1, <1>2 DEF SubSplitter
<1>8. \A s : Merged(s)' <=> Merged(s)
  BY <1>1, <1>2, <1>6 DEF Merged
<1>9. CASE ~net[m].sub
  <2>1. mergers' = Tail(mergers) /\ UNCHANGED <<handles, freed, data>>
    BY <1>9 DEF SubstituteInputs, m
  <2>2. Queued' \subseteq Queued /\ \A k \in Queued : k # m => k \in Queued'
    BY <1>4, <2>1 DEF Queued
  <2>3. HandlesTyped'
    BY <1>1, <1>2, <1>4, <2>1, <2>2 DEF HandleInv, HandlesTyped, Phases
  <2>4. Forest'
    BY <2>1 DEF HandleInv, Forest
  <2>5. DataIsCurrent'
    BY <1>1, <1>2, <1>3, <2>1 DEF DataIsCurrent
  <2>6. \A s, t, i : InPlace(s, t, i)' <=> InPlace(s, t, i)
    BY <2>1 DEF InPlace
  <2>7. ASSUME NEW k \in 1 .. Made, SubMerger(k), k \notin Queued'
        PROVE  k \notin Queued
    BY <1>9, <2>2, <2>7 DEF SubMerger
  <2>8. ViewsInPlace'
    BY <1>1, <1>2, <1>6, <1>7, <1>8, <2>1, <2>6, <2>7 DEF HandleInv, ViewsInPlace
  <2> QED
    BY <1>5, <2>3, <2>4, <2>5, <2>8 DEF HandleInv
<1>10. CASE net[m].sub
  <2> DEFINE new == [i \in 1 .. 2 |-> SubTensorHandle(whole, i)]
  <2>1. /\ ins \in Seq(Slots) /\ Len(ins) = 2 /\ DOMAIN ins = 1 .. 2
        /\ \A i \in 1 .. 2 : ins[i] \in Slots /\ ins[i][1] \in 1 .. m - 1
    <3>1. \A i \in 1 .. 2 : ins[i] \in Slots /\ ins[i][1] \in 1 .. m - 1
      <4> TAKE i \in 1 .. 2
      <4>1. i \in 1 .. NumInputs(net[m].kind)
        BY <1>4
      <4> QED
        BY <1>1, <1>4, <4>1, InputIsSlot
    <3>2. ins \in Seq(Nat \X Nat) /\ Len(ins) = 2
      BY <1>1, <1>4, NetIs DEF IsLayer
    <3> HIDE DEF ins
    <3>3. ins = [i \in 1 .. 2 |-> ins[i]]
      BY <3>2
    <3> QED
      BY <3>1, <3>3, PairIs
  <2>2. ASSUME NEW i \in 1 .. 2, NEW l \in 1 .. Len(net), NEW j \in 1 .. NumInputs(net[l].kind), net[l].ins[j] = ins[i]
        PROVE  l = m /\ j = i
    <3>1. IsNet(net) /\ m \in 1 .. Len(net) /\ net[m].kind = "merger" /\ net[m].sub /\ net[l].ins[j] = net[m].ins[i]
      BY <1>1, <1>4, <1>10, <2>2
    <3> HIDE DEF ins, have, whole
    <3> QED
      BY <3>1, OneReader
  <2>3. \A i \in 1 .. 2, j \in 1 .. 2 : ins[i] = ins[j] => i = j
    <3> SUFFICES ASSUME NEW i \in 1 .. 2, NEW j \in 1 .. 2, ins[i] = ins[j] PROVE i = j
      OBVIOUS
    <3>1. j \in 1 .. NumInputs(net[m].kind)
      BY <1>4
    <3> QED
      BY <1>4, <2>2, <3>1
  <2>4. <<m, 1>> \in Slots /\ whole \in 1 .. have
    <3>1. <<m, 1>> \in Slots
      <4>1. 1 \in 1 .. NumOutputs(net[m].kind) /\ net \in Seq(LayerTypes)
        BY <1>1, <1>4, NetIs
      <4>2. <<m, 1>> = <<<<m, 1>>[1], <<m, 1>>[2]>> /\ <<m, 1>>[1] = m /\ <<m, 1>>[2] = 1
        OBVIOUS
      <4> QED
        BY <1>4, <4>1, <4>2, SlotIs, Zenon DEF Slots
    <3>2. whole # 0
      BY <1>3, <1>4, <3>1
    <3> QED
      BY <1>1, <1>2, <3>1, <3>2
  <2>5. /\ new \in Seq(HandleTypes) /\ Len(new) = 2
        /\ \A i \in 1 .. 2 : new[i].view = i /\ new[i].parent = whole /\ new[i].ancestors = handles[whole].ancestors \cup {whole}
    <3>1. \A i \in 1 .. 2 : /\ new[i] \in HandleTypes
                            /\ new[i].view = i /\ new[i].parent = whole /\ new[i].ancestors = handles[whole].ancestors \cup {whole}
      <4> TAKE i \in 1 .. 2
      <4>1. new[i] = SubTensorHandle(whole, i) /\ i \in Nat
        OBVIOUS
      <4> HIDE DEF new, whole
      <4> QED
        BY <1>2, <2>4, <4>1, ViewTypes
    <3>2. new = [i \in 1 .. 2 |-> new[i]]
      OBVIOUS
    <3> HIDE DEF new
    <3> QED
      BY <3>1, <3>2, PairIs
  <2>6. SetData(ins, new) /\ mergers' = Tail(mergers) \o MergersAmong(ins)
    <3>1. ViewsOfOutput(m) /\ mergers' = Tail(mergers) \o MergersAmong(ins)
      BY <1>10 DEF SubstituteInputs, m
    <3> QED
      BY <2>1, <3>1 DEF ViewsOfOutput
  <2>7. PICK sl, made : sl = ins /\ made = new
    OBVIOUS
  <2>8. SetData(sl, made)
    BY <2>6, <2>7
  <2> HIDE DEF new
  <2>9. /\ handles' \in Seq(HandleTypes) /\ Len(handles') = have + 2
        /\ \A h \in 1 .. have : handles'[h] = handles[h]
        /\ \A i \in 1 .. 2 : handles'[have + i] = new[i]
        /\ data' \in [Slots -> 0 .. Len(handles')]
        /\ \A i \in 1 .. 2 : data'[ins[i]] = have + i
        /\ \A s \in Slots : (\A i \in 1 .. 2 : ins[i] # s) => data'[s] = data[s]
        /\ freed' = freed \cup ({data[ins[i]] : i \in 1 .. 2} \ {0})
    <3>1. /\ sl \in Seq(Slots) /\ made \in Seq(HandleTypes) /\ Len(made) = Len(sl) /\ Len(sl) = 2
          /\ \A i \in 1 .. Len(sl), j \in 1 .. Len(sl) : sl[i] = sl[j] => i = j
      BY <2>1, <2>3, <2>5, <2>7
    <3>2. /\ handles' \in Seq(HandleTypes) /\ Len(handles') = Len(handles) + Len(sl)
          /\ \A h \in 1 .. Len(handles) : handles'[h] = handles[h]
          /\ \A i \in 1 .. Len(sl) : handles'[Len(handles) + i] = made[i]
          /\ data' \in [Slots -> 0 .. Len(handles')]
          /\ \A i \in 1 .. Len(sl) : data'[sl[i]] = Len(handles) + i
          /\ \A s \in Slots : (\A i \in 1 .. Len(sl) : sl[i] # s) => data'[s] = data[s]
          /\ freed' = freed \cup ({data[sl[i]] : i \in 1 .. Len(sl)} \ {0})
      BY <1>2, <2>8, <3>1, SetDataIs
    <3> QED
      BY <2>7, <3>1, <3>2
  <2>10. /\ mergers' \in Seq(Nat)
         /\ Queued' = Elements(Tail(mergers)) \cup {k \in 1 .. m - 1 : net[k].kind = "merger" /\ \E i \in 1 .. 2 : ins[i][1] = k}
    <3>1. /\ MergersAmong(ins) \in Seq(Nat)
          /\ Elements(MergersAmong(ins)) = {k \in 1 .. m - 1 : net[k].kind = "merger" /\ \E i \in 1 .. 2 : ins[i][1] = k}
      BY <1>1, <1>4, MergersAre
    <3>2. Tail(mergers) \in Seq(Nat)
      BY <1>4
    <3>3. PICK p, q : p = Tail(mergers) /\ q = MergersAmong(ins)
      OBVIOUS
    <3>4. p \o q \in Seq(Nat) /\ Elements(p \o q) = Elements(p) \cup Elements(q)
      <4>1. p \in Seq(Nat) /\ q \in Seq(Nat)
        BY <3>1, <3>2, <3>3
      <4> QED
        BY <4>1, ElementsAre
    <3> QED
      BY <2>6, <3>1, <3>3, <3>4 DEF Queued
  <2> HIDE DEF whole
  <2>11. ASSUME NEW s \in Slots, \A i \in 1 .. 2 : ins[i] # s
         PROVE  /\ data'[s] = data[s]
                /\ s[1] <= Made => data[s] \in 1 .. have /\ handles'[data'[s]] = handles[data[s]]
    <3>1. data'[s] = data[s]
      BY <2>9, <2>11, Zenon
    <3>2. ASSUME s[1] <= Made
          PROVE  data[s] \in 1 .. have
      <4>1. data[s] # 0 /\ data[s] \in 0 .. have
        BY <1>2, <1>3, <3>2
      <4> QED
        BY <1>1, <4>1
    <3>3. \A h \in 1 .. have : handles'[h] = handles[h]
      BY <2>9
    <3>4. ASSUME s[1] <= Made
          PROVE  handles'[data'[s]] = handles[data[s]]
      BY <3>1, <3>2, <3>3, <3>4
    <3> QED
      BY <3>1, <3>2, <3>4
  <2>12. <<m, 1>> \in Slots /\ \A i \in 1 .. 2 : ins[i] # <<m, 1>>
    <3>1. m \notin 1 .. m - 1
      BY <1>4
    <3>2. \A i \in 1 .. 2 : ins[i][1] # m
      BY <2>1, <3>1, Zenon
    <3>3. \A i \in 1 .. 2 : ins[i] = <<m, 1>> => ins[i][1] = m
      OBVIOUS
    <3> QED
      BY <2>4, <3>2, <3>3, Zenon
  <2>13. HandlesTyped'
    <3>1. \A k \in Queued' : k \in 1 .. Made /\ net[k].kind = "merger"
      <4> TAKE k \in Queued'
      <4>1. CASE k \in Elements(Tail(mergers))
        BY <1>4, <4>1 DEF HandleInv, HandlesTyped
      <4>2. CASE k \in 1 .. m - 1 /\ net[k].kind = "merger"
        BY <1>1, <1>2, <1>4, <4>2
      <4> QED
        BY <2>10, <4>1, <4>2
    <3>2. freed' \subseteq 1 .. Len(handles')
      <4>1. \A i \in 1 .. 2 : data[ins[i]] \in 0 .. have
        BY <1>2, <2>1
      <4>2. {data[ins[i]] : i \in 1 .. 2} \ {0} \subseteq 1 .. have
        <5>1. \A h \in 0 .. have : h # 0 => h \in 1 .. have
          BY <1>1
        <5> QED
          BY <4>1, <5>1, Zenon
      <4>3. 1 .. have \subseteq 1 .. Len(handles')
        BY <1>1, <2>9
      <4> QED
        BY <1>2, <2>9, <4>2, <4>3
    <3>3. skipped' = {}
      BY <1>1 DEF HandleInv, HandlesTyped
    <3> QED
      BY <1>1, <1>2, <2>9, <2>10, <3>1, <3>2, <3>3 DEF HandlesTyped, Phases
  <2>14. Forest'
    <3>1. ASSUME NEW h \in have + 1 .. Len(handles')
          PROVE  /\ handles'[h].parent \in 1 .. have
                 /\ handles'[h].ancestors = handles[handles'[h].parent].ancestors \cup {handles'[h].parent}
      <4>1. PICK i \in 1 .. 2 : h = have + i
        <5>1. h - have \in 1 .. 2 /\ h = have + (h - have)
          BY <1>1, <2>9
        <5> QED
          BY <5>1
      <4> QED
        BY <2>4, <2>5, <2>9, <4>1
    <3>2. Len(handles') >= Len(handles) /\ Forest
      BY <1>1, <2>9 DEF HandleInv
    <3> QED
      BY <1>2, <2>9, <3>1, <3>2, ForestGrows
  <2>15. DataIsCurrent'
    <3>1. ASSUME NEW s \in Slots
          PROVE  data'[s] # 0 <=> s[1] <= Made
      <4>1. CASE \E i \in 1 .. 2 : ins[i] = s
        <5>1. PICK i \in 1 .. 2 : ins[i] = s
          BY <4>1
        <5>2. data'[s] = have + i /\ s[1] \in 1 .. m - 1
          BY <2>1, <2>9, <5>1
        <5>3. have + i # 0 /\ s[1] <= Made
          <6>1. Made \in Int /\ m <= Made /\ m \in Int
            BY <1>1, <1>2, <1>4
          <6> QED
            BY <1>1, <5>2, <6>1
        <5> QED
          BY <5>2, <5>3
      <4>2. CASE \A i \in 1 .. 2 : ins[i] # s
        BY <1>3, <2>9, <4>2
      <4> QED
        BY <4>1, <4>2
    <3>2. ASSUME NEW s \in Slots
          PROVE  data'[s] \notin freed'
      <4>1. \A i \in 1 .. 2 : data[ins[i]] \in 0 .. have
        BY <1>2, <2>1
      <4>2. CASE \E i \in 1 .. 2 : ins[i] = s
        <5>1. data'[s] \notin 0 .. have
          BY <1>1, <2>9, <4>2
        <5>2. freed' \subseteq 0 .. have
          <6>1. {data[ins[i]] : i \in 1 .. 2} \subseteq 0 .. have
            BY <4>1
          <6>2. freed \subseteq 0 .. have
            BY <1>1, <1>2
          <6> QED
            BY <2>9, <6>1, <6>2
        <5> QED
          BY <5>1, <5>2
      <4>3. CASE \A i \in 1 .. 2 : ins[i] # s
        <5>1. data'[s] = data[s] /\ data[s] \notin freed
          BY <1>3, <2>9, <4>3
        <5>2. \A i \in 1 .. 2 : data[ins[i]] = data[s] => data[s] = 0
          BY <1>3, <2>1, <4>3
        <5> QED
          BY <2>9, <5>1, <5>2
      <4> QED
        BY <4>2, <4>3
    <3>3. ASSUME NEW s \in Slots, NEW t \in Slots, data'[s] = data'[t], data'[s] # 0
          PROVE  s = t
      <4>1. CASE (\E i \in 1 .. 2 : ins[i] = s) /\ (\E i \in 1 .. 2 : ins[i] = t)
        <5>1. PICK i \in 1 .. 2, j \in 1 .. 2 : ins[i] = s /\ ins[j] = t
          BY <4>1
        <5>2. have + i = have + j
          BY <2>9, <3>3, <5>1
        <5>3. i = j
          BY <1>1, <5>2
        <5> QED
          BY <5>1, <5>3
      <4>2. CASE (\A i \in 1 .. 2 : ins[i] # s) /\ (\A i \in 1 .. 2 : ins[i] # t)
        BY <1>3, <2>9, <3>3, <4>2
      <4>3. ASSUME NEW a \in Slots, NEW b \in Slots, NEW i \in 1 .. 2, ins[i] = a, \A j \in 1 .. 2 : ins[j] # b
            PROVE  data'[a] # data'[b]
        <5>1. data'[a] = have + i /\ data'[b] = data[b] /\ data[b] \in 0 .. have
          BY <1>2, <2>9, <4>3
        <5> QED
          BY <1>1, <5>1
      <4> QED
        BY <3>3, <4>1, <4>2, <4>3
    <3> QED
      BY <1>1, <1>2, <3>1, <3>2, <3>3 DEF DataIsCurrent
  <2>16. ASSUME NEW k \in 1 .. Made, SubMerger(k), k \notin Queued', NEW i \in 1 .. 2
         PROVE  InPlace(net[k].ins[i], <<k, 1>>, i)'
    <3>1. CASE k = m
      <4>1. data'[<<m, 1>>] = whole
        BY <2>9, <2>12 DEF whole
      <4>2. handles'[data'[ins[i]]] = new[i]
        BY <2>9
      <4> QED
        BY <1>1, <2>5, <3>1, <4>1, <4>2 DEF InPlace
    <3>2. CASE k # m
      <4>1. k \notin Queued /\ k \in 1 .. Len(net) /\ net[k].kind = "merger"
        BY <1>2, <1>4, <2>10, <2>16, <3>2 DEF SubMerger
      <4>2. InPlace(net[k].ins[i], <<k, 1>>, i)
        BY <1>1, <2>16, <4>1 DEF HandleInv, ViewsInPlace
      <4>3. i \in 1 .. NumInputs(net[k].kind) /\ NumOutputs(net[k].kind) = 1
        BY <4>1, NumOutputsIs DEF NumInputs, AllKinds
      <4>4. net[k].ins[i] \in Slots /\ net[k].ins[i][1] \in 1 .. k - 1
        BY <1>1, <4>1, <4>3, InputIsSlot
      <4>5. \A j \in 1 .. 2 : ins[j] # net[k].ins[i]
        BY <2>2, <3>2, <4>1, <4>3
      <4>6. <<k, 1>> \in Slots
        <5>1. 1 \in 1 .. NumOutputs(net[k].kind)
          BY <4>3
        <5> QED
          BY <1>1, <4>1, <5>1, NetIs, SlotIs DEF Slots
      <4>7. \A j \in 1 .. 2 : ins[j] # <<k, 1>>
        <5> SUFFICES ASSUME NEW j \in 1 .. 2, ins[j] = <<k, 1>> PROVE FALSE
          OBVIOUS
        <5>1. ins[j][1] = k /\ ins[j][1] \in 1 .. m - 1
          BY <2>1
        <5> QED
          BY <2>10, <2>16, <4>1, <5>1
      <4>8. net[k].ins[i][1] <= Made
        <5>1. Made \in Int /\ k \in 1 .. Made
          BY <1>1, <1>2
        <5> QED
          BY <4>4, <5>1
      <4> QED
        BY <1>1, <2>11, <4>2, <4>4, <4>5, <4>6, <4>7, <4>8 DEF InPlace
    <3> QED
      BY <3>1, <3>2
  <2>17. ASSUME NEW l \in 1 .. Made, SubSplitter(l), NEW i \in 1 .. 2
         PROVE  Merged(<<l, i>>) \/ InPlace(<<l, i>>, net[l].ins[1], i)'
    <3>1. l \in 1 .. Len(net) /\ net[l].kind = "splitter"
      BY <1>2, <2>17 DEF SubSplitter
    <3>2. NumInputs(net[l].kind) = 1 /\ NumOutputs(net[l].kind) = 2 /\ 1 \in 1 .. NumInputs(net[l].kind)
      BY <3>1, NumOutputsIs DEF NumInputs
    <3>3. net[l].ins[1] \in Slots /\ net[l].ins[1][1] \in 1 .. l - 1
      BY <1>1, <3>1, <3>2, InputIsSlot
    <3>4. <<l, i>> \in Slots
      BY <1>1, <3>1, <3>2, NetIs, SlotIs DEF Slots
    <3>5. net[l].ins[1][1] <= Made /\ <<l, i>>[1] <= Made
      <4>1. Made \in Int /\ l \in 1 .. Made
        BY <1>1, <1>2
      <4> QED
        BY <3>3, <4>1
    <3>6. CASE Merged(<<l, i>>)
      BY <3>6
    <3>7. CASE ~Merged(<<l, i>>)
      <4>1. InPlace(<<l, i>>, net[l].ins[1], i)
        BY <1>1, <2>17, <3>7 DEF HandleInv, ViewsInPlace
      <4>2. \A j \in 1 .. 2 : ins[j] # <<l, i>>
        BY <1>4, <1>10, <3>7 DEF Merged, SubMerger
      <4>3. \A j \in 1 .. 2 : ins[j] # net[l].ins[1]
        BY <1>4, <2>2, <3>1, <3>2
      <4> QED
        BY <1>1, <2>11, <3>3, <3>4, <3>5, <4>1, <4>2, <4>3 DEF InPlace
    <3> QED
      BY <3>6, <3>7
  <2>18. ASSUME NEW s \in Slots, s[1] <= Made, ~SubSplitter(s[1]), ~Merged(s)
         PROVE  handles'[data'[s]].parent = 0
    <3>1. handles[data[s]].parent = 0
      BY <1>1, <2>18 DEF HandleInv, ViewsInPlace
    <3>2. \A j \in 1 .. 2 : ins[j] # s
      BY <1>4, <1>10, <2>18 DEF Merged, SubMerger
    <3> QED
      BY <2>11, <2>18, <3>1, <3>2
  <2>19. ViewsInPlace'
    BY <1>1, <1>2, <1>6, <1>7, <1>8, <2>16, <2>17, <2>18 DEF ViewsInPlace
  <2> QED
    BY <1>5, <2>13, <2>14, <2>15, <2>19 DEF HandleInv
<1> QED
  BY <1>9, <1>10

(* The steps after the handles are made leave them alone.                  *)
LEMMA HandleKept ==
  ASSUME HandleInv, NetInv', net' = net, UNCHANGED handleVars,
         phase \in {"constants", "outputs", "inputs", "ready", "undefined"},
         phase' \in {"constants", "outputs", "inputs", "ready", "undefined"}
  PROVE  HandleInv'
<1>1. mergers' = mergers /\ handles' = handles /\ freed' = freed /\ data' = data /\ skipped' = skipped
  BY DEF handleVars
<1>2. Slots' = Slots /\ Made' = Made /\ Queued' = Queued /\ \A m : SubMerger(m)' <=> SubMerger(m)
  BY <1>1 DEF Slots, Made, Queued, SubMerger
<1>3. (\A l : SubSplitter(l)' <=> SubSplitter(l)) /\ \A s : Merged(s)' <=> Merged(s)
  BY <1>2 DEF SubSplitter, Merged
<1>4. \A s, t, i : InPlace(s, t, i)' <=> InPlace(s, t, i)
  BY <1>1 DEF InPlace
<1>5. HandlesTyped'
  BY <1>1, <1>2 DEF HandleInv, HandlesTyped, Phases
<1>6. Forest' /\ DataIsCurrent'
  BY <1>1, <1>2 DEF HandleInv, Forest, DataIsCurrent
<1>7. ViewsInPlace'
  BY <1>1, <1>2, <1>3, <1>4 DEF HandleInv, ViewsInPlace
<1> QED
  BY <1>5, <1>6, <1>7 DEF HandleInv

LEMMA HandleWorkloads ==
  ASSUME HandleInv, CreateWorkloads
  PROVE  HandleInv'
<1>1. NetInv'
  BY NetStep DEF HandleInv, Next
<1>2. /\ phase = "handles" /\ phase' = "constants" /\ mergers = <<>> /\ cur > Len(net)
      /\ UNCHANGED <<net, mergers, handles, freed, data>>
  BY DEF CreateWorkloads
<1>3. cur \in 1 .. Len(net) + 1 /\ Len(net) \in Nat
  BY <1>2, NetIs DEF HandleInv, HandlesTyped, NetInv
<1>4. Slots' = Slots /\ Made' = Made /\ Queued' = Queued /\ \A m : SubMerger(m)' <=> SubMerger(m)
  BY <1>2, <1>3 DEF Slots, Made, Queued, SubMerger
<1>5. (\A l : SubSplitter(l)' <=> SubSplitter(l)) /\ \A s : Merged(s)' <=> Merged(s)
  BY <1>2, <1>4 DEF SubSplitter, Merged
<1>6. \A s, t, i : InPlace(s, t, i)' <=> InPlace(s, t, i)
  BY <1>2 DEF InPlace
<1>7. HandlesTyped'
  BY <1>2, <1>4 DEF HandleInv, HandlesTyped, Phases
<1>8. Forest' /\ DataIsCurrent'
  BY <1>2, <1>4 DEF HandleInv, Forest, DataIsCurrent
<1>9. ViewsInPlace'
  BY <1>2, <1>4, <1>5, <1>6 DEF HandleInv, ViewsInPlace
<1> QED
  BY <1>1, <1>7, <1>8, <1>9 DEF HandleInv

LEMMA HandleStep ==
  ASSUME "ExclusiveViews" \in Promises, HandleInv, [Next]_vars
  PROVE  HandleInv'
<1>1. NetInv'
  BY NetStep DEF HandleInv
<1>2. CASE AddLayer
  BY <1>2, HandleAddLayer
<1>3. CASE Load
  BY <1>3, HandleLoad
<1>4. CASE CreateTensorHandles
  BY <1>4, HandleCreate
<1>5. CASE SubstituteInputs
  BY <1>5, HandleSubstitute
<1>6. CASE CreateWorkloads
  BY <1>6, HandleWorkloads
<1>7. CASE AllocateConstants
  BY <1>1, <1>7, HandleKept DEF AllocateConstants, UseDangling
<1>8. CASE ManageOutputs
  BY <1>1, <1>8, HandleKept DEF ManageOutputs, UseDangling
<1>9. CASE ReleaseInputs
  BY <1>1, <1>9, HandleKept DEF ReleaseInputs, UseDangling
<1>10. CASE UNCHANGED vars
  <2>1. UNCHANGED <<net, phase, cur, mergers, handles, freed, data, skipped>>
    BY <1>10 DEF vars
  <2>2. Slots' = Slots /\ Made' = Made /\ Queued' = Queued /\ \A m : SubMerger(m)' <=> SubMerger(m)
    BY <2>1 DEF Slots, Made, Queued, SubMerger
  <2>3. (\A l : SubSplitter(l)' <=> SubSplitter(l)) /\ \A s : Merged(s)' <=> Merged(s)
    BY <2>2, <2>1 DEF SubSplitter, Merged
  <2>4. \A s, t, i : InPlace(s, t, i)' <=> InPlace(s, t, i)
    BY <2>1 DEF InPlace
  <2>5. HandlesTyped'
    BY <2>1, <2>2 DEF HandleInv, HandlesTyped
  <2>6. Forest' /\ DataIsCurrent'
    BY <2>1, <2>2 DEF HandleInv, Forest, DataIsCurrent
  <2>7. ViewsInPlace'
    BY <2>1, <2>2, <2>3, <2>4 DEF HandleInv, ViewsInPlace
  <2> QED
    BY <1>1, <2>5, <2>6, <2>7 DEF HandleInv
<1> QED
  BY <1>2, <1>3, <1>4, <1>5, <1>6, <1>7, <1>8, <1>9, <1>10 DEF Next, NotLoaded, Done

----------------------------------------------------------------------------
(* No dangling parents: once the last merger is visited, the parent of a   *)
(* handle in use is in use itself, so its ancestors are.                   *)

LEMMA HasLeast ==
  ASSUME NEW S \in SUBSET Nat, S # {}
  PROVE  \E m \in S : \A s \in S : m <= s
<1>1. \E m \in S : \A s \in S : <<s, m>> \notin OpToRel(<, Nat)
  BY NatLessThanWellFounded, WFMin
<1>2. PICK m \in S : \A s \in S : <<s, m>> \notin OpToRel(<, Nat)
  BY <1>1
<1>3. \A s \in S : ~(s < m)
  BY <1>2, Zenon DEF OpToRel
<1> QED
  BY <1>3

(* The slot that holds what s is a part of.                                *)
Whole(s, t) ==
  \/ \E m \in 1 .. Made, i \in 1 .. 2 : SubMerger(m) /\ net[m].ins[i] = s /\ t = <<m, 1>> /\ InPlace(s, t, i)
  \/ SubSplitter(s[1]) /\ ~Merged(s) /\ t = net[s[1]].ins[1] /\ InPlace(s, t, s[2])

LEMMA MadeIs ==
  ASSUME HandleInv
  PROVE  Made \in Nat /\ \A k \in 1 .. Made : k \in 1 .. Len(net)
<1>1. Len(net) \in Nat
  BY NetIs DEF HandleInv, NetInv
<1> QED
  BY <1>1 DEF Made, HandleInv, HandlesTyped

LEMMA WholeIsSlot ==
  ASSUME HandleInv, NEW s \in Slots, NEW t, Whole(s, t)
  PROVE  t \in Slots /\ (s[1] \in 1 .. Made => t[1] \in 1 .. Made)
<1>0. IsNet(net) /\ Made \in Nat /\ \A k \in 1 .. Made : k \in 1 .. Len(net)
  BY MadeIs DEF HandleInv, NetInv
<1>1. CASE \E m \in 1 .. Made, i \in 1 .. 2 : SubMerger(m) /\ net[m].ins[i] = s /\ t = <<m, 1>>
  <2>1. PICK m \in 1 .. Made : SubMerger(m) /\ t = <<m, 1>>
    BY <1>1
  <2>2. m \in 1 .. Len(net) /\ NumOutputs(net[m].kind) = 1
    BY <1>0, <2>1, NumOutputsIs DEF SubMerger, AllKinds
  <2>3. 1 \in 1 .. NumOutputs(net[m].kind)
    BY <2>2
  <2>4. <<m, 1>> \in Slots
    BY <1>0, <2>2, <2>3, NetIs, SlotIs DEF Slots
  <2> QED
    BY <2>1, <2>4
<1>2. CASE SubSplitter(s[1]) /\ t = net[s[1]].ins[1]
  <2>1. s[1] \in 1 .. Made /\ s[1] \in 1 .. Len(net) /\ net[s[1]].kind = "splitter"
    BY <1>0, <1>2 DEF SubSplitter
  <2>2. 1 \in 1 .. NumInputs(net[s[1]].kind)
    BY <2>1 DEF NumInputs
  <2>3. t \in Slots /\ t[1] \in 1 .. s[1] - 1
    BY <1>0, <1>2, <2>1, <2>2, InputIsSlot
  <2> QED
    BY <1>0, <2>1, <2>3
<1> QED
  BY <1>1, <1>2 DEF Whole

LEMMA ParentIs ==
  ASSUME HandleInv, mergers = <<>>, phase # "build", NEW s \in Slots, s[1] \in 1 .. Made
  PROVE  /\ data[s] \in 1 .. Len(handles)
         /\ \/ handles[data[s]].parent = 0 /\ handles[data[s]].ancestors = {} /\ \A t : ~Whole(s, t)
            \/ \E t \in Slots :
                 /\ Whole(s, t) /\ t[1] \in 1 .. Made
                 /\ handles[data[s]].parent = data[t] /\ data[t] \in 1 .. data[s] - 1
                 /\ handles[data[s]].ancestors = handles[data[t]].ancestors \cup {data[t]}
<1>1. /\ Made \in Nat /\ handles \in Seq(HandleTypes) /\ data \in [Slots -> 0 .. Len(handles)] /\ IsNet(net)
      /\ \A k \in 1 .. Made : k \in 1 .. Len(net)
  BY MadeIs DEF HandleInv, HandlesTyped, NetInv
<1>2. \A t \in Slots : data[t] # 0 <=> t[1] <= Made
  BY DEF HandleInv, DataIsCurrent
<1>3. data[s] \in 1 .. Len(handles) /\ Len(handles) \in Nat
  BY <1>1, <1>2
<1>4. \/ handles[data[s]].parent = 0 /\ handles[data[s]].ancestors = {}
      \/ /\ handles[data[s]].parent \in 1 .. data[s] - 1
         /\ handles[data[s]].ancestors = handles[handles[data[s]].parent].ancestors \cup {handles[data[s]].parent}
  BY <1>3 DEF HandleInv, Forest
<1>5. ASSUME NEW t, Whole(s, t)
      PROVE  /\ t \in Slots /\ t[1] \in 1 .. Made /\ handles[data[s]].parent = data[t] /\ data[t] \in 1 .. data[s] - 1
             /\ handles[data[s]].ancestors = handles[data[t]].ancestors \cup {data[t]}
  <2>1. t \in Slots /\ t[1] \in 1 .. Made
    BY <1>5, WholeIsSlot
  <2>2. handles[data[s]].parent = data[t]
    BY <1>5 DEF Whole, InPlace
  <2>3. data[t] # 0
    BY <1>1, <1>2, <2>1
  <2> QED
    BY <1>4, <2>1, <2>2, <2>3
<1>6. ASSUME \A t : ~Whole(s, t)
      PROVE  handles[data[s]].parent = 0 /\ handles[data[s]].ancestors = {}
  <2>1. ~Merged(s)
    <3>1. SUFFICES ASSUME Merged(s) PROVE FALSE
      OBVIOUS
    <3>2. PICK m \in 1 .. Made, i \in 1 .. 2 : SubMerger(m) /\ net[m].ins[i] = s
      BY <3>1 DEF Merged
    <3>3. Queued = {}
      BY DEF Queued, Elements
    <3>4. InPlace(s, <<m, 1>>, i)
      BY <3>2, <3>3 DEF HandleInv, ViewsInPlace
    <3> QED
      BY <1>6, <3>2, <3>4 DEF Whole
  <2>2. ~SubSplitter(s[1])
    <3>1. SUFFICES ASSUME SubSplitter(s[1]) PROVE FALSE
      OBVIOUS
    <3>2. s[1] \in 1 .. Len(net) /\ net[s[1]].kind = "splitter"
      BY <1>1, <3>1 DEF SubSplitter
    <3>3. s = <<s[1], s[2]>> /\ s[2] \in 1 .. 2
      BY <1>1, <3>2, NetIs, SlotIs, NumOutputsIs DEF Slots
    <3>4. InPlace(s, net[s[1]].ins[1], s[2])
      BY <2>1, <3>1, <3>3 DEF HandleInv, ViewsInPlace
    <3> QED
      BY <1>6, <2>1, <3>1, <3>4 DEF Whole
  <2>3. handles[data[s]].parent = 0
    BY <1>1, <2>1, <2>2 DEF HandleInv, ViewsInPlace
  <2> QED
    BY <1>3, <1>4, <2>3
<1> QED
  BY <1>3, <1>5, <1>6

LEMMA AncestorsAreCurrent ==
  ASSUME HandleInv, mergers = <<>>, phase # "build"
  PROVE  \A s \in Slots : s[1] \in 1 .. Made => ~Dangling(data[s])
<1> DEFINE dangling == {h \in 1 .. Len(handles) : Dangling(h) /\ \E s \in Slots : s[1] \in 1 .. Made /\ data[s] = h}
<1>1. SUFFICES ASSUME dangling # {} PROVE FALSE
  BY ParentIs
<1>2. PICK h \in dangling : \A k \in dangling : h <= k
  <2>1. dangling \in SUBSET Nat
    OBVIOUS
  <2> HIDE DEF dangling
  <2> QED
    BY <1>1, <2>1, HasLeast
<1>3. PICK s \in Slots : s[1] \in 1 .. Made /\ data[s] = h
  OBVIOUS
<1>4. Dangling(data[s]) /\ data[s] \in 1 .. Len(handles)
  BY <1>3
<1>5. PICK t \in Slots :
        /\ t[1] \in 1 .. Made /\ data[t] \in 1 .. data[s] - 1
        /\ handles[data[s]].ancestors = handles[data[t]].ancestors \cup {data[t]}
  <2>1. handles[data[s]].ancestors # {}
    BY <1>4 DEF Dangling
  <2> QED
    BY <1>3, <2>1, ParentIs
<1>6. data[t] \notin freed
  BY DEF HandleInv, DataIsCurrent
<1>7. Dangling(data[t])
  BY <1>4, <1>5, <1>6 DEF Dangling
<1>8. data[t] \in dangling
  BY <1>5, <1>7, ParentIs
<1>9. ~(h <= data[t])
  BY <1>3, <1>4, <1>5
<1> QED
  BY <1>2, <1>8, <1>9

(* A view that nothing else reads keeps its parent: with the promise that  *)
(* what a merger reads through sub-tensors has no other reader, no handle  *)
(* in use is a view of a destroyed one, in networks of any size            *)
(* (MergerLayer::CreateTensors, OutputHandler::SetData).                   *)
THEOREM ParentsLive ==
  ASSUME "ExclusiveViews" \in Promises
  PROVE  Spec => []NoDanglingParent
<1>1. HandleInv /\ [Next]_vars => HandleInv'
  BY HandleStep
<1>2. HandleInv => NoDanglingParent
  <2>1. SUFFICES ASSUME HandleInv, mergers = <<>>, NEW s \in DOMAIN data, data[s] # 0
                 PROVE  ~Dangling(data[s])
    BY DEF NoDanglingParent
  <2>2. CASE phase = "build"
    <3>1. freed = {}
      BY <2>1, <2>2 DEF HandleInv, HandlesTyped
    <3> QED
      BY <3>1 DEF Dangling
  <2>3. CASE phase # "build"
    <3>1. DOMAIN data = Slots
      BY <2>1, <2>3 DEF HandleInv, HandlesTyped
    <3>2. s[1] <= Made /\ Made \in Nat /\ IsNet(net)
      BY <2>1, <2>3, <3>1, MadeIs DEF HandleInv, DataIsCurrent, NetInv
    <3>3. s[1] \in 1 .. Len(net)
      BY <3>1, <3>2, NetIs, SlotIs DEF Slots
    <3>4. s[1] \in 1 .. Made
      BY <3>2, <3>3
    <3> QED
      BY <2>1, <2>3, <3>1, <3>4, AncestorsAreCurrent
  <2> QED
    BY <2>2, <2>3
<1> QED
  BY <1>1, <1>2, HandleInit, PTL DEF Spec

----------------------------------------------------------------------------
(* Workloads that do nothing: a merger's input that is a view is the view  *)
(* of another merger, a splitter's or its own; the promises leave the      *)
(* last.                                                                   *)

LEMMA NothingToDo ==
  ASSUME "ExclusiveViews" \in Promises, "NoSplitToMerge" \in Promises,
         HandleInv, mergers = <<>>, phase = "handles", cur > Len(net), NEW l \in Layers, HasNothingToDo(l), NEW i \in 1 .. 2
  PROVE  \/ net[l].kind = "merger" /\ InPlace(net[l].ins[i], <<l, 1>>, i)
         \/ net[l].kind = "splitter" /\ InPlace(<<l, i>>, net[l].ins[1], i)
<1>1. /\ IsNet(net) /\ Len(net) \in Nat /\ l \in 1 .. Len(net) /\ Queued = {}
      /\ Made = Len(net) /\ net \in Seq(LayerTypes)
  <2>1. IsNet(net) /\ cur \in 1 .. Len(net) + 1
    BY DEF HandleInv, NetInv, HandlesTyped
  <2> QED
    BY <2>1, NetIs DEF Made, Queued, Elements
<1>2. ASSUME NEW m \in 1 .. Len(net), net[m].kind = "merger", NEW j \in 1 .. 2
      PROVE  net[m].ins[j] \in Slots /\ net[m].ins[j][1] \in 1 .. m - 1 /\ net[net[m].ins[j][1]].kind # "splitter"
  <2>1. j \in 1 .. NumInputs(net[m].kind)
    BY <1>2 DEF NumInputs
  <2>2. net[net[m].ins[j][1]].kind # "splitter"
    BY <1>1, <1>2 DEF IsNet, KeepsPromises
  <2> QED
    BY <1>1, <2>1, <2>2, InputIsSlot
<1>3. CASE net[l].kind = "merger" /\ AllSubTensors({net[l].ins[j] : j \in 1 .. 2})
  <2>1. net[l].sub
    <3> DEFINE s == net[l].ins[1]
    <3>1. s \in Slots /\ s[1] \in 1 .. Made /\ net[s[1]].kind # "splitter" /\ handles[data[s]].parent # 0
      <4>1. s \in Slots /\ s[1] \in 1 .. l - 1 /\ net[s[1]].kind # "splitter"
        <5>1. 1 \in 1 .. 2
          OBVIOUS
        <5> QED
          BY <1>1, <1>2, <1>3, <5>1, Zenon
      <4>2. handles[data[s]].parent # 0
        BY <1>3 DEF AllSubTensors
      <4> QED
        BY <1>1, <4>1, <4>2
    <3>2. PICK t \in Slots : Whole(s, t)
      BY <3>1, ParentIs
    <3>3. PICK m \in 1 .. Made, j \in 1 .. 2 : SubMerger(m) /\ net[m].ins[j] = s
      BY <3>1, <3>2 DEF Whole, SubSplitter
    <3>4. 1 \in 1 .. NumInputs(net[l].kind)
      BY <1>3 DEF NumInputs
    <3>5. l = m
      BY <1>1, <3>3, <3>4, OneReader DEF SubMerger
    <3> QED
      BY <3>3, <3>5 DEF SubMerger
  <2> QED
    BY <1>1, <1>3, <2>1 DEF HandleInv, ViewsInPlace, SubMerger
<1>4. CASE net[l].kind = "splitter" /\ AllSubTensors(OutputSlots(l))
  <2> DEFINE s == <<l, i>>
  <2>1. s \in Slots
    BY <1>1, <1>4, NumOutputsIs, SlotIs DEF Slots
  <2>2. s[1] \in 1 .. Made /\ handles[data[s]].parent # 0
    BY <1>1, <1>4, <2>1 DEF AllSubTensors, OutputSlots
  <2>3. PICK t \in Slots : Whole(s, t)
    BY <2>1, <2>2, ParentIs
  <2>4. ASSUME NEW m \in 1 .. Made, SubMerger(m), NEW j \in 1 .. 2
        PROVE  net[m].ins[j] # s
    <3>1. m \in 1 .. Len(net) /\ net[m].kind = "merger"
      BY <1>1, <2>4 DEF SubMerger
    <3>2. net[net[m].ins[j][1]].kind # "splitter"
      BY <1>2, <3>1
    <3> QED
      BY <1>4, <3>2
  <2>5. SubSplitter(l) /\ ~Merged(s)
    BY <2>3, <2>4 DEF Whole, Merged
  <2> QED
    BY <1>1, <1>4, <2>5 DEF HandleInv, ViewsInPlace
<1> QED
  BY <1>3, <1>4 DEF HasNothingToDo

SkippedInv == HandleInv /\ SkippedAreInPlace

LEMMA SkippedStep ==
  ASSUME "ExclusiveViews" \in Promises, "NoSplitToMerge" \in Promises, SkippedInv, [Next]_vars
  PROVE  SkippedInv'
<1>1. HandleInv /\ HandleInv'
  BY HandleStep DEF SkippedInv
<1>2. CASE CreateWorkloads
  <2>1. /\ skipped' = {l \in Layers : HasNothingToDo(l)} /\ net' = net /\ handles' = handles /\ data' = data
        /\ phase = "handles" /\ mergers = <<>> /\ cur > Len(net)
    BY <1>2 DEF CreateWorkloads
  <2>2. ASSUME NEW l \in skipped', NEW i \in 1 .. 2
        PROVE  \/ net[l].kind = "merger" /\ InPlace(net[l].ins[i], <<l, 1>>, i)
               \/ net[l].kind = "splitter" /\ InPlace(<<l, i>>, net[l].ins[1], i)
    BY <1>1, <2>1, <2>2, NothingToDo
  <2>3. SkippedAreInPlace'
    <3> SUFFICES ASSUME NEW l \in skipped', NEW i \in 1 .. 2
                 PROVE  LET whole == IF net[l].kind = "merger" THEN <<l, 1>> ELSE net[l].ins[1]
                            part == IF net[l].kind = "merger" THEN net[l].ins[i] ELSE <<l, i>>
                        IN handles[data[part]].parent = data[whole] /\ handles[data[part]].view = i
      BY <2>1 DEF SkippedAreInPlace
    <3>1. CASE net[l].kind = "merger" /\ InPlace(net[l].ins[i], <<l, 1>>, i)
      BY <3>1 DEF InPlace
    <3>2. CASE net[l].kind = "splitter" /\ InPlace(<<l, i>>, net[l].ins[1], i)
      BY <3>2 DEF InPlace
    <3> QED
      BY <2>2, <3>1, <3>2
  <2> QED
    BY <1>1, <2>3 DEF SkippedInv
<1>3. CASE phase \in {"build", "handles"} /\ ~CreateWorkloads
  <2>1. skipped' = {}
    <3>1. skipped = {}
      BY <1>1, <1>3 DEF HandleInv, HandlesTyped
    <3> QED
      BY <1>3, <3>1 DEF Next, AddLayer, Load, NotLoaded, CreateTensorHandles, SubstituteInputs, AllocateConstants,
                        ManageOutputs, ReleaseInputs, Done, handleVars, vars
  <2> QED
    BY <1>1, <2>1 DEF SkippedInv, SkippedAreInPlace
<1>4. CASE phase \notin {"build", "handles"}
  <2>1. mergers = <<>>
    BY <1>1, <1>4 DEF HandleInv, HandlesTyped
  <2>2. UNCHANGED <<net, handles, data, skipped>>
    BY <1>4, <2>1 DEF Next, AddLayer, Load, NotLoaded, CreateTensorHandles, SubstituteInputs, CreateWorkloads, AllocateConstants,
                      ManageOutputs, ReleaseInputs, UseDangling, Done, handleVars, vars
  <2>3. net' = net /\ handles' = handles /\ data' = data /\ skipped' = skipped
    BY <2>2
  <2>4. SkippedAreInPlace' <=> SkippedAreInPlace
    BY ONLY <2>3 DEF SkippedAreInPlace
  <2> QED
    BY <1>1, <2>4 DEF SkippedInv
<1> QED
  BY <1>2, <1>3, <1>4

(* A workload that is skipped has nothing to do: when besides no merger    *)
(* reads what a splitter made, a merger or splitter all of whose inputs,   *)
(* or outputs, are sub-tensors has them in their places in its own output, *)
(* or input (NeonConcatWorkload, NeonSplitterWorkload).                    *)
THEOREM SkippedInPlace ==
  ASSUME "ExclusiveViews" \in Promises, "NoSplitToMerge" \in Promises
  PROVE  Spec => []SkippedAreInPlace
<1>1. Init => SkippedInv
  <2>1. Init => SkippedAreInPlace
    BY DEF Init, SkippedAreInPlace
  <2> QED
    BY <2>1, HandleInit DEF SkippedInv
<1>2. SkippedInv /\ [Next]_vars => SkippedInv'
  BY SkippedStep
<1>3. SkippedInv => SkippedAreInPlace
  BY DEF SkippedInv
<1> QED
  BY <1>1, <1>2, <1>3, PTL DEF Spec
=============================================================================
