--------------------------- MODULE ImportedOperands ---------------------------
(* What the layers of a node of a model read, in the network a parser      *)
(* makes of it.                                                            *)
EXTENDS NetworkImport

(* The slots a slot's layers read from other nodes, in their order.        *)
RECURSIVE Leaves(_, _)
Leaves(net, slot) ==
  LET node == net[slot[1]].node
      leaves(s) == IF net[s[1]].node = node /\ net[s[1]].from # <<>> THEN Leaves(net, s) ELSE <<s>>
  IN FlattenSeq([i \in DOMAIN net[slot[1]].from |-> leaves(net[slot[1]].from[i])])

Commutes(op) ==
  op \in {"Add", "AddN", "BiasAdd", "Mul", "Maximum", "Minimum", "Equal", "Eltwise", "ADD", "MUL", "MAXIMUM", "MINIMUM"}

Counts(seq) == [s \in ToSet(seq) |-> Cardinality({i \in DOMAIN seq : seq[i] = s})]

Reads(op, slot, operands) ==
  LET leaves == Leaves(st.net, slot)
  IN CASE Commutes(op) -> Counts(leaves) = Counts(operands)
       [] op = "Convolution" -> ToSet(leaves) = ToSet(operands)  \* once for each group
       [] OTHER -> leaves = operands

(* The output of a node that an input names, behind identities.            *)
RECURSIVE Meant(_)
Meant(i) == IF model.nodes[i[1]].op = "Identity" THEN Meant(Tf!Data(model.nodes[i[1]])[1]) ELSE i

(* An identity of another output than the first of its input.              *)
LosesOutput(i) ==
  LET n == model.nodes[i[1]] IN n.op = "Identity" /\ (Tf!Data(n)[1][2] # 0 \/ Meant(i) # <<Meant(i)[1], i[2]>>)

(* The operands of a TensorFlow node that are data, not parameters.        *)
DataOf(name) ==
  LET n == model.nodes[name]
      data == Tf!Data(n)
      matMul == Tf!MatMulUnder(model, st, name)
      factor(product) == LET ins == Tf!Data(model.nodes[product])
                         IN IF model.nodes[ins[1][1]].op = "Const" THEN <<ins[2]>> ELSE <<ins[1]>>
  IN CASE n.op \in {"Conv2D", "DepthwiseConv2dNative", "FusedBatchNorm", "Pad", "Reshape", "ResizeBilinear", "Mean"} -> <<data[1]>>
       [] n.op = "ConcatV2" -> Front(data)
       [] n.op = "Split" -> <<data[2]>>
       [] n.op = "MatMul" -> factor(name)
       [] n.op = "Add" /\ matMul # 0 -> factor(data[matMul][1])
       [] n.op = "Maximum" /\ Tf!LeakyReluOf(model, st, name) # 0 -> <<data[Tf!LeakyReluOf(model, st, name)]>>
       [] OTHER -> data

(* An odd number of partial sums loses one.                                *)
LosesSum(n) == n.op = "AddN" /\ n.a.N >= 6 /\ n.a.N % 4 \in {2, 3}

TfOperandsRead ==
  \A name \in {name \in ToSet(sorted) \cap DOMAIN st.parsed :
                 st.parsed[name].layer # 0 /\ model.nodes[name].op \notin {"Const", "Placeholder", "Shape"}} :
    LET slot(i) == <<st.parsed[Meant(i)[1]].layer, Meant(i)[2] + 1>>
        data == DataOf(name)
    IN \/ Reads(model.nodes[name].op, <<st.parsed[name].layer, 1>>, [i \in DOMAIN data |-> slot(data[i])])
       \/ LosesSum(model.nodes[name]) \/ \E i \in ToSet(data) : LosesOutput(i)

(* In Caffe a bottom is the top of the last layer before that has it.      *)
CaffeOperandsRead ==
  \A p \in DOMAIN sorted :
    LET l == model.layers[sorted[p]]
        resolved == Caffe!Layers(model)
        writer(b) == Max({j \in 1 .. sorted[p] - 1 : b \in ToSet(model.layers[j].tops)} \cup {0})
        top(b) == resolved[writer(b)].tops[SelectInSeq(model.layers[writer(b)].tops, LAMBDA t : t = b)]
        slot(b) == IF top(b) \in DOMAIN st.slots THEN st.slots[top(b)] ELSE NoSlot
    IN \/ l.type \in {"Input", "Split", "Dropout"} \/ \E b \in ToSet(l.bottoms) : writer(b) = 0
       \/ Reads(l.type, st.slots[resolved[sorted[p]].tops[1]], [i \in DOMAIN l.bottoms |-> slot(l.bottoms[i])])

LiteDataOf(n) ==
  CASE n.op \in {"SUB", "ADD", "MUL", "MAXIMUM", "MINIMUM", "CONCATENATION"} -> n.ins
    [] n.op = "SPLIT" -> <<n.ins[2]>>
    [] n.op = "CUSTOM" -> SubSeq(n.ins, 1, 2)
    [] OTHER -> <<n.ins[1]>>

(* A second operand of less dimensions becomes the first of a difference.  *)
SwapsOperands(n) == n.op = "SUB" /\ Len(model.tensors[n.ins[1]].shape) > Len(model.tensors[n.ins[2]].shape)

TfLiteOperandsRead ==
  \A k \in DOMAIN model.ops : \A t \in ToSet(model.ops[k].outs) :
    LET data == LiteDataOf(model.ops[k])
    IN \/ Reads(model.ops[k].op, st.producers[t], [i \in DOMAIN data |-> st.producers[data[i]]])
       \/ SwapsOperands(model.ops[k])

(* A constant that is broadcast is produced as its reshaped self.          *)
OnnxOperandsRead ==
  LET slot(t) == st.producers[IF t \in DOMAIN st.producers THEN t ELSE Onnx!ReshapeOutput(model, t)]
      operands(k) ==
        CASE model.ops[k].op = "Add" /\ Onnx!FusedMatMul(model, k) # 0 ->
               <<Onnx!InputName(st, model.ops[Onnx!FusedMatMul(model, k)])>>
          [] model.ops[k].op = "MatMul" -> <<Onnx!InputName(st, model.ops[k])>>
          [] model.ops[k].op = "Add" -> model.ops[k].ins
          [] OTHER -> <<model.ops[k].ins[1]>>
  IN \A k \in DOMAIN model.ops :
       \/ model.ops[k].op = "Constant" \/ model.ops[k].outs[1] \notin DOMAIN st.producers
       \/ Reads(model.ops[k].op, slot(model.ops[k].outs[1]), [i \in DOMAIN operands(k) |-> slot(operands(k)[i])])

(* The layers of a node read what the model says it reads: each operand as *)
(* often as it is named, and in its order where that counts, whether other *)
(* layers were added in between, the creation of a layer was deferred or   *)
(* several nodes have become one layer.                                    *)
OperandsRead ==
  stage = "loaded" =>
    CASE format = "tf" -> TfOperandsRead [] format = "caffe" -> CaffeOperandsRead
      [] format = "tflite" -> TfLiteOperandsRead [] format = "onnx" -> OnnxOperandsRead
=============================================================================
