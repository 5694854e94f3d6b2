----------------------------- MODULE OnnxParser -----------------------------
(* armnnOnnxParser: the layers each ONNX node becomes.  A node is          *)
(* [op, ins, outs, a]: the numbers of its tensors, and its attributes by   *)
(* name, those that are present.  The model m has its nodes, ops; of each  *)
(* tensor the type and the info it declares and the values it is           *)
(* initialized with, types, infos and consts; its inputs and outputs.      *)
EXTENDS ImportedNetwork

NoConst == Tensor("none", <<>>, <<>>)

(* The tensor a lower-rank operand of an addition is reshaped to, of which *)
(* there is one for each tensor: "reshape_output_" and its name.           *)
ReshapeOutput(m, t) == Len(m.infos) + t

(* The parser's state st has the network, net; the slot that produces each *)
(* tensor, producers; what is known of the tensors, infos, consts and      *)
(* types (m_TensorsInfo), and whether an exception was thrown, and has     *)
(* escaped.                                                                *)
IsConstant(st, t) == st.consts[t] # NoConst
Floats(st, n) == \A t \in ToSet(n.ins) : st.types[t] = "FLOAT"

(* CreateConstTensor: a value for each element of the tensor's info.       *)
HasValues(st, t) ==
  NumElements(st.infos[t]) # 0 /\ Len(st.consts[t].values) = NumElements(st.infos[t])

(* RegisterOutputSlots: layer number l has the output t.  The message of   *)
(* the exception for a second producer is malformed and throws another one.*)
Register(st, l, t) ==
  CASE st.thrown -> st
    [] ~st.thrown /\ t \in DOMAIN st.producers -> Uncaught(st)
    [] OTHER -> [st EXCEPT !.producers = @ @@ (t :> <<l, 1>>)]

AddLayer(st, k, layer, t) ==
  IF st.thrown THEN st ELSE Register([st EXCEPT !.net = Placed(@, k, <<layer>>)], Len(st.net) + 1, t)

(* ComputeOutputInfo: what is known of the output t, or what the layer     *)
(* infers from its inputs; it does not throw a ParseException.             *)
Inferred(st, k, kind, d, consts, ins, t) ==
  LET shapes == InferOutputShapes([kind |-> kind, d |-> d, consts |-> consts, outs |-> <<>>,
                                   ins |-> [i \in DOMAIN ins |-> st.infos[ins[i]]]])
      info == IF st.infos[t] # NoInfo THEN st.infos[t] ELSE Info("f32", shapes[1])
      layer == Layer(kind, d, consts, [i \in DOMAIN ins |-> Consumer(ins[i])], <<info>>)
  IN CASE st.thrown -> st
       [] ~st.thrown /\ st.infos[t] = NoInfo /\ (shapes = Refused \/ ~IsTensorShape(shapes[1])) -> Uncaught(st)
       [] OTHER -> [st EXCEPT !.infos[t] = info, !.net = Placed(@, k, <<layer>>)]

AddInferred(st, k, kind, d, consts, ins, t) ==
  Register(Inferred(st, k, kind, d, consts, ins, t), Len(st.net) + 1, t)

CreateConstantLayer(st, k, t) ==
  IF ~HasValues(st, t) THEN Failed(st)
  ELSE AddLayer(st, k, Layer("constant", NoDescriptor, [output |-> st.infos[t]], <<>>, <<st.infos[t]>>), t)

CreateReshapeLayer(st, k, x, t) ==
  AddLayer(st, k, Layer("reshape", [target |-> st.infos[t].shape], NoConsts, <<Consumer(x)>>, <<st.infos[t]>>), t)

----------------------------------------------------------------------------
(* DetectFullyConnected: which products are fused with the additions of a  *)
(* constant.                                                               *)

(* The node before or at k that produces a tensor, 0 if there is none.     *)
ProducerBefore(m, k, t) == Max({j \in 1 .. k : t \in ToSet(m.ops[j].outs)} \cup {0})

(* The product an addition is fused with, 0 if it is not.                  *)
FusedMatMul(m, k) ==
  LET n == m.ops[k]
      product(i) == ProducerBefore(m, k, n.ins[i])
      found == {i \in 1 .. 2 : /\ product(i) # 0 /\ m.ops[product(i)].op = "MatMul"
                               /\ m.consts[n.ins[3 - i]] # NoConst}
  IN IF n.op # "Add" \/ found = {} THEN 0 ELSE product(Max(found))

FusedWith(m, k) == {j \in DOMAIN m.ops : FusedMatMul(m, j) = k}

(* How often a node's outputs are read, by other nodes or as the model's.  *)
InputForNodes(m, k) ==
  LET reads(j) == {<<j, i>> : i \in {i \in DOMAIN m.ops[j].ins : ProducerBefore(m, j, m.ops[j].ins[i]) = k}}
      outputs == {i \in DOMAIN m.outputs : ProducerBefore(m, Len(m.ops), m.outputs[i]) = k}
  IN Cardinality(UNION {reads(j) : j \in DOMAIN m.ops}) + Cardinality(outputs)

(* GetInputAndParam: the constant operand, the first if both are, and the  *)
(* other one.                                                              *)
Param(st, n) == {i \in 1 .. 2 : IsConstant(st, n.ins[i])}
ParamName(st, n) == n.ins[Min(Param(st, n))]
InputName(st, n) == n.ins[3 - Min(Param(st, n))]

(* The fully connected layer of a product, with the bias of an addition if *)
(* add is not 0, whose info loses its leading ones.                        *)
AddFullyConnected(m, st, k, add) ==
  LET n == m.ops[k]
      weight == ParamName(st, n)
      d == [transpose |-> FALSE, bias |-> add # 0]
      bias == ParamName(st, m.ops[add])
      flat == [st EXCEPT !.infos[bias].shape = <<Last(@)>>]
      badBias == Param(st, m.ops[add]) = {} \/ ~Floats(st, m.ops[add]) \/ ToSet(Front(st.infos[bias].shape)) \ {1} # {}
  IN CASE Len(n.ins) # 2 \/ ~Floats(st, n) \/ Param(st, n) = {} -> Failed(st)
       [] add = 0 ->
            IF ~HasValues(st, weight) THEN Failed(st)
            ELSE AddInferred(st, k, "fullyConnected", d, [weight |-> st.infos[weight]], <<InputName(st, n)>>, n.outs[1])
       [] OTHER ->
            CASE badBias -> Failed(st)
              [] ~badBias /\ Rank(st.infos[weight]) < 2 -> Uncaught(st)
              [] OTHER ->
                   IF \/ st.infos[weight].shape[2] # Last(st.infos[bias].shape)
                      \/ ~HasValues(st, weight) \/ ~HasValues(st, bias)
                   THEN Failed(st)
                   ELSE AddInferred(flat, k, "fullyConnected", d, [weight |-> st.infos[weight], bias |-> flat.infos[bias]],
                                    <<InputName(st, n)>>, m.ops[add].outs[1])

----------------------------------------------------------------------------

ParseConstant(m, st, k) ==
  LET n == m.ops[k]
  IN IF "value" \notin DOMAIN n.a \/ n.a.value.type # "f32" THEN Failed(st)
     ELSE CreateConstantLayer([st EXCEPT !.consts[n.outs[1]] = n.a.value], k, n.outs[1])

Attribute(n, name, default) == IF name \in DOMAIN n.a THEN n.a[name] ELSE default

(* CalcPadding, the odd element behind or in front.  A kernel that reads   *)
(* less than the input wraps around to a padding no model here asks for.   *)
SamePadding(size, kernel, stride, upper) ==
  LET pad == CalcPadding(size, kernel, stride, TRUE) IN IF upper THEN pad ELSE Reverse(pad)

KnownPadding(n) == "pads" \in DOMAIN n.a \/ Attribute(n, "auto_pad", "") \in {"", "NOTSET", "VALID", "SAME_LOWER", "SAME_UPPER"}

WindowStride(n) == Attribute(n, "strides", <<1, 1>>)

(* The padding is computed from the sizes of the input.                    *)
KeepsSize(n) == "pads" \notin DOMAIN n.a /\ Attribute(n, "auto_pad", "") \in {"SAME_LOWER", "SAME_UPPER"}

(* The paddings of the attribute are top, left, bottom and right.          *)
WindowPads(n, info, kernel) ==
  LET pad(dim) == SamePadding(info.shape[2 + dim], kernel[dim], WindowStride(n)[dim], n.a.auto_pad = "SAME_UPPER")
  IN CASE "pads" \in DOMAIN n.a -> << <<n.a.pads[1], n.a.pads[3]>>, <<n.a.pads[2], n.a.pads[4]>> >>
       [] KeepsSize(n) -> <<pad(1), pad(2)>>
       [] OTHER -> << <<0, 0>>, <<0, 0>> >>

AddPoolingLayer(m, st, k) ==
  LET n == m.ops[k]
      known == Floats(st, n) /\ "kernel_shape" \in DOMAIN n.a /\ KnownPadding(n)
  IN CASE ~known -> Failed(st)
       [] known /\ KeepsSize(n) /\ Rank(st.infos[n.ins[1]]) < 4 -> Uncaught(st)
       [] OTHER -> AddInferred(st, k, "pooling2d",
                               [layout |-> "NCHW", pool |-> n.a.kernel_shape, stride |-> WindowStride(n), rounding |-> "floor",
                                pads |-> WindowPads(n, st.infos[n.ins[1]], n.a.kernel_shape)], NoConsts, n.ins, n.outs[1])

(* One window of the size of the input.                                    *)
ParseGlobalAveragePool(m, st, k) ==
  LET n == m.ops[k]
      shape == st.infos[n.ins[1]].shape
  IN IF Len(shape) < 4 THEN Uncaught(st)
     ELSE AddInferred(st, k, "pooling2d",
                      [layout |-> "NCHW", pool |-> <<shape[3], shape[4]>>, stride |-> <<0, 0>>, rounding |-> "floor",
                       pads |-> << <<0, 0>>, <<0, 0>> >>], NoConsts, n.ins, n.outs[1])

ParseRelu(m, st, k) ==
  LET n == m.ops[k]
  IN IF ~Floats(st, n) THEN Failed(st)
     ELSE AddInferred(st, k, "activation", [function |-> "ReLu"], NoConsts, n.ins, n.outs[1])

(* A dimension of 0 is the input's, which must have it.                    *)
InputLacks(values, shape) == \E i \in DOMAIN values : values[i] = 0 /\ i > Len(shape)

ComputeReshapeInfo(values, shape) ==
  Stretched(Product(shape), [i \in DOMAIN values |-> IF values[i] = 0 THEN shape[i] ELSE values[i]])

(* A constant is not reshaped: the output has its values and its own info. *)
ParseReshape(m, st, k) ==
  LET n == m.ops[k]
      x == n.ins[1]
      out == n.outs[1]
      values == st.consts[n.ins[2]].values
      shape == ComputeReshapeInfo(values, st.infos[x].shape)
  IN CASE st.types[x] # "FLOAT" \/ st.types[n.ins[2]] # "INT64" \/ ~IsConstant(st, n.ins[2]) -> Failed(st)
       [] IsConstant(st, x) -> [st EXCEPT !.consts[out] = st.consts[x]]
       [] ~IsConstant(st, x) /\ st.infos[out] # NoInfo -> CreateReshapeLayer(st, k, x, out)
       [] OTHER ->
            CASE InputLacks(values, st.infos[x].shape) -> Uncaught(st)
              [] ~InputLacks(values, st.infos[x].shape) /\ shape = Thrown /\ values # <<>> -> Failed(st)
              [] OTHER -> IF ~IsTensorShape(shape) THEN Uncaught(st)
                          ELSE CreateReshapeLayer([st EXCEPT !.infos[out] = Info("f32", shape)], k, x, out)

ConvConsts(st, n) ==
  IF Len(n.ins) = 3 THEN [weight |-> st.infos[n.ins[2]], bias |-> st.infos[n.ins[3]]] ELSE [weight |-> st.infos[n.ins[2]]]

(* The weights [M, 1, H, W] of a group for each channel become             *)
(* [1, M, H, W], also for who reads them next.                             *)
AddConvLayerWithDepthwiseConv(m, st, k, d) ==
  LET n == m.ops[k]
      filter == st.infos[n.ins[2]].shape
      swapped == [st EXCEPT !.infos[n.ins[2]].shape = <<1, filter[1]>> \o SubSeq(filter, 3, Len(filter))]
  IN AddInferred(swapped, k, "depthwiseConvolution2d", d, ConvConsts(swapped, n), <<n.ins[1]>>, n.outs[1])

ParseConv(m, st, k) ==
  LET n == m.ops[k]
      x == st.infos[n.ins[1]]
      filter == st.infos[n.ins[2]].shape
      kernel == IF "kernel_shape" \in DOMAIN n.a THEN n.a.kernel_shape ELSE SubSeq(filter, 3, Len(filter))
      group == Attribute(n, "group", 1)
      d == [layout |-> "NCHW", stride |-> WindowStride(n), dilation |-> <<1, 1>>, bias |-> Len(n.ins) = 3,
            pads |-> WindowPads(n, x, kernel)]
      hasBias == Len(n.ins) = 3 => (IsConstant(st, n.ins[3]) /\ HasValues(st, n.ins[3]))
  IN CASE \/ ~Floats(st, n) \/ Rank(x) # 4 \/ ~IsConstant(st, n.ins[2])
          \/ ToSet(Attribute(n, "dilations", <<>>)) \ {1} # {} \/ ~KnownPadding(n) -> Failed(st)
       [] OTHER ->
            CASE KeepsSize(n) /\ Len(kernel) < 2 -> Uncaught(st)
              [] ~(KeepsSize(n) /\ Len(kernel) < 2) /\ ((group > 1 /\ group # x.shape[2]) \/ ~HasValues(st, n.ins[2])) -> Failed(st)
              [] OTHER ->
                   CASE group > 1 /\ Len(filter) < 2 -> Uncaught(st)
                     [] ~(group > 1 /\ Len(filter) < 2) /\ ~hasBias -> Failed(st)
                     [] OTHER -> IF group > 1 THEN AddConvLayerWithDepthwiseConv(m, st, k, d)
                                 ELSE AddInferred(st, k, "convolution2d", d, ConvConsts(st, n), <<n.ins[1]>>, n.outs[1])

(* PrependForBroadcast: the tensor with ones in front of its dimensions,   *)
(* by a layer unless it is constant.                                       *)
Prepended(m, st, k, x, rank) ==
  LET t == ReshapeOutput(m, x)
      info == Reshaped(st.infos[x], [i \in 1 .. rank - Rank(st.infos[x]) |-> 1] \o st.infos[x].shape)
      known == [st EXCEPT !.infos[t] = info, !.types[t] = "FLOAT", !.consts[t] = st.consts[x]]
  IN IF IsConstant(st, x) THEN known ELSE CreateReshapeLayer(known, k, x, t)

(* The constants among the operands get their layers here.                 *)
ParseAdd(m, st, k) ==
  LET n == m.ops[k]
      rank(i) == Rank(st.infos[n.ins[i]])
      least == CASE rank(2) < rank(1) -> 2 [] rank(1) < rank(2) -> 1 [] OTHER -> 0
      operand(i) == IF i = least THEN ReshapeOutput(m, n.ins[i]) ELSE n.ins[i]
      ready == IF least = 0 THEN st ELSE Prepended(m, st, k, n.ins[least], rank(3 - least))
      inferred == Inferred(ready, k, "addition", NoDescriptor, NoConsts, <<operand(1), operand(2)>>, n.outs[1])
      constant(s, i) == IF ~s.thrown /\ IsConstant(s, operand(i)) THEN CreateConstantLayer(s, k, operand(i)) ELSE s
      a == ready.infos[operand(1)].shape
      b == ready.infos[operand(2)].shape
  IN CASE ~Floats(st, n) -> Failed(st)
       [] Floats(st, n) /\ ready.thrown -> ready
       [] OTHER -> IF \E i \in DOMAIN a : a[i] # b[i] /\ 1 \notin {a[i], b[i]} THEN Failed(st)
                   ELSE Register(constant(constant(inferred, 1), 2), Len(ready.net) + 1, n.outs[1])

ParseBatchNormalization(m, st, k) ==
  LET n == m.ops[k]
      const(i) == st.infos[n.ins[i]]
  IN IF ~Floats(st, n) \/ \E i \in 2 .. 5 : ~IsConstant(st, n.ins[i]) \/ ~HasValues(st, n.ins[i]) THEN Failed(st)
     ELSE AddInferred(st, k, "batchNormalization", [layout |-> "NCHW"],
                      [gamma |-> const(2), beta |-> const(3), mean |-> const(4), variance |-> const(5)],
                      <<n.ins[1]>>, n.outs[1])

InputCounts(op) ==
  CASE op = "BatchNormalization" -> {5} [] op = "Conv" -> {2, 3} [] op \in {"Reshape", "Add"} -> {2}
    [] op = "Constant" -> Nat [] OTHER -> {1}

KnownOperators ==
  {"BatchNormalization", "GlobalAveragePool", "AveragePool", "Constant", "MaxPool", "Reshape", "Relu", "Conv", "Add"}

ParseNode(m, st, k) ==
  LET op == m.ops[k].op
  IN CASE op \notin KnownOperators \/ Len(m.ops[k].ins) \notin InputCounts(op) -> Failed(st)
       [] op = "BatchNormalization" -> ParseBatchNormalization(m, st, k)
       [] op = "GlobalAveragePool" -> ParseGlobalAveragePool(m, st, k)
       [] op \in {"AveragePool", "MaxPool"} -> AddPoolingLayer(m, st, k)
       [] op = "Constant" -> ParseConstant(m, st, k)
       [] op = "Reshape" -> ParseReshape(m, st, k)
       [] op = "Relu" -> ParseRelu(m, st, k)
       [] op = "Conv" -> ParseConv(m, st, k)
       [] op = "Add" -> ParseAdd(m, st, k)

(* One turn of the loop over the nodes.  A product all of whose readers    *)
(* are fused with it has no layer of its own.                              *)
LoadNode(m, st, k) ==
  CASE m.ops[k].op = "MatMul" ->
         IF InputForNodes(m, k) = Cardinality(FusedWith(m, k)) THEN st ELSE AddFullyConnected(m, st, k, 0)
    [] m.ops[k].op # "MatMul" /\ FusedMatMul(m, k) # 0 -> AddFullyConnected(m, st, FusedMatMul(m, k), k)
    [] OTHER -> ParseNode(m, st, k)

New0 == [net |-> <<>>, producers |-> [t \in {} |-> NoSlot], infos |-> <<>>, consts |-> <<>>, types |-> <<>>,
         thrown |-> FALSE, escaped |-> FALSE]

ToTensorInfo(m, t) == Info(IF m.types[t] = "FLOAT" THEN "f32" ELSE "i32", m.infos[t].shape)

IsSupported(m, t) == m.types[t] \in {"FLOAT", "INT32", "INT64"}

(* What is known of the tensors: of the declared ones, and of those that   *)
(* will be broadcast nothing yet.  The model's outputs, its inputs and the *)
(* others are read in turn; an output or input without an info is a scalar.*)
SetupInfo(m) ==
  LET both(known, none) == known \o [t \in DOMAIN m.infos |-> none]
      known == [New0 EXCEPT !.infos = both(m.infos, NoInfo), !.consts = both(m.consts, NoConst), !.types = both(m.types, "FLOAT")]
      listed == m.outputs \o m.inputs \o SelectSeq([t \in DOMAIN m.infos |-> t], LAMBDA t : m.infos[t] # NoInfo)
      bad == {i \in DOMAIN listed : ~IsSupported(m, listed[i]) \/ ~IsTensorShape(m.infos[listed[i]].shape)}
  IN CASE bad = {} -> known
       [] bad # {} /\ IsSupported(m, listed[Min(bad)]) -> Uncaught(known)
       [] OTHER -> Failed(known)

(* The model's inputs that are not initialized, by their number.           *)
SetupInputLayers(m, st) ==
  LET add(s, i) ==
        IF IsConstant(s, m.inputs[i]) THEN s
        ELSE AddLayer(s, 0, Layer("input", [id |-> i - 1], NoConsts, <<>>, <<ToTensorInfo(m, m.inputs[i])>>), m.inputs[i])
  IN FoldLeft(add, st, [i \in DOMAIN m.inputs |-> i])

SetupOutputLayers(m, st) ==
  LET output(i) == Layer("output", [id |-> i - 1], NoConsts, <<Consumer(m.outputs[i])>>, <<>>)
  IN [st EXCEPT !.net = Placed(@, 0, [i \in DOMAIN m.outputs |-> output(i)])]

SetupLayers(m) ==
  LET known == SetupInfo(m)
      started == IF known.thrown THEN known ELSE SetupInputLayers(m, known)
  IN CASE started.thrown -> started
       [] ~started.thrown /\ m.outputs = <<>> -> Failed(started)
       [] OTHER -> SetupOutputLayers(m, started)

Connect(st) == [st EXCEPT !.net = Connected(@, st.producers)]

GetNetworkInputBindingInfo(m, i) == [id |-> i - 1, info |-> ToTensorInfo(m, m.inputs[i])]
GetNetworkOutputBindingInfo(m, i) == [id |-> i - 1, info |-> ToTensorInfo(m, m.outputs[i])]
=============================================================================
