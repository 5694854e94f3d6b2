---------------------------- MODULE TfLiteParser ----------------------------
(* armnnTfLiteParser: the layers each TensorFlow Lite operator becomes.    *)
(* An operator is [op, ins, outs, a]: the numbers of its tensors, and its  *)
(* options.  A tensor is [type, shape, values], its values if it has any.  *)
(* A parsing function gets the operator, n; of each input the slot, the    *)
(* info and the values, in; and the infos of the outputs, out, which the   *)
(* layers take from the model.                                             *)
EXTENDS ImportedNetwork

(* What an operator becomes: its layers, and the slots of its outputs.  A  *)
(* failing one does not keep the next from being parsed, an escaping one   *)
(* ends the call.                                                          *)
Failing == [layers |-> Thrown, outs |-> <<>>]
Escaping == [layers |-> Escaped, outs |-> <<>>]

LayerOf(kind, d, consts, ins, outs) ==
  [layers |-> <<Layer(kind, d, consts, ins, outs)>>, outs |-> [k \in DOMAIN outs |-> <<-1, k>>]]

OneInput(kind, d, in, out) == LayerOf(kind, d, NoConsts, <<in[1].slot>>, out)

ToTensorInfo(t) == Info(t.type, IF t.shape = <<>> THEN <<1>> ELSE t.shape)

IsKnown(t) == t.type \in {"u8", "f32", "i32"}
IsReadable(t) == IsKnown(t) /\ IsTensorShape(ToTensorInfo(t).shape)

HasBuffer(x) == NumElements(x.info) <= Len(x.values)

Pairs(values) == [i \in 1 .. Len(values) \div 2 |-> <<values[2 * i - 1], values[2 * i]>>]

ActivationFunction(op) ==
  CASE op = "RELU" -> "ReLu" [] op = "RELU6" -> "BoundedReLu" [] op = "LOGISTIC" -> "Sigmoid" [] op = "TANH" -> "TanH"

IsActivationSupported(n) == n.a.activation \in {"NONE", "RELU", "RELU6", "TANH"}

AddFusedActivationLayer(n, r) ==
  LET activation == Layer("activation", [function |-> ActivationFunction(n.a.activation)], NoConsts, r.outs,
                          <<r.layers[-r.outs[1][1]].outs[1]>>)
  IN CASE r = Failing \/ ~IsActivationSupported(n) -> Failing
       [] n.a.activation = "NONE" -> r
       [] OTHER -> [layers |-> Append(r.layers, activation), outs |-> <<New(Len(r.layers) + 1)>>]

----------------------------------------------------------------------------

WindowPads(n, info, kernel, dilation) ==
  [dim \in 1 .. 2 |-> CalcPadding(info.shape[1 + dim], kernel[dim] + (dilation[dim] - 1) * (kernel[dim] - 1),
                                  n.a.stride[dim], n.a.padding = "SAME")]

(* What a window becomes, r, unless its activation is refused or an input  *)
(* has not the dimensions it is computed from.                             *)
InWindow(n, infos, dimensions, r) ==
  CASE ~IsActivationSupported(n) -> Failing
    [] IsActivationSupported(n) /\ \E i \in DOMAIN infos : Rank(infos[i]) < dimensions -> Escaping
    [] OTHER -> r

(* The weights and, with a third input, the bias.                          *)
WeightsOf(in, weight) ==
  IF Len(in) = 3 THEN [weight |-> weight, bias |-> in[3].info] ELSE [weight |-> weight]

ConvolutionLayer(kind, n, in, out, weight) ==
  LET kernel == <<in[2].info.shape[2], in[2].info.shape[3]>>
      d == [layout |-> "NHWC", stride |-> n.a.stride, dilation |-> n.a.dilation, bias |-> Len(in) = 3,
            pads |-> WindowPads(n, in[1].info, kernel, n.a.dilation)]
  IN IF \A i \in 2 .. Len(in) : HasBuffer(in[i])
     THEN AddFusedActivationLayer(n, LayerOf(kind, d, WeightsOf(in, weight), <<in[1].slot>>, out))
     ELSE Failing

ParseConv2D(n, in, out) ==
  InWindow(n, <<in[1].info, in[2].info>>, 3, ConvolutionLayer("convolution2d", n, in, out, in[2].info))

(* [1, H, W, I * M] is taken as [H, W, I, M] and becomes [M, I, H, W].     *)
ParseDepthwiseConv2D(n, in, out) ==
  LET shape == in[2].info.shape
      channels == in[1].info.shape[4]
      weight == Reshaped(in[2].info, Permuted(<<shape[2], shape[3], channels, shape[4] \div channels>>, <<2, 3, 1, 0>>))
  IN IF n.a.multiplier # 1 THEN Failing
     ELSE InWindow(n, <<in[1].info, in[2].info>>, 4, ConvolutionLayer("depthwiseConvolution2d", n, in, out, weight))

ParsePool(n, in, out) ==
  LET d == [layout |-> "NHWC", pool |-> n.a.filter, stride |-> n.a.stride, rounding |-> "floor",
            pads |-> WindowPads(n, in[1].info, n.a.filter, <<1, 1>>)]
  IN InWindow(n, <<in[1].info>>, 3, AddFusedActivationLayer(n, OneInput("pooling2d", d, in, out)))

ParseBatchToSpaceND(n, in, out) ==
  OneInput("batchToSpaceNd", [layout |-> "NHWC", block |-> in[2].values, crops |-> Pairs(in[3].values)], in, out)

ParseSpaceToBatchND(n, in, out) ==
  OneInput("spaceToBatchNd", [layout |-> "NHWC", block |-> in[2].values, pads |-> Pairs(in[3].values)], in, out)

(* The operand of less dimensions, with ones in front of its own, becomes  *)
(* the first input of the layer and the other one the second.              *)
BroadcastReshape(kind, in, out) ==
  LET least == IF Rank(in[2].info) < Rank(in[1].info) THEN 2 ELSE 1
      rank == Rank(in[3 - least].info)
      shape == [i \in 1 .. rank - Rank(in[least].info) |-> 1] \o in[least].info.shape
  IN [layers |-> <<Layer(kind, NoDescriptor, NoConsts, <<New(2), in[3 - least].slot>>, out),
                   Layer("reshape", [target |-> shape], NoConsts, <<in[least].slot>>, <<Reshaped(in[least].info, shape)>>)>>,
      outs |-> <<New(1)>>]

BinaryLayer(kind, in, out) ==
  IF Rank(in[1].info) # Rank(in[2].info) THEN BroadcastReshape(kind, in, out)
  ELSE LayerOf(kind, NoDescriptor, NoConsts, <<in[1].slot, in[2].slot>>, out)

OutputShapeOfSqueeze(shape, squeezeDims) ==
  LET dims == IF squeezeDims = {} THEN DOMAIN shape ELSE {i + 1 : i \in squeezeDims}
      kept == SelectSeq([i \in DOMAIN shape |-> i], LAMBDA i : i \notin dims \/ shape[i] # 1)
  IN [k \in DOMAIN kept |-> shape[kept[k]]]

ReshapeTo(shape, in) == OneInput("reshape", [target |-> shape], in, <<Reshaped(in[1].info, shape)>>)

ParseSqueeze(n, in, out) ==
  IF \E d \in n.a.squeeze_dims : d < 0 THEN Failing
  ELSE ReshapeTo(OutputShapeOfSqueeze(in[1].info.shape, n.a.squeeze_dims), in)

ParseReshape(n, in, out) ==
  LET shape == Stretched(NumElements(in[1].info), n.a.new_shape)
      twice == n.a.new_shape # <<>> /\ shape = Thrown
  IN CASE twice -> Failing
       [] ~twice /\ ~IsTensorShape(shape) -> Escaping
       [] OTHER -> IF Len(in) > 1 /\ shape # out[1].shape THEN Failing ELSE ReshapeTo(shape, in)

ParseStridedSlice(n, in, out) ==
  OneInput("stridedSlice",
           [begin |-> in[2].values, end |-> in[3].values, stride |-> in[4].values, beginMask |-> n.a.begin_mask,
            endMask |-> n.a.end_mask, shrinkAxisMask |-> n.a.shrink_axis_mask], in, out)

(* The dimensions are kept if the output has as many.                      *)
ParseMean(n, in, out) ==
  OneInput("mean", [axis |-> {v + 1 : v \in ToSet(in[2].values)}, keepDims |-> Rank(in[1].info) = Rank(out[1])], in, out)

ParsePad(n, in, out) == OneInput("pad", [pads |-> Pairs(in[2].values)], in, out)

ParseResizeBilinear(n, in, out) ==
  OneInput("resizeBilinear", [layout |-> "NHWC", target |-> <<in[2].values[1], in[2].values[2]>>], in, out)

ParseConcatenation(n, in, out) ==
  LET rank == Rank(in[1].info)
      axis == (rank + n.a.axis) % rank
      d == [axis |-> axis, origins |-> ConcatOrigins([v \in DOMAIN in |-> in[v].info], axis + 1)]
  IN AddFusedActivationLayer(n, LayerOf("merger", d, NoConsts, [v \in DOMAIN in |-> in[v].slot], out))

(* An input of more than two dimensions is reshaped to rows of the weights.*)
ParseFullyConnected(n, in, out) ==
  LET columns == in[2].info.shape[2]
      shape == <<NumElements(in[1].info) \div columns, columns>>
      flat == Rank(in[1].info) <= 2
      layer == Layer("fullyConnected", [transpose |-> TRUE, bias |-> Len(in) = 3], WeightsOf(in, in[2].info),
                     <<IF flat THEN in[1].slot ELSE New(2)>>, out)
      reshape == Layer("reshape", [target |-> shape], NoConsts, <<in[1].slot>>, <<Reshaped(in[1].info, shape)>>)
  IN IF Rank(in[2].info) # 2 \/ \E i \in 2 .. Len(in) : ~HasBuffer(in[i]) THEN Failing
     ELSE IF ~flat /\ NumElements(in[1].info) % columns # 0 THEN Escaping
     ELSE AddFusedActivationLayer(n, [layers |-> IF flat THEN <<layer>> ELSE <<layer, reshape>>, outs |-> <<New(1)>>])

(* A splitter of equal views along an axis, which counts from zero.        *)
SplitterDescriptor(size, axis, views) ==
  [sizes |-> [v \in 1 .. views |-> size],
   origins |-> [v \in 1 .. views |-> [i \in DOMAIN size |-> IF i = axis + 1 THEN size[i] * (v - 1) ELSE 0]]]

(* Each view of one element along the axis, then without the axis.         *)
ParseUnpack(n, in, out) ==
  LET shape == in[1].info.shape
      num == IF n.a.num = 0 THEN shape[n.a.axis + 1] ELSE n.a.num
      size == [shape EXCEPT ![n.a.axis + 1] = 1]
      rest == RemoveAt(shape, n.a.axis + 1)
      splitter == Layer("splitter", SplitterDescriptor(size, n.a.axis, num), NoConsts, <<in[1].slot>>,
                        [v \in 1 .. num |-> Reshaped(in[1].info, size)])
      reshape(v) == Layer("reshape", [target |-> rest], NoConsts, << <<-1, v>> >>, <<Reshaped(in[1].info, rest)>>)
  IN IF n.a.axis >= Len(shape) \/ Len(out) # num \/ num = 0 \/ shape[n.a.axis + 1] # num THEN Failing
     ELSE [layers |-> <<splitter>> \o [v \in 1 .. num |-> reshape(v)], outs |-> [v \in 1 .. num |-> New(v + 1)]]

(* The axis is the first input.                                            *)
ParseSplit(n, in, out) ==
  LET axis == in[1].values[1]
      x == in[2]
      size == [x.info.shape EXCEPT ![axis + 1] = @ \div n.a.num_splits]
  IN IF n.a.num_splits = 0 \/ Len(out) # n.a.num_splits \/ axis \in {0, 2} \/ x.info.shape[axis + 1] % n.a.num_splits # 0
     THEN Failing
     ELSE LayerOf("splitter", SplitterDescriptor(size, axis, n.a.num_splits), NoConsts, <<x.slot>>,
                  [v \in DOMAIN out |-> Reshaped(x.info, size)])

(* The shapes it puts in place of the model's for its outputs.             *)
DetectionShapes(n) ==
  << <<1, n.a.detections, 4>>, <<1, n.a.detections>>, <<1, n.a.detections>>, <<1>> >>

ParseDetectionPostProcess(n, in, out, overridden) ==
  IF ~HasBuffer(in[3]) THEN Failing
  ELSE LayerOf("detectionPostProcess", [detections |-> n.a.detections], [anchors |-> in[3].info],
               <<in[1].slot, in[2].slot>>, [i \in 1 .. 4 |-> Reshaped(out[i], overridden[i])])

----------------------------------------------------------------------------
(* The parser.  Its state st has the network, net; the slot that produces  *)
(* each tensor, producers; whether an operator failed, which does not stop *)
(* the next one; the output shapes a detection has put in place of the     *)
(* model's, overridden, and whether an exception was thrown, and has       *)
(* escaped the loop over the operators.  The model m has its tensors, its  *)
(* operators ops, and its inputs and outputs.  A layer's node is the number*)
(* of its operator, or zero.                                               *)

InputCounts(op) ==
  CASE op \in {"CONV_2D", "DEPTHWISE_CONV_2D"} -> {2, 3}
    [] op \in {"BATCH_TO_SPACE_ND", "SPACE_TO_BATCH_ND"} -> {3}
    [] op = "STRIDED_SLICE" -> {4}
    [] op \in {"MAXIMUM", "MINIMUM", "SUB", "ADD", "MUL", "RESIZE_BILINEAR", "SPLIT"} -> {2}
    [] op \in {"MEAN", "PAD", "RESHAPE", "CONCATENATION", "FULLY_CONNECTED", "CUSTOM"} -> Nat
    [] OTHER -> {1}

OutputCounts(op) ==
  CASE op = "CUSTOM" -> {4} [] op \in {"SPLIT", "UNPACK"} -> Nat [] OTHER -> {1}

KnownOperators ==
  {"AVERAGE_POOL_2D", "BATCH_TO_SPACE_ND", "CONCATENATION", "CONV_2D", "DEPTHWISE_CONV_2D", "CUSTOM",
   "FULLY_CONNECTED", "LOGISTIC", "MAX_POOL_2D", "MAXIMUM", "MINIMUM", "RELU", "RELU6", "RESHAPE",
   "RESIZE_BILINEAR", "SOFTMAX", "SPACE_TO_BATCH_ND", "SQUEEZE", "STRIDED_SLICE", "SUB", "ADD", "MUL", "MEAN",
   "PAD", "SPLIT", "TANH", "UNPACK"}

ElementwiseKind(op) ==
  CASE op = "MAXIMUM" -> "maximum" [] op = "MINIMUM" -> "minimum" [] op = "SUB" -> "subtraction"
    [] op = "ADD" -> "addition" [] op = "MUL" -> "multiplication"

Parse(n, in, out, overridden) ==
  CASE n.op \in {"MAXIMUM", "MINIMUM"} -> BinaryLayer(ElementwiseKind(n.op), in, out)
    [] n.op \in {"SUB", "ADD", "MUL"} -> AddFusedActivationLayer(n, BinaryLayer(ElementwiseKind(n.op), in, out))
    [] n.op = "CONV_2D" -> ParseConv2D(n, in, out)
    [] n.op = "DEPTHWISE_CONV_2D" -> ParseDepthwiseConv2D(n, in, out)
    [] n.op \in {"AVERAGE_POOL_2D", "MAX_POOL_2D"} -> ParsePool(n, in, out)
    [] n.op = "BATCH_TO_SPACE_ND" -> ParseBatchToSpaceND(n, in, out)
    [] n.op = "SPACE_TO_BATCH_ND" -> ParseSpaceToBatchND(n, in, out)
    [] n.op = "SOFTMAX" -> OneInput("softmax", NoDescriptor, in, out)
    [] n.op \in {"RELU", "RELU6", "LOGISTIC", "TANH"} ->
         OneInput("activation", [function |-> ActivationFunction(n.op)], in, out)
    [] n.op = "SQUEEZE" -> ParseSqueeze(n, in, out)
    [] n.op = "RESHAPE" -> ParseReshape(n, in, out)
    [] n.op = "STRIDED_SLICE" -> ParseStridedSlice(n, in, out)
    [] n.op = "MEAN" -> ParseMean(n, in, out)
    [] n.op = "PAD" -> ParsePad(n, in, out)
    [] n.op = "RESIZE_BILINEAR" -> ParseResizeBilinear(n, in, out)
    [] n.op = "CONCATENATION" -> ParseConcatenation(n, in, out)
    [] n.op = "FULLY_CONNECTED" -> ParseFullyConnected(n, in, out)
    [] n.op = "UNPACK" -> ParseUnpack(n, in, out)
    [] n.op = "SPLIT" -> ParseSplit(n, in, out)
    [] n.op = "CUSTOM" -> ParseDetectionPostProcess(n, in, out, overridden)

New0 == [net |-> <<>>, producers |-> [t \in {} |-> NoSlot], failed |-> FALSE, overridden |-> <<>>,
         thrown |-> FALSE, escaped |-> FALSE]

(* ResetParser, which keeps the overridden shapes.                         *)
ResetParser(st) == [New0 EXCEPT !.overridden = st.overridden]

(* The loop catches a ParseException and goes on; what ends it is that a   *)
(* TensorShape cannot be made or lacks a dimension, that the message for an*)
(* input that cannot be flattened is no format, or the threshold of a      *)
(* detection.                                                              *)
ParseOperator(m, st, k) ==
  LET n == m.ops[k]
      in == [i \in DOMAIN n.ins |-> [slot |-> Consumer(n.ins[i]), info |-> ToTensorInfo(m.tensors[n.ins[i]]),
                                     values |-> m.tensors[n.ins[i]].values]]
      out == [i \in DOMAIN n.outs |-> ToTensorInfo(m.tensors[n.outs[i]])]
      known == /\ n.op \in KnownOperators /\ Len(n.ins) \in InputCounts(n.op) /\ Len(n.outs) \in OutputCounts(n.op)
               /\ \A t \in ToSet(n.ins) \cup ToSet(n.outs) : IsKnown(m.tensors[t])
      detected == known /\ n.op = "CUSTOM"
      overridden == IF detected /\ HasBuffer(in[3]) THEN st.overridden \o DetectionShapes(n) ELSE st.overridden
      readable == \A t \in ToSet(n.ins) \cup ToSet(n.outs) : IsReadable(m.tensors[t])
      r == CASE ~known -> Failing
             [] known /\ (~readable \/ (detected /\ ~n.a.iouValid)) -> Escaping
             [] OTHER -> Parse(n, in, out, overridden)
      placed == [k2 \in DOMAIN n.outs |-> <<Len(st.net) - r.outs[k2][1], r.outs[k2][2]>>]
      next == [st EXCEPT !.overridden = overridden]
  IN CASE Escapes(r.layers) -> Uncaught(st)
       [] r = Failing \/ (~Escapes(r.layers) /\ ToSet(n.outs) \cap DOMAIN st.producers # {}) -> [next EXCEPT !.failed = TRUE]
       [] OTHER -> [next EXCEPT !.net = Placed(@, k, r.layers),
                                !.producers = @ @@ [t \in ToSet(n.outs) |-> placed[CHOOSE i \in DOMAIN n.outs : n.outs[i] = t]]]

GenerateLayerBindingId(t) == 256 * t

SetupInputLayers(m, st) ==
  LET add(s, t) ==
        IF s.thrown \/ ~IsReadable(m.tensors[t]) \/ t \in DOMAIN s.producers THEN [s EXCEPT !.thrown = TRUE]
        ELSE [s EXCEPT !.net = Placed(@, 0, <<Layer("input", [id |-> GenerateLayerBindingId(t)], NoConsts, <<>>,
                                                    <<ToTensorInfo(m.tensors[t])>>)>>),
                       !.producers = @ @@ (t :> <<Len(s.net) + 1, 1>>)]
  IN FoldLeft(add, st, m.inputs)

SetupOutputLayers(m, st) ==
  [st EXCEPT !.net = Placed(@, 0, [i \in DOMAIN m.outputs |->
     Layer("output", [id |-> GenerateLayerBindingId(m.outputs[i])], NoConsts, <<Consumer(m.outputs[i])>>, <<>>)])]

Consumed(net) == {s[2] : s \in {s \in UNION {ToSet(net[k].from) : k \in DOMAIN net} : s[1] = 0}}

SetupNoConstants(m, st) == st  \* mutant

(* A constant for every tensor that is read and that nothing produces.     *)
SetupConstantLayers(m, st) ==
  LET unproduced == SelectSeq([t \in DOMAIN m.tensors |-> t], LAMBDA t : t \in Consumed(st.net) \ DOMAIN st.producers)
      info(t) == ToTensorInfo(m.tensors[t])
  IN IF \E t \in ToSet(unproduced) : ~IsReadable(m.tensors[t]) \/ NumElements(info(t)) > Len(m.tensors[t].values)
     THEN [st EXCEPT !.thrown = TRUE]
     ELSE [st EXCEPT
             !.net = Placed(@, 0, [k \in DOMAIN unproduced |->
                       Layer("constant", NoDescriptor, [output |-> info(unproduced[k])], <<>>, <<info(unproduced[k])>>)]),
             !.producers = @ @@ [t \in ToSet(unproduced) |-> <<Len(st.net) + SelectInSeq(unproduced, LAMBDA u : u = t), 1>>]]

(* The layers of inputs, outputs and constants; the failure of operators.  *)
SetupLayers(m, st) ==
  LET inputs == SetupInputLayers(m, st)
      outputs == SetupOutputLayers(m, inputs)
      all == IF inputs.thrown THEN inputs ELSE SetupConstantLayers(m, outputs)
  IN [all EXCEPT !.thrown = @ \/ st.failed]

Connect(st) == [st EXCEPT !.net = Connected(@, st.producers)]

(* What the parser says of the bindings, by tensor.                        *)
GetNetworkInputBindingInfo(m, st, i) ==
  [id |-> GenerateLayerBindingId(m.inputs[i]), info |-> ToTensorInfo(m.tensors[m.inputs[i]])]

GetDeclaredBindingInfo(m, st, i) ==  \* mutant
  [id |-> GenerateLayerBindingId(m.outputs[i]), info |-> ToTensorInfo(m.tensors[m.outputs[i]])]

GetNetworkOutputBindingInfo(m, st, i) ==
  LET t == m.tensors[m.outputs[i]]
  IN [id |-> GenerateLayerBindingId(m.outputs[i]),
      info |-> IF st.overridden # <<>> THEN Info(t.type, st.overridden[i]) ELSE ToTensorInfo(t)]
=============================================================================
