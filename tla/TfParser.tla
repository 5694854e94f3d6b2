------------------------------ MODULE TfParser ------------------------------
(* armnnTfParser: the layers each TensorFlow node becomes.  A node is      *)
(* [op, ins, a]: its inputs as <<node, output>>, output -1 for a control   *)
(* input, and its attributes by name.  A parsing function gets the node,   *)
(* n, and its operands, in: the slot, the info, the constant if it is one, *)
(* and the op of each.  A tensor parsed as a constant is one.              *)
EXTENDS ImportedNetwork

ControlInput == -1
Unreadable == -2  \* an output std::stoi does not take for a number

NoConst == Tensor("none", <<>>, <<>>)

IsConst(x, type) == x.const.type = type

(* One layer from the first operand, of its shape.                         *)
Alike(kind, d, in) == <<Layer(kind, d, NoConsts, <<in[1].slot>>, <<in[1].info>>)>>

ReshapeLayer(x, info) ==
  Layer("reshape", [target |-> info.shape], NoConsts, <<x.slot>>, <<info>>)

(* A vector as a tensor of the other operand's rank, along its channels.   *)
BroadcastInfo(other, x, isNHWC) ==
  LET matchDim == Rank(other) - (IF isNHWC THEN 0 ELSE 2)
  IN Reshaped(x.info, [i \in 1 .. Rank(other) |-> IF i = matchDim THEN x.info.shape[1] ELSE 1])

MaxOf(a, b) == Reshaped(a, ElementwiseMax(a.shape, b.shape))

(* The output's info, from those of the two inputs.                        *)
OutputOf(out, a, b) ==
  CASE out = "first" -> a [] out = "second" -> b
    [] out = "max" -> MaxOf(a, b) [] out = "boolMax" -> Info("bool", MaxOf(a, b).shape)

(* Two operands of an element-wise layer, the first or the second (neither *)
(* if which is 0) reshaped in front of it.                                 *)
Broadcast(kind, in, which, isNHWC, out) ==
  LET reshaped == BroadcastInfo(in[3 - which].info, in[which], isNHWC)
      info(i) == IF i = which THEN reshaped ELSE in[i].info
      slot(i) == IF i = which THEN New(1) ELSE in[i].slot
  IN (IF which = 0 THEN <<>> ELSE <<ReshapeLayer(in[which], reshaped)>>)
       \o <<Layer(kind, NoDescriptor, NoConsts, <<slot(1), slot(2)>>, <<OutputOf(out, info(1), info(2))>>)>>

Ranks(in) == <<Rank(in[1].info), Rank(in[2].info)>>

(* Which operand a layer of equal or four against one dimensions reshapes. *)
FourAgainstOne(in) == CASE Ranks(in) = <<1, 4>> -> 1 [] Ranks(in) = <<4, 1>> -> 2 [] OTHER -> 0

(* ProcessElementwiseInputSlots with the layer its callers make; also      *)
(* CreateAdditionLayer.                                                    *)
ProcessElementwise(kind, in, out) ==
  IF Ranks(in)[1] # Ranks(in)[2] /\ FourAgainstOne(in) = 0 THEN Thrown
  ELSE Broadcast(kind, in, FourAgainstOne(in), TRUE, out)

LowerRank(in) ==
  CASE Ranks(in)[1] < Ranks(in)[2] -> 1 [] Ranks(in)[2] < Ranks(in)[1] -> 2 [] OTHER -> 0

(* A lower operand is reshaped, and the output is as the other one.        *)
AddScalingLayer(kind, in) ==
  IF LowerRank(in) = 1 THEN Broadcast(kind, in, 1, TRUE, "second")
  ELSE Broadcast(kind, in, LowerRank(in), TRUE, "first")

AddRealDivLayer(in) == AddScalingLayer("division", in)
AddMultiplicationLayer(in) == AddScalingLayer("multiplication", in)

AddMaximumLayer(in) == Broadcast("maximum", in, LowerRank(in), TRUE, "max")

(* Two vectors are both reshaped, to what they already are.                *)
BothVectors(kind, in, out) ==
  <<ReshapeLayer(in[1], in[1].info), ReshapeLayer(in[2], in[2].info),
    Layer(kind, NoDescriptor, NoConsts, <<New(1), New(2)>>, <<OutputOf(out, in[1].info, in[2].info)>>)>>

Vector(in) == CASE Ranks(in)[1] = 1 -> 1 [] Ranks(in)[2] = 1 -> 2 [] OTHER -> 0

ParseSub(n, in) ==
  CASE Ranks(in) = <<1, 1>> -> BothVectors("subtraction", in, "second")
    [] Ranks(in) # <<1, 1>> /\ Vector(in) = 1 -> Broadcast("subtraction", in, 1, TRUE, "second")
    [] OTHER -> Broadcast("subtraction", in, Vector(in), TRUE, "first")

AddAdditionLayer(in) ==
  CASE Ranks(in) = <<1, 1>> -> BothVectors("addition", in, "max")
    [] Ranks(in)[1] = Ranks(in)[2] /\ Ranks(in)[1] > 1 -> Broadcast("addition", in, 0, TRUE, "max")
    [] Ranks(in)[1] = 1 /\ Ranks(in)[2] > 1 -> Broadcast("addition", in, 1, TRUE, "second")
    [] OTHER -> Broadcast("addition", in, Vector(in), TRUE, "first")

(* In the layout NCHW an operand of less than three dimensions is written  *)
(* to out of bounds; such a node is not a state of the model.              *)
ParseBiasAdd(n, in) ==
  IF Rank(in[2].info) # 1 \/ n.a.data_format \notin {"NHWC", "NCHW"} THEN Thrown
  ELSE Broadcast("addition", in, 2, n.a.data_format = "NHWC",
                 IF Rank(in[1].info) = 1 THEN "max" ELSE "first")

(* Additions of a tree: an operand that is the tree's own k-th layer has   *)
(* the slot <<0, k>> until its layers are known to be the node's.          *)
Joined(layers, count) ==
  LET slot(s) == IF s[1] = 0 THEN New(s[2]) ELSE IF s[1] < 0 THEN <<s[1] - count, s[2]>> ELSE s
  IN [k \in DOMAIN layers |->
        [layers[k] EXCEPT !.from = [i \in DOMAIN layers[k].from |-> slot(layers[k].from[i])]]]

Sum(tree, x, y) ==
  LET added == ProcessElementwise("addition", <<x, y>>, "max")
      layers == tree.layers \o Joined(added, Len(tree.layers))
  IN IF ~tree.ok \/ added = Thrown THEN [tree EXCEPT !.ok = FALSE]
     ELSE [ok |-> TRUE, layers |-> layers,
           sums |-> Append(tree.sums, [slot |-> <<0, Len(layers)>>, info |-> Last(layers).outs[1]])]

(* Consecutive pairs; what is left without a partner is left out.          *)
SumPairs(tree, operands) ==
  FoldLeft(LAMBDA t, p : Sum(t, operands[2 * p - 1], operands[2 * p]),
           [tree EXCEPT !.sums = <<>>], [p \in 1 .. Len(operands) \div 2 |-> p])

ParseAddN(n, in) ==
  LET pairs == SumPairs([ok |-> TRUE, layers |-> <<>>, sums |-> <<>>], in)
      tree == FoldLeft(LAMBDA t, level : IF Len(t.sums) > 1 THEN SumPairs(t, t.sums) ELSE t, pairs, in)
      final == IF tree.ok /\ n.a.N % 2 = 1 THEN Sum(tree, in[n.a.N], tree.sums[1]) ELSE tree
  IN CASE n.a.N = 2 -> AddAdditionLayer(in)
       [] n.a.N > 2 /\ final.ok -> final.layers
       [] OTHER -> Thrown

----------------------------------------------------------------------------

(* The output of a window of a kernel over a length, with its padding.     *)
OutLength(length, kernel, stride, padding) ==
  IF padding = "SAME" THEN CeilDiv(length, stride) ELSE CeilDiv(length - kernel + 1, stride)

(* The height and the width of an input are read, with the layout it has,  *)
(* before the padding is known.                                            *)
InKnownLayout(n, info, layers) ==
  IF n.a.data_format \notin {"NHWC", "NCHW"} THEN Thrown ELSE IfRank(info, WidthIndex(n.a.data_format), layers)

WithKnownPadding(n, layers) == IF n.a.padding \notin {"SAME", "VALID"} THEN Thrown ELSE layers

WindowPads(n, info, kernel) ==
  LET y == n.a.data_format
      pad(i, k) == CalcPadding(info.shape[i], k, n.a.strides[i], n.a.padding = "SAME")
  IN <<pad(HeightIndex(y), kernel[1]), pad(WidthIndex(y), kernel[2])>>

WindowStride(n) == <<n.a.strides[HeightIndex(n.a.data_format)], n.a.strides[WidthIndex(n.a.data_format)]>>

(* The shape of the output; a kernel that reaches behind the input gives a *)
(* size no tensor has.                                                     *)
WindowShape(n, info, kernel, channels) ==
  LET y == n.a.data_format
      out(i, k) == OutLength(info.shape[i], k, n.a.strides[i], n.a.padding)
  IN InLayout(y, info.shape[1], channels, out(HeightIndex(y), kernel[1]), out(WidthIndex(y), kernel[2]))

ConvolutionLayer(kind, n, in, weights, kernel, channels) ==
  LET d == [layout |-> n.a.data_format, stride |-> WindowStride(n), dilation |-> <<1, 1>>,
            pads |-> WindowPads(n, in[1].info, kernel), bias |-> FALSE]
  IN <<Layer(kind, d, [weight |-> weights], <<in[1].slot>>,
             <<Info("f32", WindowShape(n, in[1].info, kernel, channels))>>)>>

(* [H, W, In, Out] becomes [Out, H, W, In] or [Out, In, H, W].             *)
ParseConv2D(n, in) ==
  LET y == n.a.data_format
      weights == PermutedInfo(ConstInfo(in[2].const), IF y = "NHWC" THEN <<1, 2, 3, 0>> ELSE <<2, 3, 1, 0>>)
      layers == ConvolutionLayer("convolution2d", n, in, weights,
                                 <<weights.shape[HeightIndex(y)], weights.shape[WidthIndex(y)]>>, weights.shape[1])
  IN IF ~IsConst(in[2], "f32") \/ ("dilations" \in DOMAIN n.a /\ ToSet(n.a.dilations) # {1}) THEN Thrown
     ELSE InKnownLayout(n, in[1].info, IfRank(ConstInfo(in[2].const), 4, WithKnownPadding(n, layers)))

(* [H, W, I, M] becomes [M, I, H, W] in either layout.                     *)
ParseDepthwiseConv2D(n, in) ==
  LET weights == PermutedInfo(ConstInfo(in[2].const), <<2, 3, 1, 0>>)
      layers == ConvolutionLayer("depthwiseConvolution2d", n, in, weights, <<weights.shape[3], weights.shape[4]>>,
                                 weights.shape[1] * weights.shape[2])
  IN IF ~IsConst(in[2], "f32") THEN Thrown
     ELSE InKnownLayout(n, in[1].info, IfRank(ConstInfo(in[2].const), 4, WithKnownPadding(n, layers)))

ParsePooling2d(n, in) ==
  LET y == n.a.data_format
      pool == <<n.a.ksize[HeightIndex(y)], n.a.ksize[WidthIndex(y)]>>
      d == [layout |-> y, stride |-> WindowStride(n), pool |-> pool, rounding |-> "floor",
            pads |-> WindowPads(n, in[1].info, pool)]
      layers == <<Layer("pooling2d", d, NoConsts, <<in[1].slot>>,
                        <<Info("f32", WindowShape(n, in[1].info, pool, in[1].info.shape[ChannelsIndex(y)]))>>)>>
  IN InKnownLayout(n, in[1].info, WithKnownPadding(n, IfRank(in[1].info, 4, layers)))

(* Scale, offset, mean and variance are the inputs from the second on.     *)
ParseFusedBatchNorm(n, in) ==
  LET const(i) == ConstInfo(in[i].const)
      consts == [gamma |-> const(2), beta |-> const(3), mean |-> const(4), variance |-> const(5)]
  IN IF (\E i \in 2 .. 5 : ~IsConst(in[i], "f32")) \/ n.a.data_format \notin {"NHWC", "NCHW"} THEN Thrown
     ELSE <<Layer("batchNormalization", [layout |-> n.a.data_format], consts, <<in[1].slot>>, <<in[1].info>>)>>

ParseLrn(n, in) ==
  Alike("normalization", [layout |-> "NHWC", normSize |-> n.a.depth_radius * 2 + 1, across |-> TRUE], in)

----------------------------------------------------------------------------

ReshapeTo(in, info) == <<ReshapeLayer(in[1], info)>>

OutputShapeOfExpandDims(shape, dim) == InsertAt(shape, (IF dim < 0 THEN Len(shape) + 1 + dim ELSE dim) + 1, 1)

ParseExpandDims(n, in) ==
  LET shape == in[1].info.shape
  IN IF n.a.Tdim \notin -1 - Len(shape) .. Len(shape) THEN Escaped
     ELSE IF Len(shape) = 4 THEN Thrown
     ELSE ReshapeTo(in, Reshaped(in[1].info, OutputShapeOfExpandDims(shape, n.a.Tdim)))

ParseSqueeze(n, in) ==
  LET shape == in[1].info.shape
      dims == IF n.a.squeeze_dims = <<>> THEN DOMAIN shape ELSE {i + 1 : i \in ToSet(n.a.squeeze_dims)}
      kept == SelectSeq([i \in DOMAIN shape |-> i], LAMBDA i : i \notin dims \/ shape[i] # 1)
  IN IF n.a.T \notin {"f32", "i32"} THEN Thrown
     ELSE ReshapeTo(in, Info(n.a.T, [k \in DOMAIN kept |-> shape[kept[k]]]))

ParseReshape(n, in) ==
  LET shape == Stretched(NumElements(in[1].info), in[2].const.values)
  IN IF ~IsConst(in[2], "i32") \/ shape = Thrown THEN Thrown ELSE ReshapeTo(in, Reshaped(in[1].info, shape))

(* The messages of the exceptions thrown for a wrong padding tensor or a   *)
(* negative amount are no formats boost takes, and it throws another one.  *)
ParsePad(n, in) ==
  LET c == in[2].const
      pads == [i \in DOMAIN in[1].info.shape |-> <<c.values[2 * i - 1], c.values[2 * i]>>]
  IN IF ~IsConst(in[2], "i32") THEN Thrown
     ELSE IF \/ Len(c.shape) < 2 \/ SubSeq(c.shape, 1, 2) # <<Rank(in[1].info), 2>>
             \/ \E i \in DOMAIN pads : Min(ToSet(pads[i])) < 0
     THEN Escaped
     ELSE <<Layer("pad", [pads |-> pads], NoConsts, <<in[1].slot>>,
                  <<Reshaped(in[1].info, [i \in DOMAIN pads |-> in[1].info.shape[i] + pads[i][1] + pads[i][2]])>>)>>

(* The axes that are constants; the first of them is taken.                *)
GetConstInputIndex(in) == {i \in DOMAIN in : IsConst(in[i], "i32")}
AxisOf(in) == in[Min(GetConstInputIndex(in))].const.values[1]

(* All inputs but the last are views, whichever of them was the constant.  *)
ConcatViews(in) == SubSeq(in, 1, Len(in) - 1)

ParseConcat(n, in) ==
  LET axis == AxisOf(in) + 1
      infos == [v \in 1 .. Len(in) - 1 |-> in[v].info]
      out == [Last(infos).shape EXCEPT ![axis] = ConcatSize(infos, axis)]
  IN IF GetConstInputIndex(in) = {} \/ axis \in {1, 3} \/ Rank(infos[1]) # 4 THEN Thrown
     ELSE IF axis \notin {2, 4} THEN Escaped
     ELSE IF \E v \in DOMAIN infos : Rank(infos[v]) # 4 THEN Thrown
     ELSE <<Layer("merger", [axis |-> axis - 1, origins |-> ConcatOrigins(infos, axis)], NoConsts,
                  [v \in DOMAIN infos |-> in[v].slot], <<Info("f32", out)>>)>>

(* The input that is not the axis is split.                                *)
SplitInput(in) == 3 - Min(GetConstInputIndex(in))

ParseSplit(n, in) ==
  LET axis == AxisOf(in) + 1
      x == in[SplitInput(in)]
      size == [x.info.shape EXCEPT ![axis] = @ \div n.a.num_split]
      parts == 1 .. n.a.num_split
      d == [sizes |-> [p \in parts |-> size],
            origins |-> [p \in parts |-> [i \in 1 .. 4 |-> IF i = axis THEN size[axis] * (p - 1) ELSE 0]]]
  IN IF GetConstInputIndex(in) = {} \/ axis \in {1, 3} \/ Rank(x.info) # 4 \/ x.info.shape[axis] % n.a.num_split # 0
     THEN Thrown
     ELSE <<Layer("splitter", d, NoConsts, <<x.slot>>, [p \in parts |-> Reshaped(x.info, size)])>>

ParseResizeBilinear(n, in) ==
  LET size == in[2].const.values
      shape == in[1].info.shape
      layers == <<Layer("resizeBilinear", [layout |-> "NHWC", target |-> <<size[1], size[2]>>], NoConsts,
                        <<in[1].slot>>, <<Info("f32", <<shape[1], size[1], size[2], shape[4]>>)>>)>>
  IN IF ~IsConst(in[2], "i32") \/ n.a.align_corners THEN Thrown ELSE IfRank(in[1].info, 4, layers)

ParseGather(n, in) ==
  <<Layer("gather", NoDescriptor, NoConsts, <<in[1].slot, in[2].slot>>,
          <<Reshaped(in[1].info, in[2].info.shape \o Tail(in[1].info.shape))>>)>>

(* All axes are the same as none.                                          *)
ParseMean(n, in) ==
  LET rank == Rank(in[1].info)
      axes == {((v + rank) % rank) + 1 : v \in ToSet(in[2].const.values)}
      d == [axis |-> IF rank > Cardinality(axes) THEN axes ELSE {}, keepDims |-> n.a.keep_dims]
  IN IF ~IsConst(in[2], "i32") THEN Thrown
     ELSE <<Layer("mean", d, NoConsts, <<in[1].slot>>,
                  <<Reshaped(in[1].info, CalculateReducedOutput(in[1].info.shape, axes, n.a.keep_dims))>>)>>

(* A matrix product with constant weights on either side, with the bias of *)
(* an addition around it.                                                  *)
AddFullyConnectedLayer(x, weights, bias) ==
  LET consts == IF bias = NoConst THEN [weight |-> ConstInfo(weights)]
                ELSE [weight |-> ConstInfo(weights), bias |-> ConstInfo(bias)]
  IN IF Len(weights.shape) < 2 THEN Escaped
     ELSE IF bias # NoConst /\ weights.shape[2] # bias.shape[1] THEN Thrown
     ELSE <<Layer("fullyConnected", [transpose |-> FALSE, bias |-> bias # NoConst], consts,
                  <<x.slot>>, <<Info("f32", <<x.info.shape[1], weights.shape[2]>>)>>)>>

ParseMatMul(n, in) ==
  LET weights == {i \in 1 .. 2 : IsConst(in[i], "f32")}
  IN IF weights = {} THEN Thrown ELSE AddFullyConnectedLayer(in[3 - Min(weights)], in[Min(weights)].const, NoConst)
----------------------------------------------------------------------------
(* The parser.  Its state st has the network, net; the names of the nodes  *)
(* parsed so far, order, with the operation of each, parsed; the bindings  *)
(* of the network's inputs and outputs, and whether a function has thrown  *)
(* and its exception escaped the handler, which calls Cleanup.             *)
(* An operation has its layer's number, 0 while the layer's creation is    *)
(* deferred; its constant, if it is one; and the operation it stands for,  *)
(* itself if it is no identity.  The model m has its nodes by name, the    *)
(* shapes of its inputs by name, and the requested outputs.                *)

Data(n) == SelectSeq(n.ins, LAMBDA i : i[2] # ControlInput)

(* The operations a node reads, each with the number of its output.  One   *)
(* that an identity stands for is asked for the output the identity was.   *)
Inputs(m, st, name) ==
  LET data == Data(m.nodes[name])
  IN [i \in DOMAIN data |-> <<st.parsed[data[i][1]].of, data[i][2]>>]

Arity(n) ==
  CASE n.op \in {"Const", "Placeholder"} -> {0}
    [] n.op = "AddN" -> {n.a.N}
    [] n.op \in {"ConcatV2", "Split"} -> Nat
    [] n.op = "FusedBatchNorm" -> {5}
    [] n.op \in {"Add", "BiasAdd", "Conv2D", "DepthwiseConv2dNative", "Gather", "Greater", "MatMul", "Mean",
                 "Mul", "RealDiv", "Reshape", "ResizeBilinear", "Maximum", "Minimum", "Equal", "Pad", "Sub"} -> {2}
    [] OTHER -> {1}

(* GetInputParsedTfOperationsChecked.                                      *)
InputsParsed(m, st, name) ==
  /\ Len(Data(m.nodes[name])) \in Arity(m.nodes[name])
  /\ \A i \in ToSet(Data(m.nodes[name])) : i[1] \in DOMAIN st.parsed

HasParsedConstTensor(st, name, type) == st.parsed[name].const.type = type

Operand(st, i) ==
  LET slot == <<st.parsed[i[1]].layer, i[2] + 1>>
  IN [slot |-> slot, info |-> IF IsSlot(st.net, slot) THEN SlotInfo(st.net, slot) ELSE NoInfo,
      const |-> st.parsed[i[1]].const]

Operands(m, st, name) ==
  LET ins == Inputs(m, st, name) IN [i \in DOMAIN ins |-> Operand(st, ins[i])]

(* The product under an addition of a constant: a fully connected layer    *)
(* with its bias; 0 if the addition is of something else.                  *)
MatMulUnder(m, st, name) ==
  LET ins == Inputs(m, st, name)
      found == {i \in 1 .. 2 : m.nodes[ins[i][1]].op = "MatMul" /\ HasParsedConstTensor(st, ins[3 - i][1], "f32")}
  IN IF found = {} THEN 0 ELSE Min(found)

(* max(x, alpha * x), the factors in either order and so are the operands: *)
(* the operand that is x.  What the product multiplies is compared with x  *)
(* by its node, not by the output of the node.                             *)
IsSupportedLeakyReluPattern(m, st, mul, other) ==
  /\ m.nodes[mul[1]].op = "Mul"
  /\ LET factors == Inputs(m, st, mul[1])
     IN \E alpha \in 1 .. 2 :
          /\ factors[3 - alpha][1] = other[1]
          /\ HasParsedConstTensor(st, factors[alpha][1], "f32")
          /\ Len(st.parsed[factors[alpha][1]].const.values) = 1

LeakyReluOf(m, st, name) ==
  LET ins == Inputs(m, st, name)
      found == {i \in 1 .. 2 : IsSupportedLeakyReluPattern(m, st, ins[i], ins[3 - i])}
  IN IF found = {} THEN 0 ELSE 3 - Min(found)

(* The operand of a product that is not its weights.                       *)
NotWeights(m, st, name) ==
  LET ins == Inputs(m, st, name)
  IN ins[IF HasParsedConstTensor(st, ins[1][1], "f32") THEN 2 ELSE 1]

(* The inputs whose slots a parsing function resolves, and with that       *)
(* creates their layers; a deferred operation resolves its own later.      *)
ResolvedInputs(m, st, name) ==
  LET ins == Inputs(m, st, name)
      op == m.nodes[name].op
      of(is) == {ins[i] : i \in is}
  IN CASE op \in {"Conv2D", "DepthwiseConv2dNative", "FusedBatchNorm", "Pad", "Reshape", "ResizeBilinear", "Mean"} -> of({1})
       [] op = "ConcatV2" -> of(1 .. Len(ins) - 1)
       [] op = "Split" -> of({i \in 1 .. 2 : ~HasParsedConstTensor(st, ins[i][1], "i32")})
       [] op = "MatMul" -> {NotWeights(m, st, name)}
       [] op = "Add" /\ MatMulUnder(m, st, name) # 0 -> {NotWeights(m, st, ins[MatMulUnder(m, st, name)][1])}
       [] op = "Maximum" /\ LeakyReluOf(m, st, name) # 0 -> of({LeakyReluOf(m, st, name)})
       [] OTHER -> of(DOMAIN ins)

ParseAdd(m, st, name, in) ==
  LET i == MatMulUnder(m, st, name)
      matMul == Inputs(m, st, name)[i][1]
      factors == Operands(m, st, matMul)
      weights == Min({k \in 1 .. 2 : IsConst(factors[k], "f32")})
      bias == in[IF IsConst(in[1], "f32") THEN 1 ELSE 2].const
  IN CASE i = 0 -> AddAdditionLayer(in)
       [] i # 0 /\ {k \in 1 .. 2 : IsConst(factors[k], "f32")} = {} -> Thrown
       [] OTHER -> AddFullyConnectedLayer(factors[3 - weights], factors[weights].const, bias)

ParseMaximum(m, st, name, in) ==
  LET x == LeakyReluOf(m, st, name)
  IN IF x = 0 THEN AddMaximumLayer(in)
     ELSE <<Layer("activation", [function |-> "LeakyReLu"], NoConsts, <<in[x].slot>>, <<in[x].info>>)>>

Function(op) ==
  CASE op = "Relu" -> "ReLu" [] op = "Relu6" -> "BoundedReLu" [] op = "Sigmoid" -> "Sigmoid"
    [] op = "Softplus" -> "SoftReLu" [] op = "Tanh" -> "TanH"

ConstantLayer(const) ==
  <<Layer("constant", NoDescriptor, [output |-> ConstInfo(const)], <<>>, <<ConstInfo(const)>>)>>

Parse(m, st, name, n, in) ==
  CASE n.op = "Add" -> ParseAdd(m, st, name, in)
    [] n.op = "AddN" -> ParseAddN(n, in)
    [] n.op = "BiasAdd" -> ParseBiasAdd(n, in)
    [] n.op = "Conv2D" -> ParseConv2D(n, in)
    [] n.op = "DepthwiseConv2dNative" -> ParseDepthwiseConv2D(n, in)
    [] n.op = "ExpandDims" -> ParseExpandDims(n, in)
    [] n.op = "FusedBatchNorm" -> ParseFusedBatchNorm(n, in)
    [] n.op = "Gather" -> ParseGather(n, in)
    [] n.op = "Greater" -> ProcessElementwise("greater", in, "boolMax")
    [] n.op = "Equal" -> ProcessElementwise("equal", in, "boolMax")
    [] n.op = "Minimum" -> ProcessElementwise("minimum", in, "max")
    [] n.op = "ConcatV2" -> ParseConcat(n, in)
    [] n.op = "LRN" -> ParseLrn(n, in)
    [] n.op = "Mean" -> ParseMean(n, in)
    [] n.op = "RealDiv" -> AddRealDivLayer(in)
    [] n.op = "Reshape" -> ParseReshape(n, in)
    [] n.op = "ResizeBilinear" -> ParseResizeBilinear(n, in)
    [] n.op = "Rsqrt" -> Alike("rsqrt", NoDescriptor, in)
    [] n.op = "Squeeze" -> ParseSqueeze(n, in)
    [] n.op = "Softmax" -> Alike("softmax", NoDescriptor, in)
    [] n.op = "Split" -> ParseSplit(n, in)
    [] n.op \in {"MaxPool", "AvgPool"} -> ParsePooling2d(n, in)
    [] n.op = "Maximum" -> ParseMaximum(m, st, name, in)
    [] n.op = "Pad" -> ParsePad(n, in)
    [] n.op = "Sub" -> ParseSub(n, in)
    [] n.op \in {"Relu", "Relu6", "Sigmoid", "Softplus", "Tanh"} -> Alike("activation", [function |-> Function(n.op)], in)

(* A constant in its tensor content or in a list of values, which is       *)
(* filled up with its last value, or gives a shape that has none its size. *)
ParseConst(n) ==
  LET t == n.a.value
      shape == IF t.shape = <<>> /\ t.list # <<>> THEN <<Len(t.list)>> ELSE t.shape
      filled == [i \in 1 .. Max({Len(t.list), Product(shape)}) |-> t.list[Min({i, Len(t.list)})]]
      values == IF t.content # <<>> THEN t.content ELSE IF t.list = <<>> THEN <<>> ELSE filled
  IN IF \/ n.a.dtype \notin {"f32", "i32"} \/ shape = <<>> \/ Product(shape) = 0
        \/ values = <<>> \/ (IsTensorShape(shape) /\ Len(values) > Product(shape))
     THEN NoConst ELSE Tensor(n.a.dtype, shape, values)

----------------------------------------------------------------------------

Operation(name, layer, const) == [layer |-> layer, const |-> const, of |-> name]

Created(st, name, layers) ==
  IF layers = Thrown THEN Failed(st)
  ELSE IF Escapes(layers) THEN Uncaught(st)
  ELSE [st EXCEPT !.net = Placed(st.net, name, layers), !.parsed[name].layer = Len(st.net) + Len(layers)]

IsDeferred(st, name) == st.parsed[name].layer = 0

(* A slot that does not exist cannot be resolved.                          *)
SlotsExist(m, st, ins) ==
  \A i \in ins : i[2] + 1 <= Len(st.net[st.parsed[i[1]].layer].outs)

CreateLayerDeferred(m, st, name) ==
  LET n == m.nodes[name]
      in == Operands(m, st, name)
  IN CASE st.parsed[name].const # NoConst -> Created(st, name, ConstantLayer(st.parsed[name].const))
       [] ~SlotsExist(m, st, ResolvedInputs(m, st, name)) -> Failed(st)
       [] n.op = "MatMul" -> Created(st, name, ParseMatMul(n, in))
       [] n.op = "Mul" -> Created(st, name, AddMultiplicationLayer(in))

(* The layers of the operations in names and, first, of the deferred ones  *)
(* they resolve in turn.                                                   *)
ResolveArmnnOutputSlots(m, st, names) ==
  LET needs(name) == IF IsDeferred(st, name) /\ st.parsed[name].const = NoConst /\ InputsParsed(m, st, name)
                     THEN {i[1] : i \in ResolvedInputs(m, st, name)} ELSE {}
      all == FoldRight(LAMBDA name, found : IF name \in found THEN found \cup needs(name) ELSE found, st.order, names)
      create(s, name) ==
        CASE name \notin all \/ s.thrown \/ ~IsDeferred(s, name) -> s
          [] name \in all /\ IsDeferred(s, name) /\ st.parsed[name].const = NoConst /\ ~InputsParsed(m, st, name) -> Failed(s)
          [] OTHER -> CreateLayerDeferred(m, s, name)
  IN FoldLeft(create, st, st.order)

Added(st, name, op) == [st EXCEPT !.order = Append(@, name), !.parsed = @ @@ (name :> op)]

(* The network's input for a placeholder, if its shape was given.          *)
ParsePlaceholder(m, st, name) ==
  LET info == Info("f32", m.inputShapes[name])
      binding == name :> [id |-> Cardinality(DOMAIN st.inputs), info |-> info]
  IN IF name \notin DOMAIN m.inputShapes THEN Failed(st)
     ELSE [Created(Added(st, name, Operation(name, 0, NoConst)), name,
                   <<Layer("input", [id |-> binding[name].id], NoConsts, <<>>, <<info>>)>>) EXCEPT !.inputs = @ @@ binding]

(* The shape of the input as a constant.                                   *)
ParseShape(m, st, name) ==
  LET shape == Operands(m, st, name)[1].info.shape
  IN IF m.nodes[name].a.out_type # "i32" THEN Failed(st)
     ELSE Added(st, name, Operation(name, 0, Tensor("i32", <<Len(shape)>>, shape)))

(* What a node of a known operation becomes.                               *)
ParseNode(m, st, name) ==
  LET n == m.nodes[name]
  IN CASE n.op = "Const" -> LET const == ParseConst(n)
                            IN IF const = NoConst THEN Failed(st)
                               ELSE IF ~IsTensorShape(const.shape) THEN Uncaught(st)
                               ELSE Added(st, name, Operation(name, 0, const))
       [] n.op = "AddN" /\ n.a.N < 2 -> Uncaught(st)  \* its message is no format
       [] n.op \in {"MatMul", "Mul"} -> Added(st, name, Operation(name, 0, NoConst))
       [] ~InputsParsed(m, st, name) /\ (n.op = "AddN" => n.a.N >= 2) -> Failed(st)
       [] InputsParsed(m, st, name) /\ n.op = "Placeholder" -> ParsePlaceholder(m, st, name)
       [] InputsParsed(m, st, name) /\ n.op = "Identity" -> Added(st, name, Operation(Inputs(m, st, name)[1][1], 0, NoConst))
       [] OTHER ->
            LET ins == ResolvedInputs(m, st, name)
                ready == ResolveArmnnOutputSlots(m, st, {i[1] : i \in ins})
                added == Added(ready, name, Operation(name, 0, NoConst))
            IN CASE ready.thrown -> ready
                 [] ~ready.thrown /\ ~SlotsExist(m, ready, ins) -> Failed(st)
                 [] n.op = "Shape" -> ParseShape(m, ready, name)
                 [] OTHER -> Created(added, name, Parse(m, ready, name, n, Operands(m, ready, name)))

(* The network's output of a requested node: the first of its outputs.     *)
AddOutput(m, st, name) ==
  LET of == st.parsed[name].of
      ready == ResolveArmnnOutputSlots(m, st, {of})
      slot == <<ready.parsed[of].layer, 1>>
      binding == name :> [id |-> Cardinality(DOMAIN st.outputs), info |-> SlotInfo(ready.net, slot)]
  IN IF ready.thrown THEN ready
     ELSE [ready EXCEPT !.net = Placed(@, name, <<Layer("output", [id |-> binding[name].id], NoConsts, <<slot>>, <<>>)>>),
                        !.outputs = @ @@ binding]

KnownOperations ==
  {"Const", "Add", "AddN", "BiasAdd", "Identity", "Conv2D", "DepthwiseConv2dNative", "ExpandDims", "FusedBatchNorm",
   "Gather", "Greater", "ConcatV2", "LRN", "MatMul", "Mean", "Mul", "Placeholder", "RealDiv", "Relu", "Relu6",
   "Reshape", "ResizeBilinear", "Rsqrt", "Shape", "Squeeze", "Sigmoid", "Softmax", "Softplus", "Split", "Tanh",
   "MaxPool", "AvgPool", "Maximum", "Minimum", "Equal", "Pad", "Sub"}

ControlOperations == {"Assert"}

NodeType(n) == IF "T" \in DOMAIN n.a THEN n.a.T ELSE IF "dtype" \in DOMAIN n.a THEN n.a.dtype ELSE "f32"

(* A node that is parsed, with the output if it is requested; of one that  *)
(* has thrown nothing is kept, nor of one whose name was parsed before.    *)
Kept(m, st, name, loaded) ==
  CASE loaded.thrown -> [Failed(st) EXCEPT !.escaped = loaded.escaped]
    [] ~loaded.thrown /\ name \in DOMAIN st.parsed -> Failed(st)
    [] OTHER -> IF name \in ToSet(m.requested) THEN AddOutput(m, loaded, name) ELSE loaded

LoadNodeDef(m, st, name) ==
  LET n == m.nodes[name]
  IN CASE NodeType(n) \notin {"f32", "i32"} /\ n.op # "Const" -> Failed(st)
       [] n.op \in ControlOperations -> st
       [] n.op \notin KnownOperations \cup ControlOperations -> Failed(st)
       [] OTHER -> Kept(m, st, name, ParseNode(m, st, name))

NoBindings == [name \in {} |-> 0]

New0 == [net |-> <<>>, order |-> <<>>, parsed |-> [name \in {} |-> 0], inputs |-> NoBindings, outputs |-> NoBindings,
         thrown |-> FALSE, escaped |-> FALSE]

(* CreateNetworkFromGraphDef and LoadGraphDef before the nodes are sorted: *)
(* the names the client gives have to be those of nodes.  A call without   *)
(* requested outputs is refused outside of the handler.                    *)
LoadGraphDef(m, st) ==
  LET known == DOMAIN m.inputShapes \cup ToSet(m.requested) \subseteq DOMAIN m.nodes
      started == [New0 EXCEPT !.order = st.order, !.parsed = st.parsed]
  IN IF m.requested = <<>> THEN Uncaught([started EXCEPT !.inputs = st.inputs, !.outputs = st.outputs])
     ELSE [started EXCEPT !.thrown = ~known]

CleanupNothing(st) == st  \* mutant

(* The network and its bindings are the client's; all else is cleared.     *)
Cleanup(st) ==
  [New0 EXCEPT !.net = st.net, !.inputs = st.inputs, !.outputs = st.outputs, !.thrown = st.thrown]

(* GetTfInputNodes: none of a constant.                                    *)
GetTfInputNodes(m, name) ==
  IF m.nodes[name].op = "Const" THEN <<>>
  ELSE LET data == Data(m.nodes[name]) IN [i \in DOMAIN data |-> data[i][1]]

(* The inputs it refuses: those no node has, and, in ParseOutputId, those  *)
(* of an output out of range.  The first of them decides: the exception of *)
(* std::stoi is no ParseException.                                         *)
RefusedInputs(m, name) ==
  IF m.nodes[name].op = "Const" THEN <<>>
  ELSE SelectSeq(Data(m.nodes[name]), LAMBDA i : i[2] \notin 0 .. 100 \/ i[1] \notin DOMAIN m.nodes)

RefusalEscapes(m, name) == RefusedInputs(m, name) # <<>> /\ Head(RefusedInputs(m, name))[2] = Unreadable
=============================================================================
