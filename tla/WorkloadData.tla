---------------------------- MODULE WorkloadData ----------------------------
(* The Validate functions of the queue descriptors (WorkloadData.cpp): the *)
(* last check of a layer before its workload is made.  Each is TRUE for    *)
(* the layers it lets through and FALSE for those it throws on.            *)
EXTENDS Tensors

ValidateNum(l, inputs, outputs) == Len(l.ins) = inputs /\ Len(l.outs) = outputs

FloatsAndQuantized == {"f32", "u8", "s16", "f16"}

GetBiasDataType(type) ==
  CASE type \in {"f16", "f32"} -> type [] OTHER -> "i32"

ValidateBroadcastTensorShapesMatch(first, second, output) ==
  /\ Rank(first) = Rank(second)
  /\ \A i \in DOMAIN first.shape :
       first.shape[i] = second.shape[i] \/ 1 \in {first.shape[i], second.shape[i]}
  /\ output.shape = [i \in DOMAIN first.shape |-> Max({first.shape[i], second.shape[i]})]

ValidateSameShape(l) == ValidateNum(l, 1, 1) /\ SameShape(l.ins[1], l.outs[1])

ValidateRanks(l, rank) == Rank(l.ins[1]) = rank /\ Rank(l.outs[1]) = rank

ValidateBias(l) ==
  /\ Rank(l.consts.bias) = 1
  /\ l.consts.bias.type = GetBiasDataType(l.ins[1].type)

ValidateElementwise(l, types) ==
  /\ ValidateNum(l, 2, 1)
  /\ {l.ins[1].type, l.ins[2].type, l.outs[1].type} \subseteq types
  /\ ValidateBroadcastTensorShapesMatch(l.ins[1], l.ins[2], l.outs[1])

ValidateAddition(l) == ValidateElementwise(l, FloatsAndQuantized)
ValidateMultiplication(l) == ValidateElementwise(l, FloatsAndQuantized)
ValidateDivision(l) == ValidateElementwise(l, FloatsAndQuantized)
ValidateSubtraction(l) == ValidateElementwise(l, FloatsAndQuantized)
ValidateMaximum(l) == ValidateElementwise(l, FloatsAndQuantized \ {"f16"})
ValidateMinimum(l) == ValidateElementwise(l, FloatsAndQuantized \ {"f16"})

ValidateComparison(l) ==
  /\ ValidateNum(l, 2, 1)
  /\ ValidateBroadcastTensorShapesMatch(l.ins[1], l.ins[2], l.outs[1])
  /\ l.outs[1].type = "bool"

ValidateEqual(l) == ValidateComparison(l)
ValidateGreater(l) == ValidateComparison(l)

ValidateMemCopy(l) ==
  ValidateNum(l, 1, 1) /\ NumElements(l.ins[1]) = NumElements(l.outs[1])

ValidateReshape(l) ==
  ValidateNum(l, 1, 1) /\ NumElements(l.ins[1]) = NumElements(l.outs[1])

ValidateActivation(l) ==
  /\ ValidateSameShape(l)
  /\ l.ins[1].type \in FloatsAndQuantized
  /\ SameType(l.ins[1], l.outs[1])

ValidateSoftmax(l) == ValidateSameShape(l)
ValidateNormalization(l) == ValidateSameShape(l)
ValidateRsqrt(l) == ValidateSameShape(l)
ValidateL2Normalization(l) == ValidateSameShape(l) /\ ValidateRanks(l, 4)
ValidateFloor(l) == ValidateNum(l, 1, 1) /\ l.ins[1] = l.outs[1]
ValidateDebug(l) == ValidateNum(l, 1, 1)
ValidateBatchToSpaceNd(l) == ValidateNum(l, 1, 1)
ValidatePooling2d(l) == ValidateNum(l, 1, 1) /\ ValidateRanks(l, 4)

ValidateConvertFp32ToFp16(l) ==
  ValidateSameShape(l) /\ l.ins[1].type = "f32" /\ l.outs[1].type = "f16"

ValidateConvertFp16ToFp32(l) ==
  ValidateSameShape(l) /\ l.ins[1].type = "f16" /\ l.outs[1].type = "f32"

ValidateQuantize(l) ==
  ValidateNum(l, 1, 1) /\ l.ins[1].type = "f32" /\ l.outs[1].type \in {"u8", "s16"}

ValidateDequantize(l) ==
  ValidateNum(l, 1, 1) /\ l.ins[1].type \in {"u8", "s16"} /\ l.outs[1].type = "f32"

ValidateSplitter(l) ==
  /\ Len(l.ins) = 1 /\ Len(l.outs) > 0 /\ Len(l.outs) = Len(l.d.origins)
  /\ \A w \in DOMAIN l.d.origins :
       /\ Len(l.d.origins[w]) = Rank(l.ins[1])
       /\ \A i \in DOMAIN l.d.origins[w] :
            l.d.origins[w][i] + l.outs[w].shape[i] <= l.ins[1].shape[i]

(* A concatenation along the innermost dimension is let through as it is.  *)
ValidateMerger(l) ==
  /\ Len(l.outs) = 1 /\ Len(l.ins) > 0
  /\ l.d.axis <= Rank(l.ins[1])
  /\ \/ Rank(l.ins[1]) - l.d.axis = 1
     \/ /\ Len(l.ins) = Len(l.d.origins)
        /\ \A w \in DOMAIN l.d.origins :
             /\ Len(l.d.origins[w]) = Rank(l.outs[1])
             /\ \A i \in DOMAIN l.d.origins[w] :
                  l.d.origins[w][i] + l.ins[w].shape[i] <= l.outs[1].shape[i]
        /\ \A w \in DOMAIN l.ins : l.ins[w].type \in DataTypes
        /\ SameType(l.ins[1], l.outs[1])

ValidateFullyConnected(l) ==
  /\ ValidateNum(l, 1, 1)
  /\ Rank(l.outs[1]) = 2 /\ Rank(l.ins[1]) \in {2, 4}
  /\ Has(l, "weight") /\ Rank(l.consts.weight) = 2
  /\ l.d.bias => Has(l, "bias") /\ ValidateBias(l)

ValidateBatchNormalization(l) ==
  /\ ValidateSameShape(l)
  /\ \A t \in {"mean", "variance", "beta", "gamma"} :
       Has(l, t) /\ Rank(l.consts[t]) = 1 /\ SameShape(l.consts[t], l.consts.mean)

ValidateConvolution2d(l) ==
  /\ ValidateNum(l, 1, 1) /\ ValidateRanks(l, 4)
  /\ Has(l, "weight") /\ Rank(l.consts.weight) = 4
  /\ SameType(l.consts.weight, l.ins[1])
  /\ l.d.bias => ValidateBias(l)

ValidateDepthwiseConvolution2d(l) ==
  /\ ValidateNum(l, 1, 1) /\ ValidateRanks(l, 4)
  /\ Has(l, "weight") /\ Rank(l.consts.weight) = 4
  /\ l.d.dilation[1] >= 1 /\ l.d.dilation[2] >= 1
  /\ l.consts.weight.shape[1] * l.consts.weight.shape[2] = l.outs[1].shape[ChannelsIndex(l.d.layout)]
  /\ l.d.bias => Has(l, "bias") /\ ValidateBias(l)
  /\ l.ins[1].type \in FloatsAndQuantized
  /\ SameType(l.ins[1], l.outs[1])

ValidatePermute(l) ==
  /\ ValidateNum(l, 1, 1) /\ ValidateRanks(l, Len(l.d.mappings))
  /\ \A i \in DOMAIN l.d.mappings : l.ins[1].shape[i] = l.outs[1].shape[l.d.mappings[i]]

ValidateResizeBilinear(l) ==
  /\ ValidateNum(l, 1, 1) /\ ValidateRanks(l, 4)
  /\ \A i \in {1, ChannelsIndex(l.d.layout)} : l.ins[1].shape[i] = l.outs[1].shape[i]

ValidateConstant(l) ==
  /\ ValidateNum(l, 0, 1)
  /\ Has(l, "output") /\ SameShape(l.consts.output, l.outs[1])
  /\ l.outs[1].type \in FloatsAndQuantized \cup {"i32"}

(* The height and the width with their padding.                            *)
Padded(l, i, pads) == l.ins[1].shape[i] + pads[1] + pads[2]

ValidateSpaceToBatchNd(l) ==
  LET height == Padded(l, HeightIndex(l.d.layout), l.d.pads[1])
      width == Padded(l, WidthIndex(l.d.layout), l.d.pads[2])
  IN /\ ValidateNum(l, 1, 1) /\ ValidateRanks(l, 4)
     /\ Len(l.d.block) = 2 /\ Len(l.d.pads) = 2
     /\ NumElements(l.outs[1]) =
          l.ins[1].shape[1] * height * width * l.ins[1].shape[ChannelsIndex(l.d.layout)]
     /\ height % l.d.block[1] = 0 /\ width % l.d.block[2] = 0

ValidateLstm(l) ==
  /\ ValidateRanks(l, 2)
  /\ {l.ins[1].type, l.outs[1].type} \subseteq {"f16", "f32", "s16"}

ValidateMean(l) ==
  /\ ValidateNum(l, 1, 1)
  /\ Rank(l.outs[1]) =
       CASE l.d.keepDims -> Rank(l.ins[1])
         [] ~l.d.keepDims /\ l.d.axis = {} -> 1
         [] OTHER -> Max({1, Rank(l.ins[1]) - Cardinality(l.d.axis)})

ValidatePad(l) ==
  ValidateNum(l, 1, 1) /\ {Rank(l.ins[1]), Rank(l.outs[1])} = {Len(l.d.pads)}

ValidateStridedSlice(l) ==
  /\ ValidateNum(l, 1, 1)
  /\ Rank(l.ins[1]) <= 4
  /\ SameLengths({l.ins[1].shape, l.d.begin, l.d.end, l.d.stride})
  /\ 0 \notin ToSet(l.d.stride)

ValidateGather(l) ==
  /\ ValidateNum(l, 2, 1)
  /\ l.ins[2].type = "i32"
  /\ Rank(l.outs[1]) = Rank(l.ins[1]) - 1 + Rank(l.ins[2])

ValidateDetectionPostProcess(l) ==
  /\ ValidateNum(l, 2, 4)
  /\ Has(l, "anchors") /\ Rank(l.consts.anchors) = 2
  /\ Rank(l.ins[1]) = 3 /\ Rank(l.ins[2]) = 3
  /\ [i \in 1 .. 4 |-> Rank(l.outs[i])] = <<3, 2, 2, 1>>
  /\ \A i \in 1 .. 4 : l.outs[i].type = "f32"
  /\ l.ins[2].shape[3] = l.d.classes + 1

ValidateMerge(l) ==
  /\ ValidateNum(l, 2, 1)
  /\ l.ins[1] = l.ins[2] /\ l.ins[1] = l.outs[1]

ValidateSwitch(l) ==
  /\ ValidateNum(l, 2, 2)
  /\ {l.ins[1].type, l.ins[2].type, l.outs[1].type} \subseteq {"f32", "u8", "s16"}
  /\ SameShape(l.ins[1], l.outs[1]) /\ SameShape(l.ins[1], l.outs[2])
=============================================================================
