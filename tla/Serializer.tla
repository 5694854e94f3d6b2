----------------------------- MODULE Serializer -----------------------------
(* armnnSerializer: a visitor writes each layer of a network with an id, the *)
(* ids and outputs it reads, the infos of its outputs, its constants and the *)
(* fields of its descriptor.  Layers are visited as the graph lists them.    *)
EXTENDS ImportedNetwork

(* GetFlatBufferActivationFunction.                                        *)
FlatBufferFunctions == {"Sigmoid", "TanH", "Linear", "ReLu", "BoundedReLu", "LeakyReLu", "Abs", "Sqrt", "Square"}

GetFlatBufferActivationFunction(function) ==
  IF function \in FlatBufferFunctions THEN function ELSE "Sigmoid"

(* The descriptor each visit function writes.                              *)
VisitInputLayer(d) == [id |-> d.id]
VisitOutputLayer(d) == [id |-> d.id]
VisitActivationLayer(d) == [function |-> GetFlatBufferActivationFunction(d.function)]
VisitBatchToSpaceNdLayer(d) == [layout |-> d.layout, block |-> d.block, crops |-> FlattenSeq(d.crops)]
VisitBatchNormalizationLayer(d) == [layout |-> d.layout]
VisitConvolution2dLayer(d) ==
  [layout |-> d.layout, stride |-> d.stride, dilation |-> d.dilation, pads |-> d.pads, bias |-> d.bias]
VisitDepthwiseConvolution2dLayer(d) ==
  [layout |-> d.layout, stride |-> d.stride, dilation |-> d.dilation, pads |-> d.pads, bias |-> d.bias]
VisitDetectionPostProcessLayer(d) == [detections |-> d.detections]
VisitL2NormalizationLayer(d) == [layout |-> d.layout]
VisitLstmLayer(d) == [cifg |-> d.cifg, peephole |-> d.peephole, projection |-> d.projection]
VisitMeanLayer(d) == [axis |-> d.axis, keepDims |-> d.keepDims]
VisitMergerLayer(d) == [axis |-> d.axis, origins |-> d.origins]
VisitPadLayer(d) == [pads |-> FlattenSeq(d.pads)]
VisitPermuteLayer(d) == [mappings |-> d.mappings]
VisitReshapeLayer(d) == [target |-> d.target]
VisitResizeBilinearLayer(d) == [layout |-> d.layout, target |-> d.target]
VisitPooling2dLayer(d) ==
  [layout |-> d.layout, pool |-> d.pool, stride |-> d.stride, rounding |-> d.rounding, pads |-> d.pads]
VisitFullyConnectedLayer(d) == [transpose |-> d.transpose, bias |-> d.bias]
VisitSpaceToBatchNdLayer(d) == [layout |-> d.layout, block |-> d.block, pads |-> FlattenSeq(d.pads)]
VisitSplitterLayer(d) == [origins |-> d.origins, sizes |-> d.sizes]
VisitNormalizationLayer(d) == [layout |-> d.layout, normSize |-> d.normSize, across |-> d.across]
VisitStridedSliceLayer(d) ==
  [begin |-> d.begin, end |-> d.end, stride |-> d.stride, beginMask |-> d.beginMask, endMask |-> d.endMask,
   shrinkAxisMask |-> d.shrinkAxisMask]

Written(kind, d) ==
  CASE kind = "input" -> VisitInputLayer(d)
    [] kind = "output" -> VisitOutputLayer(d)
    [] kind = "activation" -> VisitActivationLayer(d)
    [] kind = "batchToSpaceNd" -> VisitBatchToSpaceNdLayer(d)
    [] kind = "batchNormalization" -> VisitBatchNormalizationLayer(d)
    [] kind = "convolution2d" -> VisitConvolution2dLayer(d)
    [] kind = "depthwiseConvolution2d" -> VisitDepthwiseConvolution2dLayer(d)
    [] kind = "detectionPostProcess" -> VisitDetectionPostProcessLayer(d)
    [] kind = "l2Normalization" -> VisitL2NormalizationLayer(d)
    [] kind = "lstm" -> VisitLstmLayer(d)
    [] kind = "mean" -> VisitMeanLayer(d)
    [] kind = "merger" -> VisitMergerLayer(d)
    [] kind = "pad" -> VisitPadLayer(d)
    [] kind = "permute" -> VisitPermuteLayer(d)
    [] kind = "reshape" -> VisitReshapeLayer(d)
    [] kind = "resizeBilinear" -> VisitResizeBilinearLayer(d)
    [] kind = "pooling2d" -> VisitPooling2dLayer(d)
    [] kind = "fullyConnected" -> VisitFullyConnectedLayer(d)
    [] kind = "spaceToBatchNd" -> VisitSpaceToBatchNdLayer(d)
    [] kind = "splitter" -> VisitSplitterLayer(d)
    [] kind = "normalization" -> VisitNormalizationLayer(d)
    [] kind = "stridedSlice" -> VisitStridedSliceLayer(d)
    [] OTHER -> NoDescriptor  \* the kinds without one

----------------------------------------------------------------------------
(* GetFlatBufferDataType has no case for QuantisedSymm16, and neither has  *)
(* GetFlatBufferConstTensorData, which tells the vector the values are in. *)
GetFlatBufferDataType(type) == IF type = "s16" THEN "f16" ELSE type

GetFlatBufferConstTensorData(type) ==
  CASE type \in {"f32", "i32"} -> "IntData" [] type = "f16" -> "ShortData"
    [] type \in {"u8", "bool"} -> "ByteData" [] OTHER -> "NONE"

TypeWritten(info) == [info EXCEPT !.type = GetFlatBufferDataType(@)]
CreateOutputSlots(l) == [o \in DOMAIN l.outs |-> TypeWritten(l.outs[o])]
CreateConstTensorInfo(info) == [info |-> TypeWritten(info), data |-> GetFlatBufferConstTensorData(info.type)]

----------------------------------------------------------------------------
(* The visitor: the layers in the order of their ids, ids, which count     *)
(* from zero; what has been written, layers; the ids of inputs and outputs.*)

NewVisitor == [ids |-> <<>>, layers |-> <<>>, inputIds |-> <<>>, outputIds |-> <<>>]

(* The graph lists the inputs first and the outputs last.                  *)
VisitOrder(net) ==
  LET of(Test(_)) == SelectSeq([k \in DOMAIN net |-> k], Test)
  IN of(LAMBDA k : net[k].kind = "input") \o of(LAMBDA k : net[k].kind \notin {"input", "output"})
       \o of(LAMBDA k : net[k].kind = "output")

(* GetSerializedId: a layer has the next id when it is first asked for.    *)
WithId(ids, k) == IF k \in ToSet(ids) THEN ids ELSE Append(ids, k)
GetSerializedId(ids, k) == SelectInSeq(ids, LAMBDA j : j = k) - 1

FirstOutputs(l, ids) == [i \in DOMAIN l.from |-> <<GetSerializedId(ids, l.from[i][1]), 1>>]  \* mutant

CreateInputSlots(l, ids) == [i \in DOMAIN l.from |-> <<GetSerializedId(ids, l.from[i][1]), l.from[i][2]>>]

(* A layer asks for its own id and then for those of its inputs.           *)
VisitLayer(net, visitor, k) ==
  LET l == net[k]
      ids == FoldLeft(WithId, visitor.ids, <<k>> \o [i \in DOMAIN l.from |-> l.from[i][1]])
      id == GetSerializedId(ids, k)
      written == [id |-> id, kind |-> l.kind, inputs |-> CreateInputSlots(l, ids), outputs |-> CreateOutputSlots(l),
                  d |-> Written(l.kind, l.d), consts |-> [c \in DOMAIN l.consts |-> CreateConstTensorInfo(l.consts[c])]]
  IN [ids |-> ids, layers |-> Append(visitor.layers, written),
      inputIds |-> IF l.kind = "input" THEN Append(visitor.inputIds, id) ELSE visitor.inputIds,
      outputIds |-> IF l.kind = "output" THEN Append(visitor.outputIds, id) ELSE visitor.outputIds]
=============================================================================
