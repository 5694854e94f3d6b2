---------------------------- MODULE Deserializer ----------------------------
(* armnnDeserializer: the network a serialized graph describes.  A graph   *)
(* has its layers in the order they were written, each with its id, the    *)
(* ids and outputs it reads, the infos of its outputs, its constants and   *)
(* descriptor; and the ids of its inputs and outputs.                      *)
EXTENDS ImportedNetwork

Pairs(list) == [i \in 1 .. Len(list) \div 2 |-> <<list[2 * i - 1], list[2 * i]>>]

(* ToActivationFunction: anything else is a sigmoid.                       *)
ToActivationFunction(function) ==
  IF function \in {"TanH", "Linear", "ReLu", "BoundedReLu", "LeakyReLu", "Abs", "Sqrt", "Square"} THEN function
  ELSE "Sigmoid"

(* The descriptor each parsing function reads.                             *)
ParseActivation(d) == [function |-> ToActivationFunction(d.function)]
ParseBatchToSpaceNd(d) == [layout |-> d.layout, block |-> d.block, crops |-> Pairs(d.crops)]
ParseBatchNormalization(d) == [layout |-> d.layout]
ParseConvolution2d(d) ==
  [layout |-> d.layout, stride |-> d.stride, dilation |-> d.dilation, pads |-> d.pads, bias |-> d.bias]

(* The dilation is not read: the descriptor's own is one.                  *)
ParseDepthwiseConvolution2d(d) ==
  [layout |-> d.layout, stride |-> d.stride, dilation |-> <<1, 1>>, pads |-> d.pads, bias |-> d.bias]
ParseDetectionPostProcess(d) == [detections |-> d.detections]
ParseL2Normalization(d) == [layout |-> d.layout]
ParseConcat(d) == [axis |-> d.axis, origins |-> d.origins]
ParseFullyConnected(d) == [transpose |-> d.transpose, bias |-> d.bias]
ParsePad(d) == [pads |-> Pairs(d.pads)]
ParsePermute(d) == [mappings |-> d.mappings]
GetPoolingDescriptor(d) ==
  [layout |-> d.layout, pool |-> d.pool, stride |-> d.stride, rounding |-> d.rounding, pads |-> d.pads]
ParseResizeBilinear(d) == [layout |-> d.layout, target |-> d.target]
ParseSpaceToBatchNd(d) == [layout |-> d.layout, block |-> d.block, pads |-> Pairs(d.pads)]
GetNormalizationDescriptor(d) == [layout |-> d.layout, normSize |-> d.normSize, across |-> d.across]
ParseStridedSlice(d) ==
  [begin |-> d.begin, end |-> d.end, stride |-> d.stride, beginMask |-> d.beginMask, endMask |-> d.endMask,
   shrinkAxisMask |-> d.shrinkAxisMask]
ParseMean(d) == [axis |-> d.axis, keepDims |-> d.keepDims]
ParseSplitter(d) == [origins |-> d.origins, sizes |-> d.sizes]
GetLstmDescriptor(d) == [cifg |-> d.cifg, peephole |-> d.peephole, projection |-> d.projection]

Read(kind, d) ==
  CASE kind = "activation" -> ParseActivation(d)
    [] kind = "batchToSpaceNd" -> ParseBatchToSpaceNd(d)
    [] kind = "batchNormalization" -> ParseBatchNormalization(d)
    [] kind = "convolution2d" -> ParseConvolution2d(d)
    [] kind = "depthwiseConvolution2d" -> ParseDepthwiseConvolution2d(d)
    [] kind = "detectionPostProcess" -> ParseDetectionPostProcess(d)
    [] kind = "l2Normalization" -> ParseL2Normalization(d)
    [] kind = "merger" -> ParseConcat(d)
    [] kind = "fullyConnected" -> ParseFullyConnected(d)
    [] kind = "pad" -> ParsePad(d)
    [] kind = "permute" -> ParsePermute(d)
    [] kind = "pooling2d" -> GetPoolingDescriptor(d)
    [] kind = "resizeBilinear" -> ParseResizeBilinear(d)
    [] kind = "spaceToBatchNd" -> ParseSpaceToBatchNd(d)
    [] kind = "normalization" -> GetNormalizationDescriptor(d)
    [] kind = "stridedSlice" -> ParseStridedSlice(d)
    [] kind = "mean" -> ParseMean(d)
    [] kind = "splitter" -> ParseSplitter(d)
    [] kind = "lstm" -> GetLstmDescriptor(d)
    [] OTHER -> d

----------------------------------------------------------------------------
(* The deserializer's state st has the network, net, whose layers have     *)
(* their id as node and read ids until they are connected; the ids and     *)
(* outputs it has registered, connections; the bindings, and whether an    *)
(* exception was thrown.                                                   *)

New0 == [net |-> <<>>, connections |-> {}, inputs |-> <<>>, outputs |-> <<>>, thrown |-> FALSE]

(* ResetParser, which keeps the connections.                               *)
ResetParser(st) == [New0 EXCEPT !.connections = st.connections]

(* GetInputs: of the layer at the position an id names, its first output.  *)
GetInputs(graph, l) ==
  [i \in DOMAIN l.inputs |-> graph.layers[l.inputs[i][1] + 1].outputs[1]]

(* OutputShapeOfReshape: the type is that of the input it was given.       *)
OutputInfos(graph, l) ==
  IF l.kind = "reshape" THEN <<Reshaped(GetInputs(graph, l)[1], l.d.target)>> ELSE l.outputs

(* ToConstTensor: values in no known vector are a ParseException.          *)
Unreadable(const) == const.data = "NONE"
ToConstTensor(const) == const.info

Outputs(l) == {<<l.id, i>> : i \in DOMAIN l.outputs}

(* A layer is added with its constants, and RegisterInputSlots and         *)
(* RegisterOutputSlots called for it.                                      *)
Registered(st, l, d, outs) ==
  LET consts == [c \in DOMAIN l.consts |-> ToConstTensor(l.consts[c])]
      layer == [kind |-> l.kind, d |-> d, consts |-> consts, from |-> l.inputs, outs |-> outs, node |-> l.id]
  IN IF st.thrown \/ Outputs(l) \cap st.connections # {} \/ \E c \in DOMAIN l.consts : Unreadable(l.consts[c])
     THEN [st EXCEPT !.thrown = TRUE]
     ELSE [st EXCEPT !.net = Append(@, layer), !.connections = @ \cup Outputs(l)]

(* The inputs and outputs are added when all the other layers have been.   *)
ParseLayer(graph, st, i) ==
  LET l == graph.layers[i]
  IN IF l.kind \in {"input", "output"} THEN st ELSE Registered(st, l, Read(l.kind, l.d), OutputInfos(graph, l))

(* GetLayerIndexInVector.                                                  *)
LayerWithId(graph, id) == graph.layers[CHOOSE i \in DOMAIN graph.layers : graph.layers[i].id = id]

SetupInputLayers(graph, st) ==
  LET add(s, id) ==
        LET l == LayerWithId(graph, id)
        IN [Registered(s, l, l.d, l.outputs) EXCEPT !.inputs = Append(@, [id |-> l.d.id, info |-> l.outputs[1]])]
  IN FoldLeft(add, st, graph.inputIds)

(* The info of an output is that of the first output of what it reads.     *)
SetupOutputLayers(graph, st) ==
  LET add(s, id) ==
        LET l == LayerWithId(graph, id)
            source == LayerWithId(graph, l.inputs[1][1])
        IN [Registered(s, l, l.d, <<>>) EXCEPT !.outputs = Append(@, [id |-> l.d.id, info |-> source.outputs[1]])]
  IN FoldLeft(add, st, graph.outputIds)

Connect(st) ==
  LET index(id) == CHOOSE k \in DOMAIN st.net : st.net[k].node = id
      slot(s) == <<index(s[1]), s[2]>>
  IN [st EXCEPT !.net = [k \in DOMAIN @ |-> [@[k] EXCEPT !.from = [i \in DOMAIN @ |-> slot(@[i])]]]]
=============================================================================
