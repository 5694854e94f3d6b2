----------------------------- MODULE CaffeParser -----------------------------
(* armnnCaffeParser: the layers each Caffe layer becomes.  A layer is      *)
(* [name, type, bottoms, tops, a, blobs]: its parameters by name, those    *)
(* that are present, and the number of elements of each of its blobs.  A   *)
(* parsing function gets the layer, l, and the slot and the info of each   *)
(* of its bottoms, in.                                                     *)
EXTENDS ImportedNetwork

NotFound == 1000000  \* std::numeric_limits<unsigned int>::max()

(* GET_OPTIONAL_WITH_FALLBACK.                                             *)
Optional(a, name, fallback, default) ==
  CASE name \in DOMAIN a -> a[name]
    [] name \notin DOMAIN a /\ fallback \in DOMAIN a -> a[fallback]
    [] OTHER -> default

(* GetDataFromBlob: there is a blob, of just so many elements.             *)
BlobHas(l, index, size) == index \in DOMAIN l.blobs /\ l.blobs[index] = size

F32(shape) == Info("f32", shape)

Alike(kind, d, in) == <<Layer(kind, d, NoConsts, <<in[1].slot>>, <<in[1].info>>)>>

----------------------------------------------------------------------------

Groups(l) == Optional(l.a, "group", "group", 1)
HasBias(l) == Optional(l.a, "bias_term", "bias_term", TRUE)

Kernel(l) ==
  <<Optional(l.a, "kernel_h", "kernel_size", NotFound), Optional(l.a, "kernel_w", "kernel_size", NotFound)>>

Padding(l) == <<Optional(l.a, "pad_h", "pad", 0), Optional(l.a, "pad_w", "pad", 0)>>

ConvolutionDescriptor(l) ==
  [layout |-> "NCHW", dilation |-> <<1, 1>>, bias |-> HasBias(l),
   stride |-> <<Optional(l.a, "stride_h", "stride", 1), Optional(l.a, "stride_w", "stride", 1)>>,
   pads |-> [dim \in 1 .. 2 |-> <<Padding(l)[dim], Padding(l)[dim]>>]]

ConvolvedShape(l, shape, channels) ==
  LET size(dim) == ((shape[2 + dim] + 2 * Padding(l)[dim] - Kernel(l)[dim]) \div ConvolutionDescriptor(l).stride[dim]) + 1
  IN <<shape[1], channels, size(1), size(2)>>

(* The weights of one convolution, and the bias if it has one.             *)
Weights(l, out, in) ==
  LET weight == F32(<<out, in>> \o Kernel(l))
  IN IF HasBias(l) THEN [weight |-> weight, bias |-> F32(<<out>>)] ELSE [weight |-> weight]

BiasBlobHas(l, size) == HasBias(l) => BlobHas(l, 2, size)

(* As many convolutions as there are groups, each of its share of the      *)
(* channels, and their results one after the other.                        *)
AddConvLayerWithSplits(l, in) ==
  LET groups == Groups(l)
      shape == [in[1].info.shape EXCEPT ![2] = @ \div groups]
      out == ConvolvedShape(l, shape, l.a.num_output \div groups)
      origins(size) == [g \in 1 .. groups |-> <<0, size * (g - 1), 0, 0>>]
      splitter == Layer("splitter", [sizes |-> [g \in 1 .. groups |-> shape], origins |-> origins(shape[2])],
                        NoConsts, <<in[1].slot>>, [g \in 1 .. groups |-> F32(shape)])
      conv(g) == Layer("convolution2d", ConvolutionDescriptor(l), Weights(l, out[2], shape[2]),
                       << <<-1, g>> >>, <<F32(out)>>)
      merger == Layer("merger", [axis |-> 1, origins |-> origins(out[2])], NoConsts,
                      [g \in 1 .. groups |-> New(g + 1)], <<F32([out EXCEPT ![2] = @ * groups])>>)
  IN IF ~BlobHas(l, 1, groups * Product(<<out[2], shape[2]>> \o Kernel(l))) \/ ~BiasBlobHas(l, groups * out[2])
     THEN Thrown
     ELSE <<splitter>> \o [g \in 1 .. groups |-> conv(g)] \o <<merger>>

(* A group for each channel.                                               *)
AddConvLayerWithDepthwiseConv(l, in) ==
  LET shape == in[1].info.shape
      out == ConvolvedShape(l, shape, l.a.num_output)
      weight == F32(<<1, shape[2]>> \o Kernel(l))
      consts == IF HasBias(l) THEN [weight |-> weight, bias |-> F32(<<out[2]>>)] ELSE [weight |-> weight]
  IN IF ~BlobHas(l, 1, NumElements(weight)) \/ ~BiasBlobHas(l, out[2]) THEN Thrown
     ELSE <<Layer("depthwiseConvolution2d", ConvolutionDescriptor(l), consts, <<in[1].slot>>, <<F32(out)>>)>>

ParseConvLayer(l, in) ==
  LET shape == in[1].info.shape
      out == ConvolvedShape(l, shape, l.a.num_output)
  IN CASE Groups(l) > l.a.num_output \/ Len(shape) # 4 \/ (Groups(l) > 1 /\ Groups(l) > shape[2]) -> Thrown
       [] Groups(l) > 1 /\ Groups(l) = shape[2] -> AddConvLayerWithDepthwiseConv(l, in)
       [] Groups(l) > 1 /\ Groups(l) < shape[2] -> AddConvLayerWithSplits(l, in)
       [] ~BlobHas(l, 1, Product(<<shape[2], out[2]>> \o Kernel(l))) \/ ~BiasBlobHas(l, out[2]) -> Thrown
       [] OTHER -> <<Layer("convolution2d", ConvolutionDescriptor(l), Weights(l, out[2], shape[2]),
                           <<in[1].slot>>, <<F32(out)>>)>>

(* Both strides are that of the height.                                    *)
ParsePoolingLayer(l, in) ==
  LET shape == in[1].info.shape
      global == "global_pooling" \in DOMAIN l.a
      pool == IF global /\ NotFound \in ToSet(Kernel(l)) THEN <<shape[3], shape[4]>> ELSE Kernel(l)
      given == Optional(l.a, "stride_h", "stride", NotFound)
      stride == IF global /\ given = NotFound THEN 1 ELSE given
      size(dim) == CeilDiv(shape[2 + dim] + 2 * Padding(l)[dim] - pool[dim], stride) + 1
      d == [layout |-> "NCHW", pool |-> pool, stride |-> <<stride, stride>>, rounding |-> "ceiling",
            pads |-> [dim \in 1 .. 2 |-> <<Padding(l)[dim], Padding(l)[dim]>>]]
  IN IF Len(shape) < 4 /\ global /\ NotFound \in ToSet(Kernel(l)) THEN Escaped
     ELSE IF "pool" \notin DOMAIN l.a \/ l.a.pool \notin {"MAX", "AVE"} THEN Thrown
     ELSE IF Len(shape) < 4 THEN Escaped
     ELSE <<Layer("pooling2d", d, NoConsts, <<in[1].slot>>, <<F32(<<shape[1], shape[2], size(1), size(2)>>)>>)>>

ParseReluLayer(l, in) ==
  Alike("activation", [function |-> IF l.a.negative_slope = 0 THEN "ReLu" ELSE "LeakyReLu"], in)

ParseLRNLayer(l, in) ==
  IF \/ {"local_size", "alpha", "beta"} \ DOMAIN l.a # {}
     \/ Optional(l.a, "norm_region", "norm_region", "ACROSS_CHANNELS") \notin {"ACROSS_CHANNELS", "WITHIN_CHANNEL"}
  THEN Thrown
  ELSE Alike("normalization",
             [layout |-> "NCHW", normSize |-> l.a.local_size,
              across |-> Optional(l.a, "norm_region", "norm_region", "ACROSS_CHANNELS") = "ACROSS_CHANNELS"], in)

(* Weights and bias are taken as large as they should be.                  *)
ParseInnerProductLayer(l, in) ==
  LET size == l.a.num_output
      consts == [weight |-> F32(<<size, Product(Tail(in[1].info.shape))>>), bias |-> F32(<<size>>)]
  IN IF Rank(in[1].info) < 2 THEN Escaped
     ELSE IF Len(l.blobs) < 2 THEN Thrown
     ELSE <<Layer("fullyConnected", [transpose |-> Optional(l.a, "transpose", "transpose", TRUE), bias |-> TRUE],
                  consts, <<in[1].slot>>, <<F32(<<in[1].info.shape[1], size>>)>>)>>

ParseEltwiseLayer(l, in) ==
  LET operation == Optional(l.a, "operation", "operation", "SUM")
      kind == IF operation = "SUM" THEN "addition" ELSE "multiplication"
  IN IF operation \notin {"SUM", "PROD"} THEN Thrown
     ELSE <<Layer(kind, NoDescriptor, NoConsts, <<in[1].slot, in[2].slot>>, <<in[1].info>>)>>

(* Always of the channels; the other dimensions are those of the last.     *)
ParseConcatLayer(l, in) ==
  LET infos == [i \in DOMAIN in |-> in[i].info]
  IN IF \E i \in DOMAIN in : Rank(in[i].info) # 4 THEN Thrown
     ELSE <<Layer("merger", [axis |-> 1, origins |-> ConcatOrigins(infos, 2)], NoConsts,
                  [i \in DOMAIN in |-> in[i].slot], <<F32([Last(infos).shape EXCEPT ![2] = ConcatSize(infos, 2)])>>)>>

Normalized(in) ==
  LET channels == F32(<<in[1].info.shape[2]>>)
  IN <<Layer("batchNormalization", [layout |-> "NCHW"],
             [mean |-> channels, variance |-> channels, beta |-> channels, gamma |-> channels],
             <<in[1].slot>>, <<in[1].info>>)>>

ParseBatchNormLayer(l, in) ==
  LET channels == in[1].info.shape[2]
  IN IF ~Optional(l.a, "use_global_stats", "use_global_stats", TRUE) THEN Thrown
     ELSE IfRank(in[1].info, 2, IF BlobHas(l, 1, channels) /\ BlobHas(l, 2, channels) THEN Normalized(in) ELSE Thrown)

(* A scale is a batch normalization of mean 0 and variance 1.              *)
ParseScaleLayer(l, in) ==
  LET channels == in[1].info.shape[2]
      blobs == BlobHas(l, 1, channels) /\ ("bias_term" \in DOMAIN l.a => BlobHas(l, 2, channels))
  IN IF l.a.axis # 1 THEN Thrown ELSE IfRank(in[1].info, 2, IF blobs THEN Normalized(in) ELSE Thrown)

Parse(l, in) ==
  CASE l.type = "Convolution" -> ParseConvLayer(l, in)
    [] l.type = "Pooling" -> ParsePoolingLayer(l, in)
    [] l.type = "ReLU" -> ParseReluLayer(l, in)
    [] l.type = "LRN" -> ParseLRNLayer(l, in)
    [] l.type = "InnerProduct" -> ParseInnerProductLayer(l, in)
    [] l.type = "Softmax" -> Alike("softmax", NoDescriptor, in)
    [] l.type = "Eltwise" -> ParseEltwiseLayer(l, in)
    [] l.type = "Concat" -> ParseConcatLayer(l, in)
    [] l.type = "BatchNorm" -> ParseBatchNormLayer(l, in)
    [] l.type = "Scale" -> ParseScaleLayer(l, in)

(* ValidateNumInputsOutputs, where a layer has it.                         *)
NumbersValid(l) ==
  LET bottoms == Len(l.bottoms)
      tops == Len(l.tops)
  IN CASE l.type = "Input" -> bottoms = 0 /\ tops = 1
       [] l.type = "Eltwise" -> bottoms = 2 /\ tops = 1
       [] l.type = "Concat" -> TRUE
       [] l.type = "Split" -> bottoms = 1
       [] OTHER -> bottoms = 1 /\ tops = 1

----------------------------------------------------------------------------
(* The parser.  Its state st has the network, net; the slot of each top,   *)
(* slots; the bindings, and whether a function has thrown and its exception*)
(* escaped the handler, which calls Cleanup.  The model m has its layers in*)
(* order, the shapes of its inputs by name, and the requested outputs.     *)

(* Tops that a layer gets a slot for: none has one yet.                    *)
WithTops(st, tops, slot) ==
  IF ToSet(tops) \cap DOMAIN st.slots # {} THEN Failed(st)
  ELSE [st EXCEPT !.slots = @ @@ [t \in ToSet(tops) |-> slot]]

Created(st, l, layers) ==
  IF layers = Thrown THEN Failed(st)
  ELSE IF Escapes(layers) THEN Uncaught(st)
  ELSE WithTops([st EXCEPT !.net = Placed(@, l.name, layers)], <<l.tops[1]>>, <<Len(st.net) + Len(layers), 1>>)

(* The shape of the model, which a shape of the client may override in its *)
(* first dimension only; or else the client's.  The others are compared one*)
(* by one, up to the first that differs or that the client's does not have.*)
ParseInputLayer(m, st, l) ==
  LET given == l.name \in DOMAIN m.inputShapes
      shape == IF given THEN m.inputShapes[l.name] ELSE l.a.shape
      other == IF given /\ l.a.shape # <<>> THEN {i \in 2 .. 4 : i > Len(shape) \/ l.a.shape[i] # shape[i]} ELSE {}
      binding == l.name :> [id |-> Cardinality(DOMAIN st.inputs), info |-> F32(shape)]
  IN IF Len(l.a.shape) > MaxNumOfTensorDimensions \/ (other # {} /\ Min(other) > Len(shape)) THEN Uncaught(st)
     ELSE IF other # {} \/ (~given /\ l.a.shape = <<>>) \/ l.name \in DOMAIN st.inputs THEN Failed(st)
     ELSE [Created(st, l, <<Layer("input", [id |-> binding[l.name].id], NoConsts, <<>>, <<F32(shape)>>)>>)
             EXCEPT !.inputs = @ @@ binding]

ParseLayer(m, st, l) ==
  LET in == [i \in DOMAIN l.bottoms |->
               [slot |-> st.slots[l.bottoms[i]], info |-> SlotInfo(st.net, st.slots[l.bottoms[i]])]]
  IN CASE ~NumbersValid(l) -> Failed(st)
       [] NumbersValid(l) /\ l.type = "Input" -> ParseInputLayer(m, st, l)
       [] NumbersValid(l) /\ l.type \in {"Split", "Dropout"} -> WithTops(st, l.tops, in[1].slot)
       [] OTHER -> Created(st, l, Parse(l, in))

KnownTypes ==
  {"Input", "Convolution", "Pooling", "ReLU", "LRN", "InnerProduct", "Softmax", "Eltwise", "Concat", "BatchNorm",
   "Scale", "Split", "Dropout"}

AddOutput(m, st, top) ==
  LET slot == st.slots[top]
      binding == top :> [id |-> Cardinality(DOMAIN st.outputs), info |-> SlotInfo(st.net, slot)]
  IN IF st.thrown \/ top \in DOMAIN st.outputs THEN Failed(st)
     ELSE [st EXCEPT !.net = Placed(@, top, <<Layer("output", [id |-> binding[top].id], NoConsts, <<slot>>, <<>>)>>),
                     !.outputs = @ @@ binding]

ResolveFromFirst(layers, top) ==  \* mutant
  LET same == IF layers \in {Thrown, Escaped} THEN <<>>
              ELSE SelectSeq([i \in DOMAIN layers |-> i], LAMBDA i : top \in ToSet(layers[i].tops))
      resolve(ls, k) ==
        IF ls \in {Thrown, Escaped} THEN ls
        ELSE IF Len(ls[same[k]].tops) # 1 THEN Thrown
        ELSE IF ls[same[k + 1]].bottoms # <<top>> THEN Escaped
        ELSE [ls EXCEPT ![same[k]].tops = <<ls[same[k]].name \o "_top">>,
                        ![same[k + 1]].bottoms = <<ls[same[1]].name \o "_top">>]
  IN FoldLeft(resolve, layers, [k \in 1 .. Len(same) - 1 |-> k])

(* Layers with the same top are in place: each but the last gets a top of  *)
(* its own, which the next one reads.  If the next one does not read it,   *)
(* the message of the exception lacks an argument, and boost throws.       *)
ResolveInPlace(layers, top) ==
  LET same == IF layers \in {Thrown, Escaped} THEN <<>>
              ELSE SelectSeq([i \in DOMAIN layers |-> i], LAMBDA i : top \in ToSet(layers[i].tops))
      resolve(ls, k) ==
        IF ls \in {Thrown, Escaped} THEN ls
        ELSE IF Len(ls[same[k]].tops) # 1 THEN Thrown
        ELSE IF ls[same[k + 1]].bottoms # <<top>> THEN Escaped
        ELSE [ls EXCEPT ![same[k]].tops = <<ls[same[k]].name \o "_top">>,
                        ![same[k + 1]].bottoms = <<ls[same[k]].name \o "_top">>]
  IN FoldLeft(resolve, layers, [k \in 1 .. Len(same) - 1 |-> k])

ResolveInPlaceLayers(layers) ==
  FoldSet(LAMBDA top, ls : ResolveInPlace(ls, top), layers, UNION {ToSet(layers[i].tops) : i \in DOMAIN layers})

(* m_CaffeLayersByTopName: the last layer with the top.                    *)
ByTop(layers, top) == Max({i \in DOMAIN layers : top \in ToSet(layers[i].tops)})
HasTop(layers, top) == \E i \in DOMAIN layers : top \in ToSet(layers[i].tops)

NoBindings == [name \in {} |-> 0]

New0 == [net |-> <<>>, slots |-> [top \in {} |-> NoSlot], inputs |-> NoBindings, outputs |-> NoBindings, thrown |-> FALSE,
         escaped |-> FALSE]

(* The layers a model is parsed as; an input outside of the layers is the  *)
(* last of them.                                                           *)
Layers(m) == ResolveInPlaceLayers(m.layers)

(* CreateNetworkFromNetParameter and LoadNetParam before the layers are    *)
(* sorted: the requested outputs have to be the tops of layers.  A call    *)
(* without any is refused outside of the handler.                          *)
LoadNetParam(m, st) ==
  LET cleared == [New0 EXCEPT !.slots = st.slots]
  IN IF m.requested = <<>> \/ Layers(m) = Escaped THEN Uncaught(cleared)
     ELSE IF Layers(m) = Thrown \/ \E top \in ToSet(m.requested) : ~HasTop(Layers(m), top) THEN Failed(cleared)
     ELSE cleared

(* Every top that is looked up is the model's own.                         *)
ReadsOwnTops(m) ==
  Layers(m) \notin {Thrown, Escaped} =>
    \A top \in UNION {ToSet(Layers(m)[i].bottoms) : i \in DOMAIN m.layers} \cup ToSet(m.requested) : HasTop(Layers(m), top)

Cleanup(st) ==
  [New0 EXCEPT !.net = st.net, !.inputs = st.inputs, !.outputs = st.outputs, !.thrown = st.thrown]

GetInputs(layers, i) == [b \in DOMAIN layers[i].bottoms |-> ByTop(layers, layers[i].bottoms[b])]
=============================================================================
