--------------------------- MODULE MCLayerExecution ---------------------------
(* The layers of the run: every kind in every data type, and for the kinds *)
(* whose kernel computes offsets, small shapes with every descriptor that  *)
(* makes a difference.                                                     *)
EXTENDS LayerExecution

Info(type, shape) == [type |-> type, shape |-> shape]

Plain == [none |-> 0]

(* The type of an output whose first input has a type.                     *)
OutType(kind, type) ==
  CASE kind \in {"equal", "greater"} -> "bool"
    [] kind = "quantize" -> "u8"
    [] kind \in {"dequantize", "convertFp16ToFp32", "detectionPostProcess"} -> "f32"
    [] kind = "convertFp32ToFp16" -> "f16"
    [] OTHER -> type

(* A layer whose outputs have the shapes it infers, if it infers any.      *)
Made(kind, type, ins, consts, d) ==
  LET bare == [kind |-> kind, ins |-> ins, outs |-> <<>>, consts |-> consts, d |-> d]
      shapes == IF kind = "pad"
                THEN << [i \in DOMAIN ins[1].shape |-> ins[1].shape[i] + d.pads[i][1] + d.pads[i][2]] >>
                ELSE InferOutputShapes(bare)
  IN [bare EXCEPT !.outs = [i \in DOMAIN shapes |->
                              Info(OutType(kind, type), IF shapes = Refused THEN <<1>> ELSE shapes[i])]]

OneInput(kind, type, shape, d) == Made(kind, type, <<Info(type, shape)>>, <<>>, d)

AllTypes == {"f16", "f32", "u8", "s16"}

ElementwiseKinds ==
  {"addition", "subtraction", "multiplication", "division", "maximum", "minimum", "equal", "greater"}

Elementwise ==
  {Made(k, t, <<Info(t, p[1]), Info(t, p[2])>>, <<>>, Plain) :
     k \in ElementwiseKinds, t \in AllTypes,
     p \in {<< <<2, 2>>, <<2, 2>> >>, << <<2, 1>>, <<1, 3>> >>, << <<2, 3>>, <<1, 1>> >>,
            << <<2>>, <<2, 2>> >>, << <<2, 2>>, <<3, 2>> >>}}

MixedTypes ==
  {Made(k, "f32", <<Info("f32", <<2>>), Info("u8", <<2>>)>>, <<>>, Plain) : k \in {"addition", "equal"}}

SameShaped ==
  {OneInput(k, t, <<2, 2>>, Plain) :
     k \in {"activation", "floor", "rsqrt", "debug", "softmax", "quantize", "dequantize"},
     t \in AllTypes}

Copies ==
  {OneInput("memCopy", t, <<2>>, Plain) : t \in AllTypes \cup {"bool", "i32"}}
    \cup {[OneInput("output", t, <<2>>, Plain) EXCEPT !.outs = <<>>] : t \in AllTypes \cup {"bool", "i32"}}
    \cup {[Made("input", t, <<Info(t, <<2>>)>>, <<>>, Plain) EXCEPT !.ins = <<>>] : t \in AllTypes}
    \cup {OneInput("convertFp16ToFp32", "f16", <<2>>, Plain), OneInput("convertFp32ToFp16", "f32", <<2>>, Plain)}
    \cup {Made("constant", t, <<>>, [output |-> Info(t, <<2, 2>>)], Plain) : t \in AllTypes \cup {"i32"}}

(* A client may also give an output a shape the layer would not infer.     *)
Misshapen ==
  {[l EXCEPT !.outs[1].shape = <<1>>] :
     l \in {OneInput(k, "f32", <<2, 2>>, Plain) : k \in {"activation", "debug", "softmax", "quantize"}}
             \cup {OneInput("reshape", "f32", <<2, 2>>, [target |-> <<4>>]),
                   OneInput("mean", "f32", <<2, 2>>, [axis |-> {2}, keepDims |-> FALSE])}}

Layouts == {"NCHW", "NHWC"}

Normalizations ==
  {OneInput(k, t, <<1, 2, 3, 1>>, [layout |-> y, normSize |-> 3, across |-> a]) :
     k \in {"l2Normalization", "normalization"}, t \in AllTypes, y \in Layouts, a \in BOOLEAN}

BatchNormalizations ==
  {LET c == Info(t, <<2>>)
   IN Made("batchNormalization", t, <<Info(t, InLayout(y, 1, 2, 1, 2))>>,
           [mean |-> c, variance |-> c, beta |-> c, gamma |-> c], [layout |-> y]) :
     t \in AllTypes, y \in Layouts}

Slices ==
  {OneInput("stridedSlice", t, <<3, 2>>,
            [begin |-> <<b, 0>>, end |-> <<e, 1>>, stride |-> <<s, 1>>, beginMask |-> bm, endMask |-> em,
             shrinkAxisMask |-> sm]) :
     t \in {"f32", "s16"}, b \in {0, 1, -1}, e \in {1, 3, -1}, s \in {1, 2, -1}, bm \in {{}, {1}}, em \in {{}, {1}, {2}},
     sm \in {{}, {2}}}

BatchToSpaces ==
  {OneInput("batchToSpaceNd", t, InLayout(y, n, c, h, 2),
            [layout |-> y, block |-> b, crops |-> <<top, left>>]) :
     t \in {"f32", "f16"}, y \in Layouts, n \in {2, 4}, c \in {1, 2}, h \in {1, 2}, b \in {<<1, 2>>, <<2, 2>>, <<2, 1>>},
     top \in {<<0, 0>>, <<1, 0>>, <<0, 1>>}, left \in {<<0, 0>>, <<1, 1>>}}

SpaceToBatches ==
  {OneInput("spaceToBatchNd", t, InLayout(y, n, 1, h, 2),
            [layout |-> y, block |-> b, pads |-> <<top, left>>]) :
     t \in {"f32", "f16"}, y \in Layouts, n \in {1, 2}, h \in {1, 2, 3}, b \in {<<1, 2>>, <<2, 2>>, <<2, 1>>},
     top \in {<<0, 0>>, <<1, 0>>, <<0, 1>>}, left \in {<<0, 0>>, <<1, 1>>, <<0, 2>>}}

Means ==
  {OneInput("mean", t, <<2, 3, 2>>, [axis |-> a, keepDims |-> k]) :
     t \in AllTypes, a \in SUBSET (1 .. 3), k \in BOOLEAN}

Pads ==
  {OneInput("pad", "f32", <<2, 2>>, [pads |-> <<a, b>>]) : a, b \in {<<0, 0>>, <<1, 0>>, <<0, 2>>}}
    \cup {OneInput("pad", t, <<2>>, [pads |-> << <<1, 1>> >>]) : t \in AllTypes}

Poolings ==
  {OneInput("pooling2d", t, InLayout(y, 1, 2, 3, 2),
            [layout |-> y, pool |-> <<p, 2>>, stride |-> <<s, s>>, rounding |-> r,
             pads |-> <<v, <<a, a>> >>]) :
     t \in {"f32"}, y \in Layouts, p \in {2, 3, 4}, s \in {0, 1, 2}, r \in {"floor", "ceiling"},
     v \in {<<0, 0>>, <<1, 1>>, <<0, 1>>, <<2, 2>>}, a \in {0, 1}}
    \cup {OneInput("pooling2d", t, <<1, 1, 2, 2>>,
            [layout |-> "NCHW", pool |-> <<2, 2>>, stride |-> <<1, 1>>, rounding |-> "floor",
             pads |-> << <<0, 0>>, <<0, 0>> >>]) : t \in AllTypes}

Filter(layout, out, in, h, w) == InLayout(layout, out, in, h, w)

Convolutions ==
  {Made("convolution2d", t, <<Info(t, InLayout(y, 1, 2, 3, 2))>>,
        [weight |-> Info(t, Filter(y, 2, c, 2, w)), bias |-> Info(GetBiasDataType(t), <<2>>)],
        [layout |-> y, stride |-> <<s, 1>>, dilation |-> <<dil, 1>>, pads |-> <<v, <<0, 1>> >>, bias |-> b]) :
     t \in {"f32", "s16", "f16"}, y \in Layouts, c \in {1, 2, 3}, w \in {1, 2}, s \in {1, 2}, dil \in {1, 2},
     v \in {<<0, 0>>, <<1, 0>>}, b \in BOOLEAN}

Depthwises ==
  {Made("depthwiseConvolution2d", t, <<Info(t, InLayout(y, 1, 2, 3, 2))>>,
        [weight |-> Info(t, <<m, c, 2, w>>), bias |-> Info(GetBiasDataType(t), <<m * c>>)],
        [layout |-> y, stride |-> <<s, 1>>, dilation |-> <<dil, 1>>, pads |-> <<v, <<0, 1>> >>, bias |-> b]) :
     t \in {"f32", "s16", "u8"}, y \in Layouts, m \in {1, 2}, c \in {1, 2}, w \in {1, 2}, s \in {1, 2},
     dil \in {1, 2}, v \in {<<0, 0>>, <<1, 0>>}, b \in BOOLEAN}

FullyConnecteds ==
  {Made("fullyConnected", t, <<Info(t, in)>>,
        [weight |-> Info(t, w), bias |-> Info(GetBiasDataType(t), <<IF tr THEN w[1] ELSE w[2]>>)], [transpose |-> tr, bias |-> b]) :
     t \in AllTypes, in \in {<<2, 4>>, <<2, 1, 2, 2>>}, w \in {<<4, 3>>, <<3, 4>>}, tr, b \in BOOLEAN}

Orders == {q \in [1 .. 3 -> 1 .. 3] : Cardinality(ToSet(q)) = 3}

Permutes ==
  {OneInput("permute", t, <<2, 1, 3>>, [mappings |-> q]) : t \in AllTypes, q \in Orders}

Movements ==
  {OneInput("reshape", t, <<2, 3>>, [target |-> s]) : t \in AllTypes, s \in {<<6>>, <<3, 2>>}}
    \cup {Made("gather", t, <<Info(t, <<3, 2>>), Info("i32", <<2>>)>>, <<>>, [indices |-> <<i, j>>]) :
            t \in AllTypes, i \in 0 .. 3, j \in {0, 2}}
    \cup {OneInput("resizeBilinear", t, InLayout(y, 1, 2, h, 2), [layout |-> y, target |-> <<3, 4>>]) :
            t \in AllTypes, y \in Layouts, h \in {1, 3, 4}}

Concatenations ==
  {Made("merger", t, <<Info(t, a), Info(t, b)>>, <<>>, [axis |-> x, origins |-> << <<0, 0>>, o>>]) :
     t \in AllTypes, a \in {<<1, 2>>, <<2, 2>>}, b \in {<<1, 2>>, <<2, 1>>}, o \in {<<1, 0>>, <<2, 0>>, <<0, 2>>, <<0, 1>>},
     x \in {0, 1}}

Splits ==
  {OneInput("splitter", t, <<2, 3>>, [origins |-> << <<0, 0>>, o>>, sizes |-> <<a, b>>]) :
     t \in AllTypes, o \in {<<1, 0>>, <<0, 2>>}, a \in {<<1, 3>>, <<2, 2>>}, b \in {<<1, 3>>, <<2, 1>>, <<1, 1>>}}

MCLayers ==
  Elementwise \cup MixedTypes \cup SameShaped \cup Copies \cup Misshapen \cup Normalizations
    \cup BatchNormalizations \cup Slices \cup BatchToSpaces \cup SpaceToBatches \cup Means \cup Pads
    \cup Poolings \cup Convolutions \cup Depthwises \cup FullyConnecteds \cup Permutes \cup Movements
    \cup Concatenations \cup Splits

MCBackends == {"CpuRef", "CpuAcc", "GpuAcc"}
=============================================================================
