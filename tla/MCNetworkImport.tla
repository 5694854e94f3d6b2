--------------------------- MODULE MCNetworkImport ---------------------------
(* The models NetworkImport is checked with: of each format, one or a few  *)
(* for each operation, with tensors of every rank the operation tells      *)
(* apart, and graphs that are shared, out of order, cyclic or incomplete.  *)
EXTENDS ImportedOperands

Ones(n) == [i \in 1 .. n |-> 1]
None == [none |-> 0]

----------------------------------------------------------------------------
(* TensorFlow.  The nodes x and y are inputs; the output is z.             *)

Node(op, ins, a) == [op |-> op, ins |-> ins, a |-> a]
Plain(op, ins) == Node(op, [i \in DOMAIN ins |-> <<ins[i], 0>>], None)
X == Plain("Placeholder", <<>>)
ConstOf(type, shape, list, content) ==
  Node("Const", <<>>, [dtype |-> type, value |-> [shape |-> shape, list |-> list, content |-> content]])
F32s(shape) == ConstOf("f32", shape, <<1>>, <<>>)
I32s(values) == ConstOf("i32", <<>>, values, <<>>)

TfModel(nodes, shapes, requested) == [nodes |-> nodes, inputShapes |-> shapes, requested |-> requested]
TfUnary(n, shape) == TfModel([x |-> X, z |-> n], [x |-> shape], <<"z">>)
TfWith(n, c, shape) == TfModel([x |-> X, c |-> c, z |-> n], [x |-> shape], <<"z">>)

V == <<2>>
M == <<2, 2>>
A == <<1, 2, 2, 2>>
TfShapes == {<<V, V>>, <<V, M>>, <<M, V>>, <<M, M>>, <<A, A>>, <<A, V>>, <<V, A>>, <<A, M>>, <<A, <<1, 1, 1, 2>> >>}

TfBinaries ==
  {TfModel([x |-> X, y |-> X, z |-> Plain(op, <<"x", "y">>)], [x |-> s[1], y |-> s[2]], <<"z">>) :
     op \in {"Add", "Sub", "Mul", "RealDiv", "Maximum", "Minimum", "Greater", "Equal"}, s \in TfShapes}

TfActivations ==
  {TfUnary(Plain(op, <<"x">>), A) : op \in {"Relu", "Relu6", "Sigmoid", "Softplus", "Tanh", "Softmax", "Rsqrt"}}

Window(op, layout, padding, strides, kernel) ==
  Node(op, IF op \in {"MaxPool", "AvgPool"} THEN << <<"x", 0>> >> ELSE << <<"x", 0>>, <<"c", 0>> >>,
       [data_format |-> layout, padding |-> padding, strides |-> strides, ksize |-> kernel])

TfWindows ==
  {TfWith(Window(op, layout, padding, strides, Ones(4)), F32s(<<2, 1, 2, 2>>), <<1, 3, 3, 2>>) :
     op \in {"Conv2D", "DepthwiseConv2dNative"}, layout \in {"NHWC"}, padding \in {"SAME", "VALID", "FULL"},
     strides \in {<<1, 1, 1, 1>>, <<1, 2, 1, 1>>}}
  \cup {TfWith(Window(op, "NCHW", "SAME", <<1, 1, 2, 1>>, Ones(4)), F32s(<<2, 1, 2, 2>>), <<1, 2, 3, 3>>) :
          op \in {"Conv2D", "DepthwiseConv2dNative"}}
  \cup {TfUnary(Window("MaxPool", "NHWC", padding, <<1, 2, 2, 1>>, <<1, 2, 2, 1>>), <<1, 3, 3, 2>>) : padding \in {"SAME", "VALID"}}
  \cup {TfUnary(Window("AvgPool", "NCHW", "SAME", <<1, 1, 2, 1>>, <<1, 1, 2, 1>>), <<1, 2, 3, 3>>)}

TfNormalizations ==
  {TfWith(Node("FusedBatchNorm", << <<"x", 0>>, <<"c", 0>>, <<"c", 0>>, <<"c", 0>>, <<"c", 0>> >>, [data_format |-> f]),
          F32s(V), A) : f \in {"NHWC", "NCHW", "NC"}}
  \cup {TfUnary(Node("LRN", << <<"x", 0>> >>, [depth_radius |-> 1]), A)}

Of(op, a) == Node(op, << <<"x", 0>> >>, a)
By(op, a) == Node(op, << <<"x", 0>>, <<"c", 0>> >>, a)

TfReshapes ==
  {TfUnary(Of("ExpandDims", [Tdim |-> dim]), shape) : dim \in {-3, -1, 0, 2, 3}, shape \in {V, M, A}}
  \cup {TfUnary(Of("Squeeze", [T |-> "f32", squeeze_dims |-> dims]), <<1, 2, 1, 2>>) : dims \in {<<>>, <<0>>, <<1, 2>>}}
  \cup {TfWith(By("Reshape", None), I32s(values), M) : values \in {<<4, 1>>, <<-1>>, <<-1, 2>>, <<-1, -1>>}}
  \cup {TfModel([x |-> X, y |-> X, s |-> Node("Shape", << <<"y", 0>> >>, [out_type |-> "i32"]),
                 z |-> Plain("Reshape", <<"x", "s">>)], [x |-> A, y |-> <<2, 4>>], <<"z">>)}

TfSlices ==
  {TfWith(By("Pad", None), ConstOf("i32", <<2, 2>>, <<>>, <<0, 1, 1, last>>), M) : last \in {0, -1}}
  \cup {TfModel([x |-> X, y |-> X, c |-> I32s(<<axis>>), z |-> Plain("ConcatV2", <<"x", "y", "c">>)],
                [x |-> <<1, 2, 2, 1>>, y |-> <<1, 2, 2, 1>>], <<"z">>) : axis \in {1, 2, 3}}
  \cup {TfModel([x |-> X, c |-> I32s(<<axis>>), s |-> Node("Split", << <<"c", 0>>, <<"x", 0>> >>, [num_split |-> 2]),
                 z |-> Node("Sub", << <<"s", 1>>, <<"s", 0>> >>, None)], [x |-> <<1, 4, 2, 2>>], <<"z">>) : axis \in {1, 2, 3}}
  \cup {TfWith(By("ResizeBilinear", [align_corners |-> b]), I32s(<<3, 3>>), A) : b \in BOOLEAN}
  \cup {TfModel([x |-> X, y |-> X, z |-> Plain("Gather", <<"x", "y">>)], [x |-> M, y |-> <<3>>], <<"z">>)}
  \cup {TfWith(By("Mean", [keep_dims |-> b]), I32s(axes), A) : b \in BOOLEAN, axes \in {<<1, 2>>, <<-1>>, <<1>>, <<0, 1, 2, 3>>}}
  \cup {TfWith(By("BiasAdd", [data_format |-> f]), c, A) : f \in {"NHWC", "NCHW"}, c \in {F32s(V), F32s(M)}}

Seven == <<"a", "b", "c", "d", "e", "f", "g">>
TfSums ==
  {TfModel([i \in ToSet(SubSeq(Seven, 1, n)) |-> X] @@ ("z" :> Node("AddN", [i \in 1 .. n |-> <<Seven[i], 0>>], [N |-> n])),
           [i \in ToSet(SubSeq(Seven, 1, n)) |-> V], <<"z">>) : n \in 2 .. 7}

(* A product with weights w, read as it is, with a bias, and both.         *)
TfProducts ==
  LET matMul == [x |-> X, w |-> F32s(M), b |-> F32s(V), p |-> Plain("MatMul", <<"x", "w">>)]
      product(z, requested) == TfModel(matMul @@ [z |-> z], [x |-> <<1, 2>>], requested)
  IN {product(Plain("Add", <<"p", "b">>), <<"z">>), product(Plain("Add", <<"b", "p">>), <<"z">>),
      product(Plain("Add", <<"p", "b">>), <<"p", "z">>), product(Plain("Relu", <<"p">>), <<"z">>),
      product(Plain("Mul", <<"p", "p">>), <<"z", "p">>), product(Plain("MatMul", <<"x", "x">>), <<"z">>),
      TfModel(matMul @@ [z |-> Plain("Add", <<"p", "b">>)], [x |-> <<1, 2>>], <<"z", "nowhere">>)}

(* max(alpha x, x), with the factors and the operands in either order.     *)
TfLeakyRelus ==
  {TfModel([x |-> X, y |-> X, alpha |-> F32s(<<1>>), m |-> Plain("Mul", f), z |-> Plain("Maximum", o)],
           [x |-> V, y |-> V], requested) :
     f \in {<<"x", "alpha">>, <<"alpha", "x">>, <<"y", "alpha">>}, o \in {<<"m", "x">>, <<"x", "m">>},
     requested \in {<<"z">>, <<"z", "m">>}}

TfIdentities ==
  {TfModel([x |-> X, i |-> Plain("Identity", <<"x">>), j |-> Plain("Identity", <<"i">>), z |-> Plain("Sub", o)],
           [x |-> V], <<"z">>) : o \in {<<"j", "x">>, <<"x", "i">>}}
  \cup {TfModel([x |-> X, i |-> Plain("Identity", <<"x">>), z |-> Plain("Relu", <<"i">>)], [x |-> V], <<"i", "z">>)}

TfGraphs ==
  {TfModel([x |-> X, a |-> Plain("Relu", <<"x">>), b |-> Plain("Tanh", <<"a">>), c |-> Plain("Sigmoid", <<"a">>),
            z |-> Plain("Sub", <<"b", "c">>)], [x |-> V], r) : r \in {<<"z">>, <<"c", "z", "b">>, <<"z", "x">>}}
  \cup {TfModel([x |-> X, a |-> Plain("Add", <<"x", "b">>), b |-> Plain("Relu", <<"a">>), z |-> Plain("Relu", <<"b">>)],
                [x |-> V], <<"x", "z">>)}
  \cup {TfModel([x |-> X, z |-> z], [x |-> V], <<"z">>) :
          z \in {Plain("Relu", <<"y">>), Plain("Cos", <<"x">>), Plain("Relu", <<"x", "x">>), Plain("Assert", <<"x">>),
                 Node("Relu", << <<"x", 0>>, <<"x", -1>> >>, None), Node("Relu", << <<"x", 1>> >>, None),
                 Node("Relu", << <<"x", 0>> >>, [T |-> "f64"]), I32s(<<1, 2>>), F32s(M), ConstOf("f64", V, <<1>>, <<>>)}}
  \cup {TfModel([x |-> X, z |-> Plain("Relu", <<"x">>)], shapes, r) :
          shapes \in {<<>>, [x |-> V], [w |-> V]}, r \in {<<>>, <<"z">>}}

(* What throws another exception than a ParseException: tensors of no or   *)
(* more than four dimensions, those that lack a dimension, and messages    *)
(* that are no formats.                                                    *)
Five == <<1, 1, 1, 1, 1>>
TfEscapes ==
  {TfUnary(Of("Squeeze", [T |-> "f32", squeeze_dims |-> <<>>]), <<1, 1>>),
   TfUnary(Window("MaxPool", "NHWC", "SAME", <<1, 2, 2, 1>>, <<1, 2, 2, 1>>), M),
   TfUnary(Node("AddN", << <<"x", 0>> >>, [N |-> 1]), V),
   TfModel([x |-> X, z |-> F32s(Five)], [x |-> V], <<"z">>),
   TfModel([x |-> X, y |-> X, z |-> Plain("Gather", <<"x", "y">>)], [x |-> A, y |-> M], <<"z">>),
   TfModel([x |-> X, a |-> Plain("Relu", <<"x">>), z |-> Node("Relu", << <<"a", Tf!Unreadable>> >>, None)], [x |-> V], <<"z">>)}
  \cup {TfWith(By("Reshape", None), I32s(Five), <<1, 1>>), TfWith(By("ResizeBilinear", [align_corners |-> FALSE]), I32s(<<3, 3>>), M),
        TfWith(By("Pad", None), ConstOf("i32", <<1, 2>>, <<>>, <<0, 1>>), M),
        TfWith(Window("Conv2D", "NHWC", "SAME", Ones(4), Ones(4)), F32s(<<2, 1, 2>>), <<1, 3, 3, 2>>)}

TfModels ==
  TfEscapes \cup TfBinaries \cup TfActivations \cup TfWindows \cup TfNormalizations \cup TfReshapes \cup TfSlices \cup TfSums \cup TfProducts
    \cup TfLeakyRelus \cup TfIdentities \cup TfGraphs

----------------------------------------------------------------------------
(* Caffe.  The layer data has the input; the output is the top z.          *)

Lay(name, type, bottoms, tops, a, blobs) ==
  [name |-> name, type |-> type, bottoms |-> bottoms, tops |-> tops, a |-> a, blobs |-> blobs]
Data(shape) == Lay("data", "Input", <<>>, <<"x">>, [shape |-> shape], <<>>)
One(type, a, blobs) == Lay("one", type, <<"x">>, <<"z">>, a, blobs)

CaffeModel(layers, shapes, requested) == [layers |-> layers, inputShapes |-> shapes, requested |-> requested]
CaffeOne(l, shape) == CaffeModel(<<Data(shape), l>>, <<>>, <<"z">>)

Conv(outputs, groups) ==
  [num_output |-> outputs, group |-> groups, kernel_size |-> 2, stride_w |-> 2, pad_h |-> 1, bias_term |-> TRUE]

CaffeWindows ==
  {CaffeOne(One("Convolution", Conv(outputs, 1), <<4 * 4 * outputs, outputs>>), <<1, 4, 3, 3>>) : outputs \in {1, 2}}
  \cup {CaffeOne(One("Convolution", Conv(4, groups), <<64 \div groups, bias>>), <<1, 4, 3, 3>>) :
          groups \in {2, 4, 8}, bias \in {3, 4}}
  \cup {CaffeOne(One("Convolution", [num_output |-> 2, kernel_size |-> 1, bias_term |-> FALSE], <<8>>), <<1, 4, 3, 3>>)}
  \cup {CaffeOne(One("Pooling", a, <<>>), <<1, 2, 3, 3>>) :
          a \in {[pool |-> "MAX", kernel_size |-> 2, stride |-> 2], [pool |-> "AVE", kernel_size |-> 2, stride |-> 1, pad |-> 1],
                 [pool |-> "AVE", global_pooling |-> TRUE], [pool |-> "STOCHASTIC", kernel_size |-> 2, stride |-> 1],
                 [pool |-> "MAX", kernel_size |-> 2, stride_h |-> 1, stride_w |-> 2]}}
  \cup {CaffeOne(One("Pooling", [pool |-> "MAX", kernel_size |-> 1, stride |-> 3], <<>>), <<1, 2, 5, 5>>)}

CaffeSimple ==
  {CaffeOne(One("ReLU", [negative_slope |-> slope], <<>>), A) : slope \in {0, 1}}
  \cup {CaffeOne(One("LRN", a, <<>>), A) :
          a \in {[local_size |-> 3, alpha |-> 1, beta |-> 1], [local_size |-> 3, alpha |-> 1],
                 [local_size |-> 3, alpha |-> 1, beta |-> 1, norm_region |-> "WITHIN_CHANNEL"]}}
  \cup {CaffeOne(One("InnerProduct", [num_output |-> 3], blobs), A) : blobs \in {<<24, 3>>, <<24>>}}
  \cup {CaffeOne(One("Softmax", None, <<>>), M)}
  \cup {CaffeOne(One("BatchNorm", [use_global_stats |-> b], blobs), A) : b \in BOOLEAN, blobs \in {<<2, 2, 1>>, <<3, 2, 1>>}}
  \cup {CaffeOne(One("Scale", a, <<2, 2>>), A) : a \in {[axis |-> 1, bias_term |-> TRUE], [axis |-> 1], [axis |-> 2]}}

Relu(name, bottom, top) == Lay(name, "ReLU", <<bottom>>, <<top>>, [negative_slope |-> 0], <<>>)
Eltwise(bottoms, a) == Lay("sum", "Eltwise", bottoms, <<"z">>, a, <<>>)
ConcatLay(bottoms) == Lay("concat", "Concat", bottoms, <<"z">>, None, <<>>)

(* Layers that read several others, that share one, in place and not.      *)
CaffeGraphs ==
  {CaffeModel(<<Data(A), Relu("a", "x", "y"), join>>, <<>>, r) :
     join \in {Eltwise(<<"y", "x">>, None), Eltwise(<<"x", "y">>, [operation |-> "PROD"]), Eltwise(<<"x", "y">>, [operation |-> "MAX"]),
               Eltwise(<<"x">>, None), ConcatLay(<<"y", "x", "y">>), ConcatLay(<<"x", "y">>)},
     r \in {<<"z">>, <<"y", "z">>}}
  \cup {CaffeModel(<<Data(A), Relu("a", "x", "x"), Relu("b", "x", "x"), join>>, <<>>, <<"z">>) :
          join \in {Relu("c", "x", "z"), Eltwise(<<"x", "x">>, None)}}
  \cup {CaffeModel(<<Data(A), Lay("split", "Split", <<"x">>, <<"s", "t">>, None, <<>>), Relu("a", "s", "s"),
                     Lay("drop", "Dropout", <<"t">>, <<"u">>, None, <<>>), Eltwise(<<"s", "u">>, None)>>, <<>>, <<"z">>)}
  \cup {CaffeModel(<<join, Relu("b", "y", "w"), Relu("a", "x", "y"), Data(A)>>, <<>>, <<"z", "w">>) :
          join \in {Eltwise(<<"w", "y">>, None), ConcatLay(<<"w", "x">>), Eltwise(<<"w", "nowhere">>, None)}}
  \cup {CaffeModel(<<Data(A), Lay("a", "Eltwise", <<"x", "z">>, <<"y">>, None, <<>>), Relu("b", "y", "z")>>, <<>>, r) :
          r \in {<<"z">>, <<"x">>}}
  \cup {CaffeModel(<<Data(shape), Relu("a", "x", "z")>>, shapes, r) :
          shape \in {A, <<>>}, shapes \in {<<>>, [data |-> <<2, 2, 2, 2>>], [data |-> <<1, 2, 3, 2>>]},
          r \in {<<"z">>, <<"z", "z">>, <<"z", "x">>, <<>>, <<"y">>}}
  \cup {CaffeModel(<<Data(A), Lay("a", "Power", <<"x">>, <<"z">>, None, <<>>)>>, <<>>, <<"z">>),
        CaffeModel(<<Data(A), Lay("a", "ReLU", <<"x">>, <<"z", "z2">>, [negative_slope |-> 0], <<>>)>>, <<>>, <<"z">>),
        CaffeModel(<<Data(M), ConcatLay(<<"x">>)>>, <<>>, <<"z">>)}

(* Bottoms that lack a dimension, an input of too many, a shape the client *)
(* overrides with a shorter one, and a top two layers have in turn but not *)
(* in place.                                                               *)
CaffeEscapes ==
  {CaffeOne(One("Pooling", a, <<>>), M) :
     a \in {[pool |-> "MAX", kernel_size |-> 2, stride |-> 2], [pool |-> "AVE", global_pooling |-> TRUE]}}
  \cup {CaffeOne(One("InnerProduct", [num_output |-> 3], <<24, 3>>), V), CaffeOne(One("BatchNorm", None, <<2, 2, 1>>), V),
        CaffeOne(One("Scale", [axis |-> 1], <<2, 2>>), V), CaffeOne(Relu("a", "x", "z"), Five),
        CaffeModel(<<Data(A), Relu("a", "x", "z")>>, [data |-> <<1, 2>>], <<"z">>),
        CaffeModel(<<Data(A), Relu("a", "x", "y"), Relu("b", "x", "y"), Relu("c", "y", "z")>>, <<>>, <<"z">>)}

CaffeModels == CaffeEscapes \cup CaffeWindows \cup CaffeSimple \cup CaffeGraphs

----------------------------------------------------------------------------
(* TensorFlow Lite.  The tensors of an operator are its inputs, those with *)
(* values behind those without, and its outputs.                           *)

FloatTensor(shape) == Tensor("f32", shape, <<>>)
Weight(shape) == Tensor("f32", shape, Ones(Product(shape)))
Ints(values) == Tensor("i32", <<Len(values)>>, values)
IntsOf(shape, values) == Tensor("i32", shape, values)
Operator(op, ins, outs, a) == [op |-> op, ins |-> ins, outs |-> outs, a |-> a]
Floats(shapes) == [i \in DOMAIN shapes |-> FloatTensor(shapes[i])]

Lite(op, a, ins, consts, outs) ==
  LET from == Len(ins) + Len(consts)
      outNumbers == [i \in DOMAIN outs |-> from + i]
  IN [tensors |-> Floats(ins) \o consts \o Floats(outs), ops |-> <<Operator(op, [i \in 1 .. from |-> i], outNumbers, a)>>,
      inputs |-> [i \in DOMAIN ins |-> i], outputs |-> outNumbers]

Fused(activation) == [activation |-> activation]

LiteBinaries ==
  {Lite(op, Fused(act), s, <<>>, <<A>>) :
     op \in {"MAXIMUM", "MINIMUM", "SUB", "ADD", "MUL"}, act \in {"NONE", "RELU6"}, s \in {<<A, A>>, <<A, V>>, <<V, A>>}}
  \cup {Lite("ADD", Fused("NONE"), <<A>>, <<Weight(V)>>, <<A>>), Lite("SUB", Fused("SIGN_BIT"), <<A, A>>, <<>>, <<A>>)}

Slid(options) == [activation |-> "RELU", stride |-> <<1, 2>>, dilation |-> <<1, 1>>, padding |-> "SAME"] @@ options

LiteWindows ==
  {Lite("CONV_2D", Slid([padding |-> padding]), << <<1, 3, 3, 2>> >>, consts, << <<1, out, 2, 3>> >>) :
     padding \in {"SAME"}, out \in {3},
     consts \in {<<Weight(<<3, 1, 1, 2>>)>>, <<Weight(<<3, 1, 1, 2>>), Weight(<<3>>)>>, <<FloatTensor(<<3, 1, 1, 2>>)>>}}
  \cup {Lite("CONV_2D", Slid([dilation |-> <<2, 2>>]), << <<1, 3, 3, 2>> >>, <<Weight(<<3, 2, 2, 2>>)>>, << <<1, 3, 2, 3>> >>)}
  \cup {Lite("DEPTHWISE_CONV_2D", Slid([multiplier |-> k, dilation |-> dilation]), << <<1, 3, 3, 2>> >>,
             <<Weight(<<1, 2, 2, 4>>), Weight(<<4>>)>>, << <<1, 3, 2, 4>> >>) : k \in {1, 2}, dilation \in {<<1, 1>>, <<2, 1>>}}
  \cup {Lite(op, Slid([filter |-> <<2, 2>>, padding |-> "VALID"]), << <<1, 3, 3, 2>> >>, <<>>, << <<1, 2, 1, 2>> >>) :
          op \in {"AVERAGE_POOL_2D", "MAX_POOL_2D"}}

LiteShapes ==
  {Lite("SQUEEZE", [squeeze_dims |-> dims], << <<1, 2, 1, 2>> >>, <<>>, <<IF dims = {0} THEN <<2, 1, 2>> ELSE <<2, 2>> >>) :
     dims \in {{}, {0}, {-1}}}
  \cup {Lite("RESHAPE", [new_shape |-> shape], <<A>>, consts, << <<2, 4>> >>) :
          shape \in {<<2, 4>>, <<-1, 4>>, <<-1, -1>>}, consts \in {<<>>, <<Ints(<<2, 4>>)>>}}
  \cup {Lite("RESHAPE", [new_shape |-> <<4, 2>>], <<A>>, <<Ints(<<2, 4>>)>>, << <<2, 4>> >>)}
  \cup {Lite("STRIDED_SLICE", [begin_mask |-> {1}, end_mask |-> {}, shrink_axis_mask |-> shrink], <<<<4, 3>>>>,
             <<Ints(<<1, 0>>), Ints(<<3, 1>>), Ints(<<2, 1>>)>>, <<IF shrink = {} THEN <<2, 1>> ELSE <<2>> >>) : shrink \in {{}, {2}}}
  \cup {Lite("MEAN", None, <<A>>, <<Ints(axes)>>, <<out>>) : axes \in {<<1, 2>>}, out \in {<<1, 1, 1, 2>>, <<1, 2>>}}
  \cup {Lite("PAD", None, <<M>>, <<IntsOf(<<2, 2>>, <<0, 1, 1, 0>>)>>, << <<3, 3>> >>),
        Lite("RESIZE_BILINEAR", None, <<A>>, <<Ints(<<3, 3>>)>>, << <<1, 3, 3, 2>> >>),
        Lite("BATCH_TO_SPACE_ND", None, << <<4, 1, 1, 2>> >>, <<Ints(<<2, 2>>), IntsOf(<<2, 2>>, <<0, 0, 0, 0>>)>>, <<A>>),
        Lite("SPACE_TO_BATCH_ND", None, <<A>>, <<Ints(<<2, 2>>), IntsOf(<<2, 2>>, <<0, 0, 0, 0>>)>>, << <<4, 1, 1, 2>> >>)}
  \cup {Lite(op, None, <<A>>, <<>>, <<A>>) : op \in {"SOFTMAX", "RELU", "RELU6", "LOGISTIC", "TANH", "COS"}}
  \cup {Lite("CONCATENATION", [activation |-> "NONE", axis |-> axis], <<A, A>>, <<>>, << <<1, 2, 2, 4>> >>) : axis \in {3, -1}}
  \cup {Lite("FULLY_CONNECTED", Fused("RELU"), <<shape>>, consts, << <<2, 3>> >>) :
          shape \in {<<2, 4>>, <<2, 2, 2>>, <<1, 3, 3>>}, consts \in {<<Weight(<<3, 4>>)>>, <<Weight(<<3, 4>>), Weight(<<3>>)>>}}

(* The views of a split or an unpacked tensor subtracted from each other.  *)
LiteViews ==
  {[tensors |-> Floats(<< <<1, 4, 2, 2>> >>) \o <<Ints(<<axis>>)>> \o Floats(<<view, view, view>>),
    ops |-> <<Operator("SPLIT", <<2, 1>>, <<3, 4>>, [num_splits |-> 2]), Operator("SUB", <<4, 3>>, <<5>>, Fused("NONE"))>>,
    inputs |-> <<1>>, outputs |-> <<5>>] : axis \in {1, 2}, view \in {<<1, 2, 2, 2>>}}
  \cup {[tensors |-> Floats(<< <<2, 3>>, <<3>>, <<3>>, <<3>> >>),
         ops |-> <<Operator("UNPACK", <<1>>, <<2, 3>>, [axis |-> 0, num |-> num]), Operator("SUB", <<3, 2>>, <<4>>, Fused("NONE"))>>,
         inputs |-> <<1>>, outputs |-> <<4>>] : num \in {0, 2, 3}}

Detection(valid) ==
  Lite("CUSTOM", [detections |-> 2, iouValid |-> valid], << <<1, 3, 4>>, <<1, 3, 2>> >>, <<Weight(<<3, 4>>)>>,
       << <<1>>, <<1>>, <<1>>, <<1>> >>)

(* Operators that share a tensor, that read what a later one produces, and *)
(* tensors nothing or two operators produce.                               *)
LiteGraphs ==
  {[tensors |-> Floats(<<A, A, A, A>>) \o <<Weight(V)>>,
    ops |-> <<Operator("RELU", <<1>>, <<2>>, None), Operator("ADD", ins, <<3>>, Fused("NONE")),
              Operator("SUB", <<3, 5>>, <<4>>, Fused("NONE"))>>,
    inputs |-> inputs, outputs |-> outputs] :
     ins \in {<<1, 2>>, <<2, 5>>, <<2, 2>>}, inputs \in {<<1>>, <<1, 1>>, <<>>}, outputs \in {<<4>>, <<3, 4>>}}
  \cup {[tensors |-> Floats(<<A, A, A>>), inputs |-> <<1>>, outputs |-> <<3>>,
         ops |-> <<Operator("TANH", <<2>>, <<3>>, None), Operator("RELU", <<1>>, <<out>>, None)>>] : out \in {2, 3}}
  \cup {[tensors |-> <<Tensor("f64", A, <<>>), FloatTensor(A)>>, inputs |-> <<1>>, outputs |-> <<2>>,
         ops |-> <<Operator("TANH", <<1>>, <<2>>, None)>>]}

(* What ends the loop over the operators at once.                          *)
LiteEscapes ==
  {Lite("RELU", None, <<Five>>, <<>>, <<V>>), Lite("SQUEEZE", [squeeze_dims |-> {}], << <<1, 1>> >>, <<>>, <<V>>),
   Lite("RESHAPE", [new_shape |-> Five], << <<1, 1>> >>, <<>>, <<V>>),
   Lite("MAX_POOL_2D", Slid([filter |-> <<2, 2>>]), <<M>>, <<>>, <<M>>),
   Lite("CONV_2D", Slid(<<>>), <<A>>, <<Weight(M)>>, <<A>>)}

LiteModels ==
  LiteEscapes \cup LiteBinaries \cup LiteWindows \cup LiteShapes \cup LiteViews \cup LiteGraphs \cup {Detection(TRUE), Detection(FALSE)}

----------------------------------------------------------------------------
(* ONNX.  Of a tensor the model may declare the info or not, and may give  *)
(* its values.                                                             *)

Declared(shape) == [type |-> "FLOAT", info |-> Info("f32", shape), const |-> Onnx!NoConst]
Undeclared == [type |-> "FLOAT", info |-> NoInfo, const |-> Onnx!NoConst]
Initialized(shape) == [Declared(shape) EXCEPT !.const = Weight(shape)]
Shape64(values) == [type |-> "INT64", info |-> Info("i32", <<Len(values)>>), const |-> Ints(values)]

OnnxModel(tensors, ops, inputs, outputs) ==
  [ops |-> ops, inputs |-> inputs, outputs |-> outputs, types |-> [t \in DOMAIN tensors |-> tensors[t].type],
   infos |-> [t \in DOMAIN tensors |-> tensors[t].info], consts |-> [t \in DOMAIN tensors |-> tensors[t].const]]

(* Inputs and initializers.                                                *)
Given(tensors) == SelectSeq([t \in DOMAIN tensors |-> t], LAMBDA t : tensors[t].type = "FLOAT")

(* One node of some tensors, with an output that is the model's.           *)
OnnxOne(op, a, ins, out) ==
  LET n == Len(ins)
  IN OnnxModel(Append(ins, out), <<Operator(op, [i \in 1 .. n |-> i], <<n + 1>>, a)>>, Given(ins), <<n + 1>>)

(* Its output is not declared; a further node reads it, and has an output  *)
(* of its shape that is the model's.                                       *)
OnnxThen(op, a, ins, shape) ==
  LET n == Len(ins)
  IN OnnxModel(ins \o <<Undeclared, Declared(shape)>>,
               <<Operator(op, [i \in 1 .. n |-> i], <<n + 1>>, a), Operator("Relu", <<n + 1>>, <<n + 2>>, None)>>,
               Given(ins), <<n + 2>>)

C == <<1, 2, 3, 3>>
OnnxWindows ==
  {OnnxThen(op, w[1], <<Declared(C)>>, w[2]) : op \in {"AveragePool", "MaxPool"},
     w \in {<<[kernel_shape |-> <<2, 2>>], <<1, 2, 2, 2>> >>,
            <<[kernel_shape |-> <<2, 2>>, strides |-> <<1, 2>>, pads |-> <<0, 1, 1, 0>>], <<1, 2, 3, 2>> >>, <<None, C>>,
            <<[kernel_shape |-> <<2, 2>>, auto_pad |-> "SAME_UPPER"], C>>, <<[kernel_shape |-> <<2, 2>>, auto_pad |-> "SAME_LOWER"], C>>,
            <<[kernel_shape |-> <<2, 2>>, auto_pad |-> "SAME"], C>>}}
  \cup {OnnxOne("GlobalAveragePool", None, <<Declared(C)>>, Declared(<<1, 2, 1, 1>>)),
        OnnxThen("GlobalAveragePool", None, <<Declared(C)>>, <<1, 2, 1, 1>>)}
  \cup {OnnxThen("Conv", w[1], <<Declared(C)>> \o rest, w[2]) :
          w \in {<<None, <<1, 4, 2, 2>> >>, <<[strides |-> <<2, 1>>], <<1, 4, 1, 2>> >>,
                 <<[pads |-> <<1, 0, 0, 1>>, dilations |-> <<1, 1>>], <<1, 4, 3, 3>> >>, <<[dilations |-> <<2, 2>>], C>>},
          rest \in {<<Initialized(<<4, 2, 2, 2>>)>>, <<Initialized(<<4, 2, 2, 2>>), Initialized(<<4>>)>>, <<Declared(<<4, 2, 2, 2>>)>>}}
  \cup {OnnxThen("Conv", [group |-> group], <<Declared(C), Initialized(<<2, 1, 2, 2>>)>>, <<1, 2, 2, 2>>) : group \in {2, 3}}

OnnxSimple ==
  {OnnxThen("BatchNormalization", None, <<Declared(C), Initialized(V), Initialized(V), Initialized(V), last>>, C) :
     last \in {Initialized(V), Declared(V)}}
  \cup {OnnxThen(op, None, <<x>>, A) : op \in {"Relu", "Selu"}, x \in {Declared(A), [Declared(A) EXCEPT !.type = "INT32"]}}
  \cup {OnnxThen("Reshape", None, <<Declared(A), Shape64(w[1])>>, w[2]) :
          w \in {<< <<0, 0, 4>>, <<1, 2, 4>> >>, << <<-1, 2>>, <<4, 2>> >>, << <<0, -1, -1>>, A>>}}
  \cup {OnnxOne("Reshape", None, <<Declared(A), Shape64(<<2, 4>>)>>, Declared(<<2, 4>>))}

OnnxAdds ==
  {OnnxThen("Add", None, ins, A) :
     ins \in {<<Declared(A), Declared(A)>>, <<Declared(A), Declared(V)>>, <<Declared(V), Declared(A)>>, <<Declared(A), Initialized(V)>>,
              <<Declared(A), Initialized(A)>>, <<Declared(M), Declared(<<3>>)>>, <<Declared(A), Declared(<<1, 1, 1, 2>>)>>}}
  \cup {OnnxModel(<<Declared(A), Declared(V), Undeclared, Declared(A)>>,
                 <<Operator("Add", <<1, 2>>, <<3>>, None), Operator("Add", second, <<4>>, None)>>, <<1, 2>>, <<4>>) :
          second \in {<<3, 1>>, <<3, 2>>}}

(* A product, alone, with a bias, with both, and with two biases.          *)
Product1 == Operator("MatMul", <<1, 2>>, <<4>>, None)
Biased(ins, out) == Operator("Add", ins, <<out>>, None)
OnnxProducts ==
  {OnnxModel(<<Declared(<<1, 2>>), Initialized(M), bias, IF outputs = <<5>> THEN Undeclared ELSE Declared(<<1, 2>>),
               Declared(<<1, 2>>), Undeclared>>, ops, <<1, 2>>, outputs) :
     bias \in {Initialized(V), Initialized(<<1, 2>>), Initialized(<<2, 1>>)},
     ops \in {<<Product1, Biased(<<4, 3>>, 5)>>, <<Product1, Biased(<<3, 4>>, 5)>>,
              <<Product1, Biased(<<4, 3>>, 5), Biased(<<4, 3>>, 6)>>, <<Product1, Operator("Relu", <<4>>, <<5>>, None)>>},
     outputs \in {<<5>>, <<5, 4>>}}

OnnxGraphs ==
  {OnnxModel(<<Declared(V), Declared(V), Declared(V), Declared(V)>>,
             <<Operator("Constant", <<>>, <<2>>, a), Operator("Relu", <<1>>, <<3>>, None)>>, <<1>>, outputs) :
     a \in {[value |-> Weight(V)], [value |-> Ints(<<1>>)], None}, outputs \in {<<3>>, <<>>, <<3, 4>>}}
  \cup {OnnxModel(<<Declared(A), Declared(A), Undeclared, Declared(A)>>,
                 <<Operator("Relu", <<1>>, <<2>>, None), Operator("Relu", <<2>>, <<3>>, None), Operator("Add", ins, <<4>>, None)>>,
                 <<1>>, <<4, 2>>) : ins \in {<<2, 3>>, <<3, 1>>}}
  \cup {OnnxOne("Relu", None, <<Declared(A)>>, [Declared(A) EXCEPT !.type = "DOUBLE"])}

(* What throws another exception than a ParseException: infos that are not *)
(* declared or have no or more than four dimensions, shapes a layer refuses*)
(* to infer, and a second node with the same output.                       *)
OnnxEscapes ==
  {OnnxOne("Relu", None, <<Declared(shape)>>, Declared(V)) : shape \in {<<>>, Five}}
  \cup {OnnxOne("Relu", None, <<Declared(V)>>, Undeclared)}
  \cup {OnnxThen("GlobalAveragePool", None, <<Declared(M)>>, M)}
  \cup {OnnxThen("MaxPool", a, <<Declared(M)>>, M) :
          a \in {[kernel_shape |-> <<2, 2>>], [kernel_shape |-> <<2, 2>>, auto_pad |-> "SAME_UPPER"]}}
  \cup {OnnxThen("Conv", a, <<Declared(C), Initialized(<<4, 2, 2>>)>>, C) : a \in {None, [auto_pad |-> "SAME_LOWER"]}}
  \cup {OnnxThen("Conv", [group |-> 2], <<Declared(C), Initialized(V)>>, C)}
  \cup {OnnxThen("Reshape", None, <<Declared(M), Shape64(values)>>, M) : values \in {<<0, 0, 0>>, <<4, 1, 1, 1, 1>>}}
  \cup {OnnxModel(<<Declared(<<1, 2>>), Initialized(V), Initialized(V), Undeclared, Declared(<<1, 2>>)>>,
                  <<Product1, Biased(<<4, 3>>, 5)>>, <<1, 2>>, <<5>>),
        OnnxModel(<<Declared(A), Declared(A)>>, <<Operator("Relu", <<1>>, <<2>>, None), Operator("Relu", <<1>>, <<2>>, None)>>,
                  <<1>>, <<2>>)}

OnnxModels == OnnxEscapes \cup OnnxWindows \cup OnnxSimple \cup OnnxAdds \cup OnnxProducts \cup OnnxGraphs

----------------------------------------------------------------------------
(* Networks of the client, whose infos are what it says they are.          *)

F(shape) == Info("f32", shape)
Built(kind, d, consts, from, outs) == [kind |-> kind, d |-> d, consts |-> consts, from |-> from, outs |-> outs, node |-> 0]
InputLayer(id, info) == Built("input", [id |-> id], NoConsts, <<>>, <<info>>)
OutputLayer(id, slot) == Built("output", [id |-> id], NoConsts, <<slot>>, <<>>)

ClientNet(kind, d, consts, ins, outs) ==
  LET n == Len(ins)
  IN [i \in 1 .. n |-> InputLayer(i + 3, ins[i])] \o <<Built(kind, d, consts, [i \in 1 .. n |-> <<i, 1>>], outs)>>
       \o [o \in 1 .. Len(outs) |-> OutputLayer(o, <<n + 1, o>>)]

Same(kind, d) == ClientNet(kind, d, NoConsts, <<F(A)>>, <<F(A)>>)
Both(kind) == ClientNet(kind, NoDescriptor, NoConsts, <<F(A), F(A)>>, <<F(A)>>)
Weighted(kind, dilation) ==
  ClientNet(kind, [layout |-> "NHWC", stride |-> <<1, 2>>, dilation |-> dilation, pads |-> << <<0, 1>>, <<1, 0>> >>, bias |-> TRUE],
            [weight |-> F(<<1, 2, 1, 1>>), bias |-> F(V)], <<F(A)>>, <<F(A)>>)

ClientKinds ==
  {Same("activation", [function |-> f]) :
     f \in {"Sigmoid", "TanH", "Linear", "ReLu", "BoundedReLu", "SoftReLu", "LeakyReLu", "Abs", "Sqrt", "Square"}}
  \cup {Same(kind, NoDescriptor) : kind \in {"softmax", "rsqrt", "floor", "dequantize"}}
  \cup {Both(kind) : kind \in {"addition", "subtraction", "multiplication", "division", "maximum", "minimum", "equal", "greater",
                               "gather", "merge", "switch"}}
  \cup {Weighted(kind, dilation) : kind \in {"convolution2d", "depthwiseConvolution2d"}, dilation \in {<<1, 1>>, <<2, 3>>}}
  \cup {ClientNet("floor", NoDescriptor, NoConsts, <<Info(type, A)>>, <<Info(type, A)>>) : type \in DataTypes}
  \cup {ClientNet("constant", NoDescriptor, [output |-> Info(type, V)], <<>>, <<Info(type, V)>>) : type \in DataTypes}
  \cup {ClientNet("quantize", NoDescriptor, NoConsts, <<F(V)>>, <<Info("u8", V)>>),
        ClientNet("batchNormalization", [layout |-> "NCHW"],
                  [mean |-> F(V), variance |-> F(V), beta |-> F(V), gamma |-> F(V)], <<F(A)>>, <<F(A)>>),
        ClientNet("fullyConnected", [transpose |-> TRUE, bias |-> FALSE], [weight |-> F(M)], <<F(M)>>, <<F(M)>>),
        Same("l2Normalization", [layout |-> "NHWC"]), Same("normalization", [layout |-> "NHWC", normSize |-> 3, across |-> FALSE]),
        Same("permute", [mappings |-> <<0, 3, 1, 2>>]), Same("reshape", [target |-> A]),
        Same("resizeBilinear", [layout |-> "NCHW", target |-> <<2, 3>>]), Same("mean", [axis |-> {2, 3}, keepDims |-> TRUE]),
        Same("pad", [pads |-> << <<0, 1>>, <<2, 3>>, <<4, 5>>, <<6, 7>> >>]),
        Same("batchToSpaceNd", [layout |-> "NHWC", block |-> <<1, 2>>, crops |-> << <<0, 1>>, <<2, 3>> >>]),
        Same("spaceToBatchNd", [layout |-> "NCHW", block |-> <<2, 1>>, pads |-> << <<0, 1>>, <<2, 3>> >>]),
        Same("pooling2d", [layout |-> "NHWC", pool |-> <<1, 2>>, stride |-> <<2, 1>>, rounding |-> "ceiling",
                           pads |-> << <<0, 1>>, <<1, 0>> >>]),
        Same("stridedSlice", [begin |-> <<0, 1>>, end |-> <<2, 3>>, stride |-> <<1, -1>>, beginMask |-> {1}, endMask |-> {2},
                              shrinkAxisMask |-> {}]),
        ClientNet("merger", [axis |-> 0, origins |-> << <<0, 0>>, <<2, 0>> >>], NoConsts, <<F(M), F(M)>>, <<F(<<4, 2>>)>>),
        ClientNet("splitter", [origins |-> << <<0>>, <<1>> >>, sizes |-> <<<<1>>, <<1>>>>], NoConsts, <<F(V)>>, <<F(<<1>>), F(<<1>>)>>),
        ClientNet("detectionPostProcess", [detections |-> 2], [anchors |-> F(<<3, 4>>)], <<F(<<1, 3, 4>>), F(<<1, 3, 2>>)>>,
                  <<F(<<1, 2, 4>>), F(<<1, 2>>), F(<<1, 2>>), F(<<1>>)>>)}
  \cup {ClientNet("lstm", [cifg |-> cifg, peephole |-> cifg, projection |-> projection], [cell |-> F(M)],
                  <<F(M), F(M), F(M)>>, <<F(M), F(M), F(M), F(M)>>) : cifg \in BOOLEAN, projection \in BOOLEAN}

(* Layers added before what they read, in every order.                     *)
InOrder(order) ==
  LET at(k) == CHOOSE p \in 1 .. 6 : order[p] = k
      layers == <<InputLayer(1, F(M)), InputLayer(2, Info("u8", M)), Built("activation", [function |-> "ReLu"], NoConsts, <<<<1, 1>>>>, <<F(M)>>),
                  Built("reshape", [target |-> <<4>>], NoConsts, <<<<3, 1>>>>, <<F(<<4>>)>>),
                  Built("switch", NoDescriptor, NoConsts, << <<4, 1>>, <<2, 1>> >>, <<F(<<4>>), Info("u8", M)>>), OutputLayer(5, <<5, 2>>)>>
  IN [p \in 1 .. 6 |-> [layers[order[p]] EXCEPT !.from = [i \in DOMAIN @ |-> <<at(@[i][1]), @[i][2]>>]]]

ClientNets == ClientKinds \cup {InOrder(order) : order \in SetToSeqs(1 .. 6)}

----------------------------------------------------------------------------

MCModels ==
  [tf |-> TfModels, caffe |-> CaffeModels, tflite |-> LiteModels, onnx |-> OnnxModels, client |-> ClientNets]

(* Good models for each parser, with names and tensors of other ones, and  *)
(* where names are all that a call may find of the one before, with names  *)
(* no other one has.                                                       *)
MCAgain ==
  [tf |-> {TfModel([x |-> X, z |-> Plain("Relu", <<"x">>)], [x |-> V], <<"z">>),
           TfModel([p |-> X, q |-> Plain("Relu", <<"p">>)], [p |-> V], <<"q">>)},
   caffe |-> {CaffeModel(<<Data(A), Relu("a", "x", "x"), Relu("b", "x", "z")>>, <<>>, <<"z">>),
              CaffeModel(<<Lay("in", "Input", <<>>, <<"p">>, [shape |-> A], <<>>), Relu("r", "p", "q")>>, <<>>, <<"q">>)},
   tflite |-> {Lite("TANH", None, <<A>>, <<>>, <<A>>), Detection(TRUE)},
   onnx |-> {OnnxOne("Relu", None, <<Declared(A)>>, Declared(A))},
   client |-> {}]
=============================================================================
