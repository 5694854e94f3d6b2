--------------------------- MODULE NetworkImport ---------------------------
(* A parser object from one call of CreateNetwork to the next: the sort of *)
(* the graph of a TensorFlow or Caffe model, the loop over its nodes, what *)
(* an exception leaves behind, be it caught by the parser or not; and what *)
(* becomes of the network when it is serialized and read again.  A network *)
(* the client built itself is only serialized.                             *)
EXTENDS ImportedNetwork

CONSTANTS Models,  \* by format: the models for a first call
          Again,   \* by format: those for a further call of the same parser
          MaxUses  \* calls of one parser

Tf == INSTANCE TfParser
Caffe == INSTANCE CaffeParser
TfLite == INSTANCE TfLiteParser
Onnx == INSTANCE OnnxParser
Ser == INSTANCE Serializer
Des == INSTANCE Deserializer

Formats == {"tf", "caffe", "tflite", "onnx", "client"}
Sorting == {"tf", "caffe"}  \* the formats whose nodes come in any order

VARIABLES
  format, model,  \* the parser, and the model of its call
  stage,          \* how far the call has come
  uses,           \* calls before this one
  st,             \* the parser's own state
  stack, sorted,  \* the sort of the nodes: those being visited, those done
  next,           \* the node, layer or output that is next in turn
  serial, copy    \* the serializer's visitor, the deserializer's state

vars == <<format, model, stage, uses, st, stack, sorted, next, serial, copy>>

NewParser(f) ==
  CASE f = "tf" -> Tf!New0 [] f = "caffe" -> Caffe!New0 [] f = "tflite" -> TfLite!New0
    [] f = "onnx" -> Onnx!New0 [] OTHER -> [net |-> <<>>, thrown |-> FALSE, escaped |-> FALSE]

Init ==
  /\ format \in Formats /\ model \in Models[format]
  /\ stage = "called" /\ uses = 0 /\ st = NewParser(format)
  /\ stack = <<>> /\ sorted = <<>> /\ next = 1
  /\ serial = Ser!NewVisitor /\ copy = Des!New0

Cleanup(s) ==
  CASE format = "tf" -> Tf!Cleanup(s) [] format = "caffe" -> Caffe!Cleanup(s)
    [] format = "onnx" -> [Onnx!New0 EXCEPT !.net = s.net] [] OTHER -> s

(* A step of the parser that ends in s: an exception ends the call.  Only a*)
(* ParseException is caught, to clean up.                                  *)
Continue(s, then) ==
  /\ stage' = IF s.thrown THEN "thrown" ELSE then
  /\ st' = IF s.thrown /\ ~s.escaped THEN [Cleanup(s) EXCEPT !.thrown = TRUE] ELSE s

CreateNetwork ==
  LET started ==
        CASE format = "tf" -> Tf!LoadGraphDef(model, st)
          [] format = "caffe" -> Caffe!LoadNetParam(model, st)
          [] format = "tflite" -> TfLite!ResetParser(st)
          [] format = "onnx" -> Onnx!SetupLayers(model)
          [] OTHER -> [st EXCEPT !.net = model]
  IN /\ stage = "called"
     /\ Continue(started, IF format \in Sorting THEN "sorting" ELSE IF format = "client" THEN "returned" ELSE "loading")
     /\ UNCHANGED <<format, model, uses, stack, sorted, next, serial, copy>>

----------------------------------------------------------------------------
(* GraphTopologicalSort, of names or of layers' numbers: each target that  *)
(* has not been visited, depth first.                                      *)

Target(requested) == IF format = "tf" THEN requested ELSE Caffe!ByTop(Caffe!Layers(model), requested)
Targets == [i \in DOMAIN model.requested |-> Target(model.requested[i])]

InputsOf(node) ==
  IF format = "tf" THEN Tf!GetTfInputNodes(model, node) ELSE Caffe!GetInputs(Caffe!Layers(model), node)

InputsAreKnown(node) ==
  IF format = "tf" THEN Tf!RefusedInputs(model, node) = <<>>
  ELSE \A b \in ToSet(Caffe!Layers(model)[node].bottoms) : Caffe!HasTop(Caffe!Layers(model), b)

PendingFirst(nodes) == {nodes[i] : i \in DOMAIN nodes \cap {1}} \ ToSet(sorted)  \* mutant

(* Of the targets, or the inputs of a node, those that are not done, and   *)
(* the first of them.                                                      *)
Pending(nodes) == ToSet(nodes) \ ToSet(sorted)
FirstPending(nodes) ==
  {n \in Pending(nodes) : \E i \in DOMAIN nodes : nodes[i] = n /\ \A j \in 1 .. i - 1 : nodes[j] \notin Pending(nodes)}

GetNextChild(node) == FirstPending(InputsOf(node))

Visiting == stage = "sorting" /\ stack # <<>>

StartTarget ==
  /\ stage = "sorting" /\ stack = <<>>
  /\ \E target \in FirstPending(Targets) : stack' = <<target>>
  /\ UNCHANGED <<format, model, stage, uses, st, sorted, next, serial, copy>>

VisitChild ==
  /\ Visiting /\ InputsAreKnown(Last(stack))
  /\ \E child \in GetNextChild(Last(stack)) \ ToSet(stack) : stack' = Append(stack, child)
  /\ UNCHANGED <<format, model, stage, uses, st, sorted, next, serial, copy>>

(* An input nobody has, or one that is being visited: a ParseException.  A *)
(* number of an output that cannot be read is refused by another exception.*)
RefuseGraph ==
  /\ Visiting
  /\ InputsAreKnown(Last(stack)) => GetNextChild(Last(stack)) \cap ToSet(stack) # {}
  /\ Continue(IF format = "tf" /\ Tf!RefusalEscapes(model, Last(stack)) THEN Uncaught(st) ELSE Failed(st), "thrown")
  /\ UNCHANGED <<format, model, uses, stack, sorted, next, serial, copy>>

FinishNodeUnmarked ==  \* mutant
  /\ Visiting /\ InputsAreKnown(Last(stack)) /\ Pending(InputsOf(Last(stack))) = {}
  /\ stack' = Front(stack)
  /\ UNCHANGED <<format, model, stage, uses, st, sorted, next, serial, copy>>

FinishNode ==
  /\ Visiting /\ InputsAreKnown(Last(stack)) /\ Pending(InputsOf(Last(stack))) = {}
  /\ stack' = Front(stack) /\ sorted' = Append(sorted, Last(stack))
  /\ UNCHANGED <<format, model, stage, uses, st, next, serial, copy>>

EndSort ==
  /\ stage = "sorting" /\ stack = <<>> /\ Pending(Targets) = {}
  /\ stage' = "loading"
  /\ UNCHANGED <<format, model, uses, st, stack, sorted, next, serial, copy>>

----------------------------------------------------------------------------
(* The loop over the nodes.                                                *)

Count ==
  CASE format = "tf" -> Len(sorted)
    [] format = "caffe" -> Len(sorted) + Len(model.requested)
    [] OTHER -> Len(model.ops)

InTurn(f) == stage = "loading" /\ format = f /\ next <= Count

Loaded(s) ==
  /\ Continue(s, "loading")
  /\ next' = next + 1
  /\ UNCHANGED <<format, model, uses, stack, sorted, serial, copy>>

LoadTfNode == InTurn("tf") /\ Loaded(Tf!LoadNodeDef(model, st, sorted[next]))

LoadCaffeLayer ==
  /\ InTurn("caffe") /\ next <= Len(sorted)
  /\ LET l == Caffe!Layers(model)[sorted[next]]
     IN Loaded(IF l.type \in Caffe!KnownTypes THEN Caffe!ParseLayer(model, st, l) ELSE Failed(st))

AddCaffeOutput ==
  /\ InTurn("caffe") /\ next > Len(sorted)
  /\ Loaded(Caffe!AddOutput(model, st, model.requested[next - Len(sorted)]))

LoadTfLiteOperator == InTurn("tflite") /\ Loaded(TfLite!ParseOperator(model, st, next))

LoadOnnxNode == InTurn("onnx") /\ Loaded(Onnx!LoadNode(model, st, next))

(* What a parser still adds and connects after its loop.                   *)
Finished ==
  LET set == TfLite!SetupLayers(model, st)
  IN CASE format = "tflite" -> IF set.thrown THEN set ELSE TfLite!Connect(set)
       [] format = "onnx" -> Onnx!Connect(st)
       [] OTHER -> st

FinishLoading ==
  /\ stage = "loading" /\ next > Count
  /\ Continue(Finished, "loaded")
  /\ UNCHANGED <<format, model, uses, stack, sorted, next, serial, copy>>

Return ==
  /\ stage = "loaded"
  /\ st' = Cleanup(st) /\ stage' = "returned"
  /\ UNCHANGED <<format, model, uses, stack, sorted, next, serial, copy>>
----------------------------------------------------------------------------
(* The network is written, and read into another one.  A network with an   *)
(* input that is not connected cannot be written.                          *)

AllConnected(net) == \A k \in DOMAIN net : \A s \in ToSet(net[k].from) : IsSlot(net, s)

Written == [layers |-> serial.layers, inputIds |-> serial.inputIds, outputIds |-> serial.outputIds]

StartSerialize ==
  /\ stage = "returned" /\ AllConnected(st.net)
  /\ stage' = "writing" /\ next' = 1
  /\ UNCHANGED <<format, model, uses, st, stack, sorted, serial, copy>>

VisitLayer ==
  /\ stage = "writing" /\ next <= Len(st.net)
  /\ serial' = Ser!VisitLayer(st.net, serial, Ser!VisitOrder(st.net)[next])
  /\ next' = next + 1
  /\ UNCHANGED <<format, model, stage, uses, st, stack, sorted, copy>>

StartDeserialize ==
  /\ stage = "writing" /\ next > Len(st.net)
  /\ stage' = "reading" /\ next' = 1 /\ copy' = Des!ResetParser(copy)
  /\ UNCHANGED <<format, model, uses, st, stack, sorted, serial>>

ReadLayer ==
  /\ stage = "reading" /\ next <= Len(serial.layers) /\ ~copy.thrown
  /\ copy' = Des!ParseLayer(Written, copy, next)
  /\ next' = next + 1
  /\ UNCHANGED <<format, model, stage, uses, st, stack, sorted, serial>>

FinishDeserialize ==
  /\ stage = "reading" /\ (next > Len(serial.layers) \/ copy.thrown)
  /\ LET all == Des!SetupOutputLayers(Written, Des!SetupInputLayers(Written, copy))
     IN copy' = IF copy.thrown \/ all.thrown THEN [copy EXCEPT !.thrown = TRUE] ELSE Des!Connect(all)
  /\ stage' = "done"
  /\ UNCHANGED <<format, model, uses, st, stack, sorted, next, serial>>

Ended == stage \in {"thrown", "done"} \/ (stage = "returned" /\ ~AllConnected(st.net))

(* The client calls the parser once more, with a new serializer and        *)
(* deserializer for what it gets.  After an exception that escaped the ONNX*)
(* parser has slots of a network that is gone, and the Caffe parser too for*)
(* the tops of that model: the client uses it for other tops only.         *)
CallAgain ==
  /\ Ended /\ uses + 1 < MaxUses /\ format # "client"
  /\ model' \in Again[format]
  /\ st.escaped => (format # "onnx" /\ (format = "caffe" => Caffe!ReadsOwnTops(model')))
  /\ uses' = uses + 1 /\ stage' = "called"
  /\ st' = [st EXCEPT !.thrown = FALSE]
  /\ stack' = <<>> /\ sorted' = <<>> /\ next' = 1 /\ serial' = Ser!NewVisitor /\ copy' = Des!New0
  /\ UNCHANGED format

----------------------------------------------------------------------------

Work ==
  \/ CreateNetwork \/ StartTarget \/ VisitChild \/ RefuseGraph \/ FinishNode \/ EndSort
  \/ LoadTfNode \/ LoadCaffeLayer \/ AddCaffeOutput \/ LoadTfLiteOperator \/ LoadOnnxNode
  \/ FinishLoading \/ Return
  \/ StartSerialize \/ VisitLayer \/ StartDeserialize \/ ReadLayer \/ FinishDeserialize

Rest == Ended /\ UNCHANGED vars

Next == Work \/ CallAgain \/ Rest

Spec == Init /\ [][Next]_vars

----------------------------------------------------------------------------

IsLayer(l) ==
  /\ DOMAIN l = {"kind", "d", "consts", "from", "outs", "node"}
  /\ \A i \in DOMAIN l.from : l.from[i] \in Int \X Int
  /\ \A o \in DOMAIN l.outs : l.outs[o].type \in DataTypes

(* The sort lists a node once and behind everything it reads, so that the  *)
(* parsing functions find what they ask for (GraphTopologicalSort.hpp), and*)
(* when it ends every requested output is listed.                          *)
SortedInOrder ==
  /\ format \in Sorting => \A p \in DOMAIN sorted : ToSet(InputsOf(sorted[p])) \subseteq ToSet(SubSeq(sorted, 1, p - 1))
  /\ Cardinality(ToSet(sorted)) = Len(sorted)
  /\ (format \in Sorting /\ stage \in {"loading", "loaded"}) => Pending(Targets) = {}

(* The layers whose inputs all come, step by step, from layers without any.*)
Reached(net) ==
  FoldLeft(LAMBDA found, k : {j \in DOMAIN net : \A s \in ToSet(net[j].from) : s[1] \in found}, {},
           [k \in 1 .. Len(net) |-> k])

(* An output of an ONNX model that no node produces, or that is a constant,*)
(* gets an output layer all the same and stays unconnected.                *)
Unproduced(net, k) ==
  format = "onnx" /\ net[k].kind = "output" /\ net[k].from[1][1] = 0

(* A call that returns has connected every input of every layer to an      *)
(* output that exists, and there is no cycle: the graph can be sorted and  *)
(* optimized.                                                              *)
NetworkConnected ==
  stage = "returned" => \A k \in DOMAIN st.net :
    \/ (k \in Reached(st.net) /\ \A s \in ToSet(st.net[k].from) : IsSlot(st.net, s))
    \/ Unproduced(st.net, k)

(* What the parsers get wrong: a TensorFlow operand of two or more         *)
(* dimensions is not extended to more, or by its first one only; the output*)
(* of a difference, product or quotient is as large as one operand; a mean *)
(* that drops dimensions gives a vector; a Caffe pooling keeps a window    *)
(* that starts behind the input.                                           *)
MisjudgedInfo(l) ==
  CASE format = "tf" /\ l.kind = "mean" -> ~l.d.keepDims
    [] format = "tf" /\ l.kind = "reshape" -> Rank(l.ins[1]) > 1
    [] format = "tf" /\ Len(l.ins) = 2 ->
         Rank(l.ins[1]) # Rank(l.ins[2])
           \/ (l.kind \in {"subtraction", "multiplication", "division"} /\ l.ins[1] # l.ins[2])
    [] format = "caffe" /\ l.kind = "pooling2d" ->
         \E dim \in 1 .. 2 : (l.outs[1].shape[2 + dim] - 1) * l.d.stride[dim] >= l.ins[1].shape[2 + dim] + 2 * l.d.pads[dim][1]
    [] OTHER -> FALSE

(* The infos the parser computes for the outputs of a layer are those the  *)
(* layer infers from its inputs, and a reshape loses no element: Optimize  *)
(* or the load of the network refuses it otherwise.  A TensorFlow Lite     *)
(* model brings most of its infos with it.                                 *)
ImportedShapesAgree ==
  stage = "loaded" => \A k \in {k \in DOMAIN st.net : st.net[k].kind \notin {"input", "output"}} :
    LET l == Described(st.net, k)
    IN \/ format = "tflite" /\ l.kind \notin {"reshape", "splitter", "activation"}
       \/ /\ ValidateTensorShapesFromInputs(l)
          /\ l.kind = "reshape" => NumElements(l.ins[1]) = NumElements(l.outs[1])
       \/ MisjudgedInfo(l)

----------------------------------------------------------------------------

BoundInputs(net) == {[id |-> net[k].d.id, info |-> net[k].outs[1]] : k \in {k \in DOMAIN net : net[k].kind = "input"}}
BoundOutputs(net) ==
  {[id |-> net[k].d.id, info |-> SlotInfo(net, net[k].from[1])] : k \in {k \in DOMAIN net : net[k].kind = "output"}}

(* What the parser says the client's inputs and outputs are.               *)
InputBindings ==
  CASE format \in Sorting -> {st.inputs[name] : name \in DOMAIN st.inputs}
    [] format = "tflite" -> {TfLite!GetNetworkInputBindingInfo(model, st, i) : i \in DOMAIN model.inputs}
    [] format = "onnx" -> {Onnx!GetNetworkInputBindingInfo(model, i) :
                             i \in {i \in DOMAIN model.inputs : model.consts[model.inputs[i]] = Onnx!NoConst}}
    [] OTHER -> BoundInputs(st.net)

OutputBindings ==
  CASE format \in Sorting -> {st.outputs[name] : name \in DOMAIN st.outputs}
    [] format = "tflite" -> {TfLite!GetNetworkOutputBindingInfo(model, st, i) : i \in DOMAIN model.outputs}
    [] format = "onnx" -> {Onnx!GetNetworkOutputBindingInfo(model, i) : i \in DOMAIN model.outputs}
    [] OTHER -> BoundOutputs(st.net)

(* The shapes a detection has put in place of the model's stay in place.   *)
StaleShapes == format = "tflite" /\ st.overridden # <<>> /\ \A k \in DOMAIN model.ops : model.ops[k].op # "CUSTOM"

(* A second output of a layer has the info of the first.                   *)
ReadsLaterOutput == \E k \in DOMAIN copy.net : copy.net[k].kind = "output" /\ copy.net[k].from[1][2] > 1

(* The bindings a parser and the deserializer give are those of the        *)
(* network: the tensors a client makes from them are what LoadedNetwork's  *)
(* EnqueueWorkload checks them against.                                    *)
BindingsDescribeNetwork ==
  /\ (stage = "returned" /\ ~Ended) => (InputBindings = BoundInputs(st.net) /\ (OutputBindings = BoundOutputs(st.net) \/ StaleShapes))
  /\ (stage = "done" /\ ~copy.thrown) =>
                       /\ ToSet(copy.inputs) = BoundInputs(copy.net)
                       /\ ToSet(copy.outputs) = BoundOutputs(copy.net) \/ ReadsLaterOutput

(* A call of the TensorFlow, Caffe or ONNX parser that returns, or throws  *)
(* a ParseException, leaves nothing in it that the next one would find.    *)
(* ("Cleanup, in case we reuse this parser.", TfParser.cpp:3450)  An       *)
(* exception of another class escapes their handlers and leaves all of it; *)
(* the TensorFlow Lite parser cleans up when the next call starts.         *)
NothingLeftOver ==
  (stage \in {"returned", "thrown"} /\ ~st.escaped) =>
    CASE format = "tf" -> st.order = <<>>
      [] format = "caffe" -> st.slots = Caffe!New0.slots
      [] format = "onnx" -> [st EXCEPT !.net = <<>>, !.thrown = FALSE] = Onnx!New0
      [] OTHER -> TRUE

(* What the format or the deserializer does not keep.                      *)
AsRead(l) ==
  CASE l.kind = "depthwiseConvolution2d" -> [l.d EXCEPT !.dilation = <<1, 1>>]
    [] l.kind = "activation" /\ l.d.function = "SoftReLu" -> [function |-> "Sigmoid"]
    [] OTHER -> l.d

(* The serializer does not know the type QuantisedSymm16: infos get another*)
(* one, and constants cannot be read again.                                *)
InfosAsRead(l) == [o \in DOMAIN l.outs |-> IF l.outs[o].type = "s16" THEN Info("f16", l.outs[o].shape) ELSE l.outs[o]]
LosesConstant(l) == \E c \in DOMAIN l.consts : l.consts[c].type = "s16"

(* A network that is written and read again is the same network: its       *)
(* layers, whatever their order was, with their descriptors, constants and *)
(* infos, and their connections.  The reader takes the type of a reshape   *)
(* from the layer at the position of an id.                                *)
RoundTrip ==
  stage = "done" =>
    LET of(c) == serial.ids[copy.net[c].node + 1]
        from(c) == [i \in DOMAIN copy.net[c].from |-> <<of(copy.net[c].from[i][1]), copy.net[c].from[i][2]>>]
        moved(c) == /\ copy.net[c].kind = "reshape"
                    /\ LET id == serial.layers[SelectInSeq(serial.layers, LAMBDA l : l.id = copy.net[c].node)].inputs[1][1]
                       IN serial.layers[id + 1].id # id /\ [i \in DOMAIN copy.net[c].outs |-> copy.net[c].outs[i].shape]
                                                             = [i \in DOMAIN copy.net[c].outs |-> st.net[of(c)].outs[i].shape]
    IN IF \E k \in DOMAIN st.net : LosesConstant(st.net[k]) THEN copy.thrown
       ELSE /\ ~copy.thrown /\ Len(copy.net) = Len(st.net)
            /\ {of(c) : c \in DOMAIN copy.net} = DOMAIN st.net
            /\ \A c \in DOMAIN copy.net :
                 LET l == st.net[of(c)]
                 IN /\ <<copy.net[c].kind, copy.net[c].consts, from(c)>> = <<l.kind, l.consts, l.from>>
                    /\ copy.net[c].d = AsRead(l)
                    /\ copy.net[c].outs = InfosAsRead(l) \/ moved(c)

(* A call never turns in circles: with every step of it another child is   *)
(* visited, a node done, or a layer parsed, written or read, and there are *)
(* only so many (SortedInOrder); nor does it get stuck, for nothing but    *)
(* Rest and CallAgain can happen once it has ended.  So a call returns or  *)
(* throws, whatever the cycles of the model.                               *)
StageRank ==
  [called |-> 1, sorting |-> 2, loading |-> 3, loaded |-> 4, returned |-> 5, writing |-> 6, reading |-> 7, done |-> 8]

Advances ==
  \/ stage' = "thrown"
  \/ StageRank[stage'] > StageRank[stage]
  \/ stage' = stage /\ next' + Len(stack') + 2 * Len(sorted') > next + Len(stack) + 2 * Len(sorted)

EveryStepAdvances == [][uses' = uses => Advances]_vars
=============================================================================
