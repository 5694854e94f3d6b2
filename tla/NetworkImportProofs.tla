-------------------------- MODULE NetworkImportProofs --------------------------
(* The sort of a model's graph lists what the parsing functions need before*)
(* they need it, and no step of a call goes back: for all models, of any   *)
(* size and with any cycles, and for any number of calls.                  *)
EXTENDS NetworkImport, FiniteSetTheorems, SequenceTheorems, TLAPS

(* The part of the state that is the sort of the nodes, see GraphTopological*)
(* Sort.hpp: nodeStack, outSorted, and the graph they are about.           *)
sortVars == <<format, model, stack, sorted>>

OneToOne(s) == \A i \in DOMAIN s, j \in DOMAIN s : s[i] = s[j] => i = j

(* A node is being visited, or done, or neither, and that once.            *)
VisitedOnce ==
  /\ stack \in Seq(ToSet(stack)) /\ sorted \in Seq(ToSet(sorted))
  /\ OneToOne(stack) /\ OneToOne(sorted)
  /\ ToSet(stack) \cap ToSet(sorted) = {}

InputsDone ==
  format \in Sorting =>
    \A p \in DOMAIN sorted : \A n \in ToSet(InputsOf(sorted[p])) : \E q \in 1 .. p - 1 : sorted[q] = n

TargetsDone == (format \in Sorting /\ stage \in {"loading", "loaded"}) => Pending(Targets) = {}

SortInv == VisitedOnce /\ InputsDone /\ TargetsDone

----------------------------------------------------------------------------
(* Lemmas about sequences.                                                 *)

LEMMA OverItsElements ==
  ASSUME NEW S, NEW s \in Seq(S)
  PROVE  s \in Seq(ToSet(s)) /\ ToSet(s) \subseteq S
BY DEF ToSet

LEMMA CountOfOneToOne ==
  ASSUME NEW S, NEW s \in Seq(S), OneToOne(s)
  PROVE  Cardinality(ToSet(s)) = Len(s)
<1>1. s \in Bijection(1 .. Len(s), ToSet(s))
  BY DEF OneToOne, ToSet, Bijection, Injection, Surjection, IsInjective
<1>2. ExistsBijection(1 .. Len(s), ToSet(s))
  BY <1>1 DEF ExistsBijection
<1>3. Len(s) \in Nat
  OBVIOUS
<1>4. IsFiniteSet(1 .. Len(s)) /\ Cardinality(1 .. Len(s)) = Len(s)
  BY <1>3, FS_Interval
<1> QED
  BY <1>2, <1>4, FS_Bijection

LEMMA AppendOneToOne ==
  ASSUME NEW S, NEW s \in Seq(S), NEW x, x \notin ToSet(s), OneToOne(s)
  PROVE  /\ Append(s, x) \in Seq(ToSet(Append(s, x)))
         /\ OneToOne(Append(s, x))
         /\ ToSet(Append(s, x)) = ToSet(s) \cup {x}
<1>1. s \in Seq(S \cup {x}) /\ Append(s, x) \in Seq(S \cup {x})
  OBVIOUS
<1>2. /\ Len(Append(s, x)) = Len(s) + 1
      /\ \A i \in 1 .. Len(s) : Append(s, x)[i] = s[i]
      /\ Append(s, x)[Len(s) + 1] = x
  BY <1>1
<1> QED
  BY <1>1, <1>2, OverItsElements DEF OneToOne, ToSet

LEMMA FrontOneToOne ==
  ASSUME NEW S, NEW s \in Seq(S), s # <<>>, OneToOne(s)
  PROVE  /\ Front(s) \in Seq(ToSet(Front(s)))
         /\ OneToOne(Front(s))
         /\ ToSet(Front(s)) = ToSet(s) \ {Last(s)}
         /\ Len(Front(s)) = Len(s) - 1
<1> DEFINE n == Len(s) - 1
<1>1. Len(s) \in Nat /\ n \in Nat /\ DOMAIN s = 1 .. n + 1 /\ \A i \in 1 .. n + 1 : s[i] \in S
  OBVIOUS
<1>2. Front(s) = SubSeq(s, 1, n)
  BY DEF Front
<1> HIDE DEF n
<1>3. n \in Int /\ 1 \in Int /\ \A i \in 1 .. n : s[i] \in S
  BY <1>1
<1>4. /\ SubSeq(s, 1, n) \in Seq(S)
      /\ Len(SubSeq(s, 1, n)) = IF 1 <= n THEN n - 1 + 1 ELSE 0
      /\ \A i \in 1 .. n - 1 + 1 : SubSeq(s, 1, n)[i] = s[1 + i - 1]
  BY <1>3, SubSeqProperties
<1>5. Front(s) \in Seq(S) /\ Len(Front(s)) = n /\ DOMAIN Front(s) = 1 .. n /\ \A i \in 1 .. n : Front(s)[i] = s[i]
  BY <1>1, <1>2, <1>4
<1>6. ToSet(Front(s)) = {s[i] : i \in 1 .. n} /\ ToSet(s) = {s[i] : i \in 1 .. n + 1}
  BY <1>1, <1>5 DEF ToSet
<1>7. Last(s) = s[n + 1]
  BY <1>1 DEF Last, n
<1>8. ToSet(Front(s)) = ToSet(s) \ {Last(s)}
  BY <1>1, <1>6, <1>7 DEF OneToOne
<1>9. Front(s) \in Seq(ToSet(Front(s)))
  BY <1>5, OverItsElements
<1> QED
  BY <1>1, <1>5, <1>8, <1>9 DEF OneToOne, n

LEMMA SubSeqElements ==
  ASSUME NEW S, NEW s \in Seq(S), NEW p \in 1 .. Len(s)
  PROVE  ToSet(SubSeq(s, 1, p - 1)) = {s[q] : q \in 1 .. p - 1}
BY DEF ToSet

----------------------------------------------------------------------------
(* The sort.                                                               *)

LEMMA SortInit == Init => SortInv
<1> SUFFICES ASSUME Init PROVE SortInv
  OBVIOUS
<1>1. stack = <<>> /\ sorted = <<>> /\ stage = "called"
  BY DEF Init
<1> QED
  BY <1>1 DEF SortInv, VisitedOnce, InputsDone, TargetsDone, OneToOne, ToSet

(* A step that leaves the sort alone and does not end it.                  *)
LEMMA SortKept ==
  ASSUME SortInv, UNCHANGED sortVars,
         (format \in Sorting /\ stage' \in {"loading", "loaded"}) => stage \in {"loading", "loaded"}
  PROVE  SortInv'
<1>1. VisitedOnce'
  BY DEF SortInv, VisitedOnce, sortVars
<1>2. InputsDone'
  BY DEF SortInv, InputsDone, InputsOf, sortVars
<1>3. TargetsDone'
  BY DEF SortInv, TargetsDone, Pending, Targets, Target, sortVars
<1> QED
  BY <1>1, <1>2, <1>3 DEF SortInv

LEMMA SortStartTarget ==
  ASSUME SortInv, StartTarget
  PROVE  SortInv'
<1>1. PICK target \in FirstPending(Targets) : stack' = <<target>>
  BY DEF StartTarget
<1>2. target \notin ToSet(sorted)
  BY <1>1 DEF FirstPending, Pending
<1>3. format' = format /\ model' = model /\ sorted' = sorted /\ stage' = "sorting"
  BY DEF StartTarget
<1>4. VisitedOnce'
  BY <1>1, <1>2, <1>3 DEF SortInv, VisitedOnce, OneToOne, ToSet
<1>5. InputsDone'
  BY <1>3 DEF SortInv, InputsDone, InputsOf
<1>6. TargetsDone'
  BY <1>3 DEF TargetsDone
<1> QED
  BY <1>4, <1>5, <1>6 DEF SortInv

LEMMA SortVisitChild ==
  ASSUME SortInv, VisitChild
  PROVE  SortInv'
<1>1. PICK child \in GetNextChild(Last(stack)) \ ToSet(stack) : stack' = Append(stack, child)
  BY DEF VisitChild
<1>2. child \notin ToSet(sorted)
  BY <1>1 DEF GetNextChild, FirstPending, Pending
<1>3. format' = format /\ model' = model /\ sorted' = sorted /\ stage' = "sorting"
  BY DEF VisitChild, Visiting
<1>4. VisitedOnce'
  BY <1>1, <1>2, <1>3, AppendOneToOne DEF SortInv, VisitedOnce
<1>5. InputsDone'
  BY <1>3 DEF SortInv, InputsDone, InputsOf
<1>6. TargetsDone'
  BY <1>3 DEF TargetsDone
<1> QED
  BY <1>4, <1>5, <1>6 DEF SortInv

LEMMA SortFinishNode ==
  ASSUME SortInv, FinishNode
  PROVE  SortInv'
<1> DEFINE node == Last(stack)
<1>1. /\ stack # <<>> /\ ToSet(InputsOf(node)) \subseteq ToSet(sorted)
      /\ stack' = Front(stack) /\ sorted' = Append(sorted, node)
      /\ format' = format /\ model' = model /\ stage' = "sorting"
  BY DEF FinishNode, Visiting, Pending
<1>2. /\ stack \in Seq(ToSet(stack)) /\ sorted \in Seq(ToSet(sorted))
      /\ OneToOne(stack) /\ OneToOne(sorted)
      /\ ToSet(stack) \cap ToSet(sorted) = {}
  BY DEF SortInv, VisitedOnce
<1>3. node \in ToSet(stack)
  BY <1>1, <1>2 DEF ToSet, Last
<1>4. VisitedOnce'
  BY <1>1, <1>2, <1>3, AppendOneToOne, FrontOneToOne DEF VisitedOnce
<1>5. InputsDone'
  <2> SUFFICES ASSUME format \in Sorting, NEW p \in DOMAIN sorted', NEW n \in ToSet(InputsOf(sorted'[p]))
               PROVE  \E q \in 1 .. p - 1 : sorted'[q] = n
    BY <1>1 DEF InputsDone, InputsOf
  <2>1. /\ sorted' \in Seq(ToSet(sorted) \cup {node}) /\ Len(sorted') = Len(sorted) + 1
        /\ \A q \in 1 .. Len(sorted) : sorted'[q] = sorted[q]
        /\ sorted'[Len(sorted) + 1] = node
    BY <1>1, <1>2
  <2>2. CASE p = Len(sorted) + 1
    <3>1. n \in ToSet(sorted)
      BY <1>1, <2>1, <2>2
    <3> QED
      BY <1>2, <2>1, <2>2, <3>1 DEF ToSet
  <2>3. CASE p \in 1 .. Len(sorted)
    <3>1. \E q \in 1 .. p - 1 : sorted[q] = n
      BY <1>2, <2>1, <2>3 DEF SortInv, InputsDone
    <3> QED
      BY <1>2, <2>1, <2>3, <3>1
  <2> QED
    BY <1>2, <2>1, <2>2, <2>3
<1>6. TargetsDone'
  BY <1>1 DEF TargetsDone
<1> QED
  BY <1>4, <1>5, <1>6 DEF SortInv

LEMMA SortEndSort ==
  ASSUME SortInv, EndSort
  PROVE  SortInv'
<1>1. UNCHANGED sortVars /\ Pending(Targets) = {}
  BY DEF EndSort, sortVars
<1>2. VisitedOnce'
  BY <1>1 DEF SortInv, VisitedOnce, sortVars
<1>3. InputsDone'
  BY <1>1 DEF SortInv, InputsDone, InputsOf, sortVars
<1>4. TargetsDone'
  BY <1>1 DEF TargetsDone, Pending, Targets, Target, sortVars
<1> QED
  BY <1>2, <1>3, <1>4 DEF SortInv

LEMMA SortCallAgain ==
  ASSUME SortInv, CallAgain
  PROVE  SortInv'
<1>1. stack' = <<>> /\ sorted' = <<>> /\ stage' = "called"
  BY DEF CallAgain
<1> QED
  BY <1>1 DEF SortInv, VisitedOnce, InputsDone, TargetsDone, OneToOne, ToSet

LEMMA SortStep ==
  ASSUME SortInv, [Next]_vars
  PROVE  SortInv'
<1>1. CASE CreateNetwork
  BY <1>1, SortKept DEF CreateNetwork, Continue, sortVars
<1>2. CASE StartTarget
  BY <1>2, SortStartTarget
<1>3. CASE VisitChild
  BY <1>3, SortVisitChild
<1>4. CASE RefuseGraph
  BY <1>4, SortKept DEF RefuseGraph, Continue, sortVars
<1>5. CASE FinishNode
  BY <1>5, SortFinishNode
<1>6. CASE EndSort
  BY <1>6, SortEndSort
<1>7. ASSUME NEW s, stage = "loading", Loaded(s)
      PROVE  SortInv'
  BY <1>7, SortKept DEF Loaded, Continue, sortVars
<1>8. CASE LoadTfNode \/ LoadCaffeLayer \/ AddCaffeOutput \/ LoadTfLiteOperator \/ LoadOnnxNode
  BY <1>7, <1>8 DEF LoadTfNode, LoadCaffeLayer, AddCaffeOutput, LoadTfLiteOperator, LoadOnnxNode, InTurn
<1>9. CASE FinishLoading
  BY <1>9, SortKept DEF FinishLoading, Continue, sortVars
<1>10. CASE Return \/ StartSerialize \/ VisitLayer \/ StartDeserialize \/ ReadLayer \/ FinishDeserialize
  BY <1>10, SortKept DEF Return, StartSerialize, VisitLayer, StartDeserialize, ReadLayer, FinishDeserialize, sortVars
<1>11. CASE CallAgain
  BY <1>11, SortCallAgain
<1>12. CASE UNCHANGED vars
  BY <1>12, SortKept DEF vars, sortVars
<1> QED
  BY <1>1, <1>2, <1>3, <1>4, <1>5, <1>6, <1>8, <1>9, <1>10, <1>11, <1>12 DEF Next, Work, Rest

LEMMA SortInvImplies == SortInv => SortedInOrder
<1> SUFFICES ASSUME SortInv PROVE SortedInOrder
  OBVIOUS
<1>1. sorted \in Seq(ToSet(sorted)) /\ OneToOne(sorted)
  BY DEF SortInv, VisitedOnce
<1>2. ASSUME format \in Sorting, NEW p \in DOMAIN sorted
      PROVE  ToSet(InputsOf(sorted[p])) \subseteq ToSet(SubSeq(sorted, 1, p - 1))
  BY <1>1, <1>2, SubSeqElements DEF SortInv, InputsDone
<1>3. Cardinality(ToSet(sorted)) = Len(sorted)
  BY <1>1, CountOfOneToOne
<1> QED
  BY <1>2, <1>3 DEF SortInv, TargetsDone, SortedInOrder

(* Whatever model is parsed, the sort lists a node once and behind all that*)
(* it reads, and ends when every requested output is listed                *)
(* (GraphTopologicalSort.hpp).                                             *)
THEOREM SortIsInOrder == Spec => []SortedInOrder
<1>1. Init => SortInv
  BY SortInit
<1>2. SortInv /\ [Next]_vars => SortInv'
  BY SortStep
<1> QED
  BY <1>1, <1>2, SortInvImplies, PTL DEF Spec

----------------------------------------------------------------------------
(* The progress of a call.                                                 *)

Counting == next \in Nat /\ uses \in Nat

LEMMA CountingKept == Counting /\ [Next]_vars => Counting'
<1> SUFFICES ASSUME Counting, [Next]_vars PROVE Counting'
  OBVIOUS
<1>1. CASE CreateNetwork \/ StartTarget \/ VisitChild \/ RefuseGraph \/ FinishNode \/ EndSort
  BY <1>1 DEF Counting, CreateNetwork, StartTarget, VisitChild, RefuseGraph, FinishNode, EndSort
<1>2. ASSUME NEW s, Loaded(s)
      PROVE  Counting'
  BY <1>2 DEF Counting, Loaded
<1>3. CASE LoadTfNode \/ LoadCaffeLayer \/ AddCaffeOutput \/ LoadTfLiteOperator \/ LoadOnnxNode
  BY <1>2, <1>3 DEF LoadTfNode, LoadCaffeLayer, AddCaffeOutput, LoadTfLiteOperator, LoadOnnxNode
<1>4. CASE FinishLoading
  BY <1>4 DEF Counting, FinishLoading
<1>5. CASE Return \/ StartSerialize
  BY <1>5 DEF Counting, Return, StartSerialize
<1>6. CASE StartDeserialize
  BY <1>6 DEF Counting, StartDeserialize
<1>7. CASE VisitLayer
  BY <1>7 DEF Counting, VisitLayer
<1>8. CASE ReadLayer \/ FinishDeserialize \/ CallAgain
  BY <1>8 DEF Counting, ReadLayer, FinishDeserialize, CallAgain
<1>9. CASE UNCHANGED vars
  BY <1>9 DEF Counting, vars
<1> QED
  BY <1>1, <1>3, <1>4, <1>5, <1>6, <1>7, <1>8, <1>9 DEF Next, Work, Rest

(* The sort: a node more is being visited, or done.                        *)
LEMMA SortAdvances ==
  ASSUME SortInv, Counting, StartTarget \/ VisitChild \/ FinishNode
  PROVE  Advances
<1>1. /\ stack \in Seq(ToSet(stack)) /\ sorted \in Seq(ToSet(sorted)) /\ OneToOne(stack)
      /\ next \in Nat /\ Len(stack) \in Nat /\ Len(sorted) \in Nat
  BY DEF SortInv, VisitedOnce, Counting
<1>2. stage' = stage /\ next' = next
  BY DEF StartTarget, VisitChild, FinishNode
<1>3. Len(stack') + 2 * Len(sorted') > Len(stack) + 2 * Len(sorted)
      /\ Len(stack') \in Nat /\ Len(sorted') \in Nat
  <2>1. CASE StartTarget
    <3>1. \E target : stack = <<>> /\ stack' = <<target>> /\ sorted' = sorted
      BY <2>1 DEF StartTarget
    <3> QED
      BY <1>1, <3>1
  <2>2. CASE VisitChild
    <3>1. PICK child : stack' = Append(stack, child) /\ sorted' = sorted
      BY <2>2 DEF VisitChild
    <3>2. stack \in Seq(ToSet(stack) \cup {child})
      BY <1>1
    <3> QED
      BY <1>1, <3>1, <3>2
  <2>3. CASE FinishNode
    <3>1. stack # <<>> /\ stack' = Front(stack) /\ sorted' = Append(sorted, Last(stack))
      BY <2>3 DEF FinishNode, Visiting
    <3>2. Len(stack') = Len(stack) - 1 /\ Len(stack') \in Nat
      BY <1>1, <3>1, FrontOneToOne
    <3>3. sorted \in Seq(ToSet(sorted) \cup {Last(stack)})
      BY <1>1
    <3>4. Len(sorted') = Len(sorted) + 1
      BY <1>1, <3>1, <3>3
    <3> QED
      BY <1>1, <3>2, <3>4
  <2> QED
    BY <2>1, <2>2, <2>3
<1> QED
  BY <1>1, <1>2, <1>3 DEF Advances

(* The loops: the next node is parsed, the next layer written or read.     *)
LEMMA LoopAdvances ==
  ASSUME SortInv, Counting, UNCHANGED <<stack, sorted>>, stage' = stage, next' = next + 1
  PROVE  Advances
<1>1. next \in Nat /\ Len(stack) \in Nat /\ Len(sorted) \in Nat
  BY DEF SortInv, VisitedOnce, Counting
<1> QED
  BY <1>1 DEF Advances

(* The stages of a call follow each other.                                 *)
LEMMA StageAdvances ==
  ASSUME \/ CreateNetwork \/ EndSort \/ FinishLoading \/ Return
         \/ StartSerialize \/ StartDeserialize \/ FinishDeserialize
  PROVE  Advances
<1>1. CASE CreateNetwork
  <2>1. stage = "called" /\ stage' \in {"thrown", "sorting", "returned", "loading"}
    BY <1>1 DEF CreateNetwork, Continue
  <2> QED
    BY <2>1 DEF Advances, StageRank
<1>2. CASE EndSort
  BY <1>2 DEF EndSort, Advances, StageRank
<1>3. CASE FinishLoading
  <2>1. stage = "loading" /\ stage' \in {"thrown", "loaded"}
    BY <1>3 DEF FinishLoading, Continue
  <2> QED
    BY <2>1 DEF Advances, StageRank
<1>4. CASE Return
  BY <1>4 DEF Return, Advances, StageRank
<1>5. CASE StartSerialize
  BY <1>5 DEF StartSerialize, Advances, StageRank
<1>6. CASE StartDeserialize
  BY <1>6 DEF StartDeserialize, Advances, StageRank
<1>7. CASE FinishDeserialize
  BY <1>7 DEF FinishDeserialize, Advances, StageRank
<1> QED
  BY <1>1, <1>2, <1>3, <1>4, <1>5, <1>6, <1>7

LEMMA StepAdvances ==
  ASSUME SortInv, Counting, [Next]_vars
  PROVE  [uses' = uses => Advances]_vars
<1>1. CASE CreateNetwork \/ EndSort \/ FinishLoading \/ Return \/ StartSerialize \/ StartDeserialize \/ FinishDeserialize
  BY <1>1, StageAdvances
<1>2. CASE StartTarget \/ VisitChild \/ FinishNode
  BY <1>2, SortAdvances
<1>3. CASE RefuseGraph
  BY <1>3 DEF RefuseGraph, Continue, Advances
<1>4. ASSUME NEW s, stage = "loading", Loaded(s)
      PROVE  Advances
  <2>1. CASE s.thrown
    BY <1>4, <2>1 DEF Loaded, Continue, Advances
  <2>2. CASE ~s.thrown
    BY <1>4, <2>2, LoopAdvances DEF Loaded, Continue
  <2> QED
    BY <2>1, <2>2
<1>5. CASE LoadTfNode \/ LoadCaffeLayer \/ AddCaffeOutput \/ LoadTfLiteOperator \/ LoadOnnxNode
  BY <1>4, <1>5 DEF LoadTfNode, LoadCaffeLayer, AddCaffeOutput, LoadTfLiteOperator, LoadOnnxNode, InTurn
<1>6. CASE VisitLayer \/ ReadLayer
  BY <1>6, LoopAdvances DEF VisitLayer, ReadLayer
<1>7. CASE CallAgain
  BY <1>7 DEF CallAgain, Counting
<1>8. CASE UNCHANGED vars
  BY <1>8
<1> QED
  BY <1>1, <1>2, <1>3, <1>5, <1>6, <1>7, <1>8 DEF Next, Work, Rest

(* No step of a call goes back or turns in circles, so that the sort of a  *)
(* graph with cycles ends like that of any other (GraphTopologicalSort and *)
(* the loops of the parsers, the serializer and the deserializer).         *)
THEOREM CallsAdvance == Spec => EveryStepAdvances
<1>1. Init => SortInv /\ Counting
  BY SortInit DEF Init, Counting
<1>2. SortInv /\ Counting /\ [Next]_vars => SortInv' /\ Counting'
  BY SortStep, CountingKept
<1>3. SortInv /\ Counting /\ [Next]_vars => [uses' = uses => Advances]_vars
  BY StepAdvances
<1> QED
  BY <1>1, <1>2, <1>3, PTL DEF Spec, EveryStepAdvances

----------------------------------------------------------------------------
(* What a call leaves in the parser.                                       *)

(* All the parser keeps of a call is the network and what the client may   *)
(* ask for.                                                                *)
Cleaned == st = [Cleanup(st) EXCEPT !.thrown = st.thrown]

(* The formats whose parsers clean up, and the stages a call does not leave*)
(* without having cleaned up.                                              *)
CleanedUp == {"tf", "caffe", "onnx"}
Settled == {"returned", "writing", "reading", "done", "thrown"}

(* In the sort the state of the parser is the one the call began with, of  *)
(* which the flags are known.                                              *)
LeftInv ==
  /\ format \in Formats
  /\ stage = "sorting" => format \in Sorting /\ {"thrown", "escaped"} \subseteq DOMAIN st
  /\ (stage \in Settled /\ ~st.escaped /\ format \in CleanedUp) => Cleaned

(* What the parsers' own Cleanup leaves is clean.                          *)
LEMMA CleanupCleans ==
  ASSUME NEW s, format \in CleanedUp,
         st' = Cleanup(s) \/ st' = [Cleanup(s) EXCEPT !.thrown = TRUE], format' = format
  PROVE  Cleaned'
<1>1. CASE format = "tf"
  BY <1>1 DEF Cleaned, Cleanup, Tf!Cleanup, Tf!New0
<1>2. CASE format = "caffe"
  BY <1>2 DEF Cleaned, Cleanup, Caffe!Cleanup, Caffe!New0
<1>3. CASE format = "onnx"
  BY <1>3 DEF Cleaned, Cleanup, Onnx!New0
<1> QED
  BY <1>1, <1>2, <1>3 DEF CleanedUp

(* The handler: an exception that does not escape is a ParseException.     *)
LEMMA HandlerCleans ==
  ASSUME NEW s, NEW then, Continue(s, then), s.thrown, ~st'.escaped,
         format \in CleanedUp, format' = format
  PROVE  Cleaned'
<1>1. st' = [Cleanup(s) EXCEPT !.thrown = TRUE]
  BY DEF Continue
<1> QED
  BY <1>1, CleanupCleans

LEMMA LeftInit == Init => LeftInv
BY DEF Init, LeftInv, Settled

(* The flags of a parser that starts to sort are known.                    *)
LEMMA FlagsOfStart ==
  /\ {"thrown", "escaped"} \subseteq DOMAIN Tf!LoadGraphDef(model, st)
  /\ {"thrown", "escaped"} \subseteq DOMAIN Caffe!LoadNetParam(model, st)
<1>1. {"thrown", "escaped"} \subseteq DOMAIN Tf!LoadGraphDef(model, st)
  BY DEF Tf!LoadGraphDef, Tf!New0, Tf!Uncaught
<1>2. {"thrown", "escaped"} \subseteq DOMAIN Caffe!LoadNetParam(model, st)
  BY DEF Caffe!LoadNetParam, Caffe!New0, Caffe!Uncaught, Caffe!Failed
<1> QED
  BY <1>1, <1>2

LEMMA LeftCreate ==
  ASSUME LeftInv, CreateNetwork
  PROVE  LeftInv'
<1> DEFINE then == IF format \in Sorting THEN "sorting" ELSE IF format = "client" THEN "returned" ELSE "loading"
<1>1. format' = format /\ format \in Formats
  BY DEF CreateNetwork, LeftInv
<1>2. PICK s : /\ Continue(s, then)
               /\ format = "tf" => s = Tf!LoadGraphDef(model, st)
               /\ format = "caffe" => s = Caffe!LoadNetParam(model, st)
  BY DEF CreateNetwork
<1>3. ASSUME stage' = "sorting"
      PROVE  format \in Sorting /\ {"thrown", "escaped"} \subseteq DOMAIN st'
  <2>1. format \in Sorting /\ st' = s
    BY <1>2, <1>3 DEF Continue
  <2> QED
    BY <1>2, <2>1, FlagsOfStart DEF Sorting
<1>4. ASSUME stage' \in Settled, ~st'.escaped, format \in CleanedUp
      PROVE  Cleaned'
  <2>1. s.thrown
    BY <1>2, <1>4 DEF Continue, Settled, CleanedUp
  <2> HIDE DEF then
  <2> QED
    BY <1>1, <1>2, <1>4, <2>1, HandlerCleans
<1> QED
  BY <1>1, <1>3, <1>4 DEF LeftInv

LEMMA LeftSort ==
  ASSUME LeftInv, StartTarget \/ VisitChild \/ FinishNode \/ EndSort
  PROVE  LeftInv'
<1>1. /\ stage = "sorting" /\ stage' \in {"sorting", "loading"}
      /\ format' = format /\ st' = st
  BY DEF StartTarget, VisitChild, FinishNode, EndSort, Visiting
<1> QED
  BY <1>1 DEF LeftInv, Settled

LEMMA LeftRefuse ==
  ASSUME LeftInv, RefuseGraph
  PROVE  LeftInv'
<1>1. stage = "sorting" /\ format' = format
  BY DEF RefuseGraph, Visiting
<1>2. PICK s : Continue(s, "thrown") /\ s \in {Uncaught(st), Failed(st)}
  BY DEF RefuseGraph
<1>3. s.thrown
  BY <1>1, <1>2 DEF LeftInv, Uncaught, Failed
<1>4. stage' = "thrown"
  BY <1>2 DEF Continue
<1> QED
  BY <1>1, <1>2, <1>3, <1>4, HandlerCleans DEF LeftInv

(* A node, a layer or an output is parsed, or the loop is over: the call   *)
(* goes on, or it throws.                                                  *)
LEMMA LeftContinue ==
  ASSUME LeftInv, NEW s, NEW then \in {"loading", "loaded"}, Continue(s, then), format' = format
  PROVE  LeftInv'
<1>1. stage' \in Settled => s.thrown /\ stage' = "thrown"
  BY DEF Continue, Settled
<1>2. stage' # "sorting"
  BY DEF Continue
<1> QED
  BY <1>1, <1>2, HandlerCleans DEF LeftInv

LEMMA LeftLoad ==
  ASSUME LeftInv,
         \/ LoadTfNode \/ LoadCaffeLayer \/ AddCaffeOutput \/ LoadTfLiteOperator \/ LoadOnnxNode
         \/ FinishLoading
  PROVE  LeftInv'
<1>1. ASSUME NEW s, Loaded(s)
      PROVE  LeftInv'
  BY <1>1, LeftContinue DEF Loaded
<1>2. CASE LoadTfNode \/ LoadCaffeLayer \/ AddCaffeOutput \/ LoadTfLiteOperator \/ LoadOnnxNode
  BY <1>1, <1>2 DEF LoadTfNode, LoadCaffeLayer, AddCaffeOutput, LoadTfLiteOperator, LoadOnnxNode
<1>3. CASE FinishLoading
  BY <1>3, LeftContinue DEF FinishLoading
<1> QED
  BY <1>2, <1>3

LEMMA LeftReturn ==
  ASSUME LeftInv, Return
  PROVE  LeftInv'
<1>1. stage' = "returned" /\ format' = format /\ st' = Cleanup(st)
  BY DEF Return
<1> QED
  BY <1>1, CleanupCleans DEF LeftInv

(* The serializer and the deserializer do not touch the parser.            *)
LEMMA LeftSerial ==
  ASSUME LeftInv, StartSerialize \/ VisitLayer \/ StartDeserialize \/ ReadLayer \/ FinishDeserialize
  PROVE  LeftInv'
<1>1. /\ stage \in {"returned", "writing", "reading"} /\ stage' \in {"writing", "reading", "done"}
      /\ format' = format /\ st' = st
  BY DEF StartSerialize, VisitLayer, StartDeserialize, ReadLayer, FinishDeserialize
<1>2. Cleaned => Cleaned'
  BY <1>1 DEF Cleaned, Cleanup
<1> QED
  BY <1>1, <1>2 DEF LeftInv, Settled

LEMMA LeftCallAgain ==
  ASSUME LeftInv, CallAgain
  PROVE  LeftInv'
BY DEF LeftInv, CallAgain, Settled

LEMMA LeftStep ==
  ASSUME LeftInv, [Next]_vars
  PROVE  LeftInv'
<1>1. CASE UNCHANGED vars
  BY <1>1 DEF LeftInv, Cleaned, Cleanup, vars
<1> QED
  BY <1>1, LeftCreate, LeftSort, LeftRefuse, LeftLoad, LeftReturn, LeftSerial, LeftCallAgain DEF Next, Work, Rest

(* A call of the TensorFlow, Caffe or ONNX parser that returns, or that    *)
(* throws a ParseException at whichever of its steps, leaves nothing in the*)
(* parser for the next one to find, even if an exception of another class  *)
(* has left a call before it uncleaned.                                    *)
(* ("Cleanup, in case we reuse this parser.", TfParser.cpp:3450)           *)
THEOREM NothingIsLeft == Spec => []NothingLeftOver
<1>1. Init => LeftInv
  BY LeftInit
<1>2. LeftInv /\ [Next]_vars => LeftInv'
  BY LeftStep
<1>3. LeftInv => NothingLeftOver
  <2> SUFFICES ASSUME LeftInv, stage \in {"returned", "thrown"}, ~st.escaped PROVE NothingLeftOver
    BY DEF NothingLeftOver
  <2>1. CASE format = "tf"
    BY <2>1 DEF LeftInv, Settled, CleanedUp, NothingLeftOver, Cleaned, Cleanup, Tf!Cleanup, Tf!New0
  <2>2. CASE format = "caffe"
    BY <2>2 DEF LeftInv, Settled, CleanedUp, NothingLeftOver, Cleaned, Cleanup, Caffe!Cleanup, Caffe!New0
  <2>3. CASE format = "onnx"
    <3>1. st = [[Onnx!New0 EXCEPT !.net = st.net] EXCEPT !.thrown = st.thrown]
      BY <2>3 DEF LeftInv, Settled, CleanedUp, Cleaned, Cleanup
    <3>2. PICK n, t : st = [[Onnx!New0 EXCEPT !.net = n] EXCEPT !.thrown = t]
      BY <3>1
    <3>3. PICK none : Onnx!New0 = [net |-> <<>>, producers |-> none, infos |-> <<>>, consts |-> <<>>,
                                   types |-> <<>>, thrown |-> FALSE, escaped |-> FALSE]
      BY ONLY TRUE DEF Onnx!New0
    <3>4. st = [net |-> n, producers |-> none, infos |-> <<>>, consts |-> <<>>, types |-> <<>>,
                thrown |-> t, escaped |-> FALSE]
      BY ONLY <3>2, <3>3
    <3>5. PICK left : left = [[net |-> n, producers |-> none, infos |-> <<>>, consts |-> <<>>, types |-> <<>>,
                               thrown |-> t, escaped |-> FALSE] EXCEPT !.net = <<>>, !.thrown = FALSE]
      OBVIOUS
    <3>6. left = [st EXCEPT !.net = <<>>, !.thrown = FALSE]
      BY ONLY <3>4, <3>5, Zenon
    <3>7. left = [net |-> <<>>, producers |-> none, infos |-> <<>>, consts |-> <<>>, types |-> <<>>,
                  thrown |-> FALSE, escaped |-> FALSE]
      BY ONLY <3>5
    <3>8. left = Onnx!New0
      BY ONLY <3>3, <3>7, Zenon
    <3> QED
      BY <2>3, <3>6, <3>8, Zenon DEF NothingLeftOver
  <2> QED
    BY <2>1, <2>2, <2>3 DEF NothingLeftOver
<1> QED
  BY <1>1, <1>2, <1>3, PTL DEF Spec
=============================================================================
