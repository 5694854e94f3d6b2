--------------------------- MODULE RuntimeProofs ---------------------------
(***************************************************************************)
(* Proofs about Runtime.tla, for every set of threads, networks and memory *)
(* managers, every choice of client rules and every set of faults: ids and *)
(* working memory, networks that leak, pointers that dangle, and whose     *)
(* results a call returns.                                                 *)
(***************************************************************************)
EXTENDS Runtime, TLAPS

USE DEF NoId, Phases, LoadedIds, Steps, LoadSteps, UnloadSteps, EnqueueSteps,
        FindSteps, UseSteps, ExecuteSteps, DestroySteps

----------------------------------------------------------------------------
(* Types.  TypeOK is not inductive: what a step stores comes from the      *)
(* thread's local id and pointer, which are set only in the steps named.   *)

PointerSteps ==
  {"generateRead", "generateWrite", "construct", "store", "switch", "freeLast",
   "freeing"} \cup UseSteps \cup ExecuteSteps

TypeInv ==
  /\ TypeOK
  /\ \A t \in Threads :
       /\ pc[t] \in LoadSteps \ {"generateRead"} => netId[t] \in Nat
       /\ pc[t] \in PointerSteps => netPtr[t] \in Networks

LEMMA TypeInit == Init => TypeInv
  BY DEF Init, LoadedNetworkInit, ClInit, TypeInv, PointerSteps, TypeOK,
        LoadedNetworkTypeOK

LEMMA TypeLoad ==
  ASSUME TypeInv, NEW t \in Threads, LoadStep(t)
  PROVE  TypeInv'
<1> USE DEF Goto, Return, Set, Unset, SetPhase, runtimeVars, networkVars,
            memoryVars, queueVars, clVars,
            TypeInv, PointerSteps, TypeOK, LoadedNetworkTypeOK
<1>1. CASE \E n \in Networks : BeginLoad(t, n)
  BY <1>1 DEF BeginLoad, Ready, Loading, Unloading
<1>2. CASE GenerateRead(t)
  BY <1>2 DEF GenerateRead
<1>3. CASE GenerateWrite(t)
  BY <1>3 DEF GenerateWrite, WriteCounter
<1>4. CASE MakeLoadedNetwork(t)
  BY <1>4 DEF MakeLoadedNetwork
<1>5. CASE MakeLoadedNetworkFails(t)
  BY <1>5 DEF MakeLoadedNetworkFails, ReturnId
<1>6. CASE Store(t)
  <2>1. netId[t] \in Nat /\ netPtr[t] \in Networks
    BY <1>6 DEF Store
  <2>2. /\ LoadedIds' \subseteq Nat
        /\ loadedNetworks' \in [LoadedIds' -> Networks]
    BY <1>6, <2>1 DEF Store
  <2>3. /\ pc' \in [Threads -> Steps]
        /\ netPtr' \in [Threads -> Networks \cup {NoNetwork}]
        /\ mutex' \in Threads \cup {NoThread}
    BY <1>6 DEF Store
  <2>4. TypeOK'
    BY <1>6, <2>2, <2>3 DEF Store
  <2>5. /\ netId' = netId
        /\ \A u \in Threads \ {t} : pc'[u] = pc[u] /\ netPtr'[u] = netPtr[u]
        /\ pc'[t] \in {"freeReplaced", "afterLoad"}
    BY <1>6 DEF Store
  <2> QED
    BY <2>1, <2>4, <2>5
<1>7. CASE FreeReplaced(t)
  BY <1>7 DEF FreeReplaced, FreeUnderMutex, FreeWorkingMemory
<1>8. CASE DestroyReplaced(t)
  BY <1>8 DEF DestroyReplaced, DestroyUnderMutex, Destroy
<1>9. CASE AfterLoad(t)
  BY <1>9 DEF AfterLoad, AfterLoadNetwork, ReturnId
<1> QED
  BY <1>1, <1>2, <1>3, <1>4, <1>5, <1>6, <1>7, <1>8, <1>9 DEF LoadStep

LEMMA TypeUnload ==
  ASSUME TypeInv, NEW t \in Threads, UnloadStep(t)
  PROVE  TypeInv'
<1> USE DEF Goto, Return, Set, Unset, SetPhase, runtimeVars, networkVars,
            memoryVars, queueVars, clVars,
            TypeInv, PointerSteps, TypeOK, LoadedNetworkTypeOK
<1>1. CASE \E id \in returnedIds : BeginUnload(t, id)
  BY <1>1 DEF BeginUnload, Ready
<1>2. CASE BeforeUnload(t)
  BY <1>2 DEF BeforeUnload
<1>3. CASE BeforeUnloadFails(t)
  BY <1>3 DEF BeforeUnloadFails
<1>4. CASE EraseNotFound(t)
  BY <1>4 DEF EraseNotFound
<1>5. CASE Erase(t)
  BY <1>5 DEF Erase, EraseTo
<1>6. CASE FreeErased(t)
  BY <1>6 DEF FreeErased, FreeUnderMutex, FreeWorkingMemory
<1>7. CASE DestroyErased(t)
  BY <1>7 DEF DestroyErased, DestroyUnderMutex, Destroy
<1>8. CASE AfterUnload(t)
  BY <1>8 DEF AfterUnload, AfterUnloadNetwork
<1>9. CASE ClearCache(t)
  BY <1>9 DEF ClearCache, ClearClCache
<1> QED
  BY <1>1, <1>2, <1>3, <1>4, <1>5, <1>6, <1>7, <1>8, <1>9 DEF UnloadStep

LEMMA TypeEnqueue ==
  ASSUME TypeInv, NEW t \in Threads, EnqueueStep(t)
  PROVE  TypeInv'
<1> USE DEF Goto, Return, Set, Unset, SetPhase, runtimeVars, networkVars,
            memoryVars, queueVars, clVars,
            TypeInv, PointerSteps, TypeOK, LoadedNetworkTypeOK
<1>1. CASE \E id \in returnedIds : BeginEnqueue(t, id)
  BY <1>1 DEF BeginEnqueue, Ready
<1>2. CASE GetNetworkThrows(t)
  BY <1>2 DEF GetNetworkThrows
<1>3. CASE GetNetwork(t)
  BY <1>3 DEF GetNetwork
<1>4. CASE SameNetwork(t)
  BY <1>4 DEF SameNetwork, SetLastId
<1>5. CASE SwitchNetwork(t)
  BY <1>5 DEF SwitchNetwork
<1>6. CASE LastNetworkGone(t)
  BY <1>6 DEF LastNetworkGone, SetLastId
<1>7. CASE FindLastNetwork(t)
  BY <1>7 DEF FindLastNetwork
<1>8. CASE FreeLastNetwork(t)
  BY <1>8 DEF FreeLastNetwork, FreeLastTo, FreeWorkingMemory, SetLastId
<1>9. CASE UseAfterUnload(t)
  BY <1>9 DEF UseAfterUnload
<1>10. CASE EnqueueRejected(t)
  BY <1>10 DEF EnqueueRejected, Using
<1>11. CASE FillInputs(t)
  BY <1>11 DEF FillInputs, Using, BindInputs
<1>12. CASE FillOutputs(t)
  BY <1>12 DEF FillOutputs, Using, BindOutputs
<1>13. CASE FillThrows(t)
  BY <1>13 DEF FillThrows, Using, BindInputs, BindOutputs
<1>14. CASE BeginExecute(t)
  BY <1>14 DEF BeginExecute, Using, LockWorkingMem
<1>15. CASE Allocate(t)
  BY <1>15 DEF Allocate, AllocateWorkingMemory, Using
<1>16. CASE AllocateThrows(t)
  BY <1>16 DEF AllocateThrows, AllocationThrows, Using
<1>17. CASE ExecuteWorkloads(t)
  BY <1>17 DEF ExecuteWorkloads, ExecuteInputsAndWorkloads, Using
<1>18. CASE ExecuteThrows(t)
  BY <1>18 DEF ExecuteThrows, ExecuteOutputs, UnlockWorkingMem, Using
<1>19. CASE FinishExecute(t)
  BY <1>19 DEF FinishExecute, ExecuteOutputs, UnlockWorkingMem, Using
<1> QED
  BY <1>1, <1>2, <1>3, <1>4, <1>5, <1>6, <1>7, <1>8, <1>9, <1>10, <1>11,
        <1>12, <1>13, <1>14, <1>15, <1>16, <1>17, <1>18, <1>19 DEF EnqueueStep

LEMMA TypeDestroy ==
  ASSUME TypeInv, NEW t \in Threads, DestroyStep(t)
  PROVE  TypeInv'
<1> USE DEF Goto, Return, Set, Unset, SetPhase, runtimeVars, networkVars,
            memoryVars, queueVars, clVars,
            TypeInv, PointerSteps, TypeOK, LoadedNetworkTypeOK
<1>1. CASE BeginDestroy(t)
  BY <1>1 DEF BeginDestroy, Ready
<1>2. CASE DestroyNext(t)
  BY <1>2 DEF DestroyNext
<1>3. CASE DestroyContexts(t)
  BY <1>3 DEF DestroyContexts
<1>4. CASE DestroyMembers(t)
  BY <1>4 DEF DestroyMembers
<1> QED
  BY <1>1, <1>2, <1>3, <1>4 DEF DestroyStep

LEMMA TypeStutter ==
  ASSUME TypeInv, UNCHANGED vars
  PROVE  TypeInv'
  BY DEF TypeInv, PointerSteps, TypeOK, LoadedNetworkTypeOK, vars, threadVars,
        runtimeVars, networkVars, memoryVars,
         queueVars, clVars

LEMMA TypeNext == TypeInv /\ [Next]_vars => TypeInv'
<1> SUFFICES ASSUME TypeInv, [Next]_vars
             PROVE  TypeInv'
  OBVIOUS
<1>1. ASSUME NEW t \in Threads, ThreadStep(t)
      PROVE  TypeInv'
  BY <1>1, TypeLoad, TypeUnload, TypeEnqueue, TypeDestroy DEF ThreadStep
<1>2. CASE Gone
  BY <1>2, TypeStutter DEF Gone
<1>3. CASE UNCHANGED vars
  BY <1>3, TypeStutter
<1> QED
  BY <1>1, <1>2, <1>3 DEF Next

(* Every variable keeps its type: in particular the ids and pointers a     *)
(* thread stores into the map were set by the same call (Runtime.cpp).     *)
THEOREM TypeCorrect == Spec => []TypeOK
<1>1. TypeInv => TypeOK
  BY DEF TypeInv
<1> QED
  BY TypeInit, TypeNext, <1>1, PTL DEF Spec

----------------------------------------------------------------------------
(* The working memory of a running inference.                              *)

(* A thread that runs workloads holds the network's mutex, with the memory *)
(* allocated until the network is destroyed; and the flag is never set on  *)
(* unacquired managers.                                                    *)
HeldInv ==
  /\ \A n \in Networks : isWorkingMemAllocated[n] => acquired[n] =
        MemoryManagers
  /\ \A t \in Threads :
       /\ pc[t] \in ExecuteSteps =>
            /\ workingMemMutex[netPtr[t]] = t
            /\ phase[netPtr[t]] \in {"loaded", "destroyed"}
       /\ pc[t] \in {"executeInputs", "executeOutputs"} =>
            (phase[netPtr[t]] = "loaded" => isWorkingMemAllocated[netPtr[t]])

(* The steps of a thread that alone has a network, constructed and not in  *)
(* the map.                                                                *)
OwnSteps == {"store", "freeReplaced", "destroyReplaced", "freeErased",
             "destroyErased"}

USE DEF OwnSteps

(* Only the thread that loads a network moves it towards "loaded".  From   *)
(* then on it has one owner, an id of the map or a thread, and is not      *)
(* destroyed before the owner does it.                                     *)
OwnerInv ==
  /\ \A t \in Threads :
       /\ pc[t] \in {"generateRead", "generateWrite"} =>
            phase[netPtr[t]] = "optimized"
       /\ pc[t] = "construct" => phase[netPtr[t]] = "building"
       /\ pc[t] \in OwnSteps =>
            /\ netPtr[t] \in Networks /\ phase[netPtr[t]] = "loaded"
            /\ \A id \in LoadedIds : loadedNetworks[id] # netPtr[t]
  /\ \A t, u \in Threads :
       /\ pc[t] \in {"generateRead", "generateWrite", "construct"}
       /\ pc[u] \in {"generateRead", "generateWrite", "construct"}
       /\ netPtr[t] = netPtr[u]
       => t = u
  /\ \A t, u \in Threads :
       pc[t] \in OwnSteps /\ pc[u] \in OwnSteps /\ netPtr[t] = netPtr[u]
       => t = u
  /\ \A id \in LoadedIds : phase[loadedNetworks[id]] = "loaded"
  /\ \A i, j \in LoadedIds : loadedNetworks[i] = loadedNetworks[j] => i = j

(* ~Runtime runs alone.                                                    *)
DestroyerInv ==
  /\ \A t \in Threads : pc[t] \in DestroySteps => destroyer = t
  /\ \A t, u \in Threads : destroyer = t /\ u # t => pc[u] = "idle"
  /\ \A t \in Threads : destroyer = t =>
       pc[t] \in {"idle"} \cup UnloadSteps \cup DestroySteps

MemInv == TypeInv /\ HeldInv /\ OwnerInv /\ DestroyerInv

LEMMA MemInit == Init => MemInv
<1> SUFFICES ASSUME Init
             PROVE  MemInv
  OBVIOUS
<1>1. TypeInv
  BY TypeInit
<1>2. HeldInv
  BY DEF Init, LoadedNetworkInit, HeldInv
<1>3. OwnerInv
  BY DEF Init, LoadedNetworkInit, OwnerInv
<1>4. DestroyerInv
  BY NoThreadAssumption DEF Init, DestroyerInv
<1> QED
  BY <1>1, <1>2, <1>3, <1>4 DEF MemInv

LEMMA MemLoad ==
  ASSUME MemInv, NEW t \in Threads, LoadStep(t)
  PROVE  MemInv'
<1> USE DEF Goto, Return, Set, Unset, SetPhase, runtimeVars, networkVars,
            memoryVars, queueVars, clVars,
            MemInv, HeldInv, OwnerInv, DestroyerInv
<1>0. TypeInv'
  BY TypeLoad
<1> USE <1>0, NoThreadAssumption, NoNetworkAssumption DEF TypeInv,
      PointerSteps, TypeOK, LoadedNetworkTypeOK
<1>1. CASE \E n \in Networks : BeginLoad(t, n)
  BY <1>1 DEF BeginLoad, Ready, Loading, Unloading
<1>2. CASE GenerateRead(t)
  BY <1>2 DEF GenerateRead
<1>3. CASE GenerateWrite(t)
  BY <1>3 DEF GenerateWrite, WriteCounter
<1>4. CASE MakeLoadedNetwork(t)
  BY <1>4 DEF MakeLoadedNetwork
<1>5. CASE MakeLoadedNetworkFails(t)
  BY <1>5 DEF MakeLoadedNetworkFails, ReturnId
<1>6. CASE Store(t)
  <2>1. HeldInv'
    BY <1>6 DEF Store
  <2>2. DestroyerInv'
    BY <1>6 DEF Store
  <2>3. /\ LoadedIds' = LoadedIds \cup {netId[t]}
        /\ loadedNetworks'[netId[t]] = netPtr[t]
        /\ \A id \in LoadedIds \ {netId[t]} :
             loadedNetworks'[id] = loadedNetworks[id]
    BY <1>6 DEF Store
  <2>4. /\ UNCHANGED phase
        /\ \A u \in Threads \ {t} : pc'[u] = pc[u] /\ netPtr'[u] = netPtr[u]
        /\ \/ pc'[t] = "afterLoad"
           \/ /\ pc'[t] = "freeReplaced" /\ netId[t] \in LoadedIds
              /\ netPtr'[t] = loadedNetworks[netId[t]]
    BY <1>6 DEF Store
  <2>5. OwnerInv'
    <3>1. ASSUME NEW u \in Threads, pc'[u] \in OwnSteps
          PROVE  /\ netPtr'[u] \in Networks /\ phase'[netPtr'[u]] = "loaded"
                 /\ \A id \in LoadedIds' : loadedNetworks'[id] # netPtr'[u]
      <4>1. CASE u = t
        BY <1>6, <2>3, <2>4, <3>1, <4>1 DEF Store
      <4>2. CASE u # t
        BY <1>6, <2>3, <2>4, <3>1, <4>2 DEF Store
      <4> QED
        BY <4>1, <4>2
    <3>2. ASSUME NEW u \in Threads, NEW v \in Threads, pc'[u] \in OwnSteps,
                 pc'[v] \in OwnSteps, netPtr'[u] = netPtr'[v]
          PROVE  u = v
      BY <1>6, <2>3, <2>4, <3>2 DEF Store
    <3>3. \A id \in LoadedIds' : phase'[loadedNetworks'[id]] = "loaded"
      BY <1>6, <2>3, <2>4 DEF Store
    <3>4. \A i, j \in LoadedIds' :
            loadedNetworks'[i] = loadedNetworks'[j] => i = j
      BY <1>6, <2>3, <2>4 DEF Store
    <3>5. ASSUME NEW u \in Threads,
                 pc'[u] \in {"generateRead", "generateWrite", "construct"}
          PROVE  u # t /\ pc'[u] = pc[u] /\ netPtr'[u] = netPtr[u]
      BY <2>4, <3>5
    <3> QED
      BY <2>4, <3>1, <3>2, <3>3, <3>4, <3>5
  <2> QED
    BY <2>1, <2>2, <2>5
<1>7. CASE FreeReplaced(t)
  BY <1>7 DEF FreeReplaced, FreeUnderMutex, FreeWorkingMemory
<1>8. CASE DestroyReplaced(t)
  BY <1>8 DEF DestroyReplaced, DestroyUnderMutex, Destroy
<1>9. CASE AfterLoad(t)
  BY <1>9 DEF AfterLoad, AfterLoadNetwork, ReturnId
<1> QED
  BY <1>1, <1>2, <1>3, <1>4, <1>5, <1>6, <1>7, <1>8, <1>9 DEF LoadStep

LEMMA MemUnload ==
  ASSUME MemInv, NEW t \in Threads, UnloadStep(t)
  PROVE  MemInv'
<1> USE DEF Goto, Return, Set, Unset, SetPhase, runtimeVars, networkVars,
            memoryVars, queueVars, clVars,
            MemInv, HeldInv, OwnerInv, DestroyerInv
<1>0. TypeInv'
  BY TypeUnload
<1> USE <1>0, NoThreadAssumption, NoNetworkAssumption DEF TypeInv,
      PointerSteps, TypeOK, LoadedNetworkTypeOK
<1>1. CASE \E id \in returnedIds : BeginUnload(t, id)
  BY <1>1 DEF BeginUnload, Ready
<1>2. CASE BeforeUnload(t)
  BY <1>2 DEF BeforeUnload
<1>3. CASE BeforeUnloadFails(t)
  BY <1>3 DEF BeforeUnloadFails
<1>4. CASE EraseNotFound(t)
  BY <1>4 DEF EraseNotFound
<1>5. CASE Erase(t)
  BY <1>5 DEF Erase, EraseTo
<1>6. CASE FreeErased(t)
  BY <1>6 DEF FreeErased, FreeUnderMutex, FreeWorkingMemory
<1>7. CASE DestroyErased(t)
  BY <1>7 DEF DestroyErased, DestroyUnderMutex, Destroy
<1>8. CASE AfterUnload(t)
  BY <1>8, SMTT(30) DEF AfterUnload, AfterUnloadNetwork
<1>9. CASE ClearCache(t)
  BY <1>9 DEF ClearCache, ClearClCache
<1> QED
  BY <1>1, <1>2, <1>3, <1>4, <1>5, <1>6, <1>7, <1>8, <1>9 DEF UnloadStep

LEMMA MemEnqueue ==
  ASSUME MemInv, NEW t \in Threads, EnqueueStep(t)
  PROVE  MemInv'
<1> USE DEF Goto, Return, Set, Unset, SetPhase, runtimeVars, networkVars,
            memoryVars, queueVars, clVars,
            MemInv, HeldInv, OwnerInv, DestroyerInv
<1>0. TypeInv'
  BY TypeEnqueue
<1> USE <1>0, NoThreadAssumption, NoNetworkAssumption DEF TypeInv,
      PointerSteps, TypeOK, LoadedNetworkTypeOK
<1>1. CASE \E id \in returnedIds : BeginEnqueue(t, id)
  BY <1>1 DEF BeginEnqueue, Ready
<1>2. CASE GetNetworkThrows(t)
  BY <1>2 DEF GetNetworkThrows
<1>3. CASE GetNetwork(t)
  BY <1>3 DEF GetNetwork
<1>4. CASE SameNetwork(t)
  BY <1>4 DEF SameNetwork, SetLastId
<1>5. CASE SwitchNetwork(t)
  BY <1>5 DEF SwitchNetwork
<1>6. CASE LastNetworkGone(t)
  BY <1>6 DEF LastNetworkGone, SetLastId
<1>7. CASE FindLastNetwork(t)
  BY <1>7 DEF FindLastNetwork
<1>8. CASE FreeLastNetwork(t)
  BY <1>8 DEF FreeLastNetwork, FreeLastTo, FreeWorkingMemory, SetLastId
<1>9. CASE UseAfterUnload(t)
  <2>1. HeldInv'
    BY <1>9 DEF UseAfterUnload
  <2>2. OwnerInv'
    BY <1>9 DEF UseAfterUnload
  <2>3. DestroyerInv'
    BY <1>9 DEF UseAfterUnload
  <2> QED
    BY <2>1, <2>2, <2>3
<1>10. CASE EnqueueRejected(t)
  BY <1>10 DEF EnqueueRejected, Using
<1>11. CASE FillInputs(t)
  BY <1>11 DEF FillInputs, Using, BindInputs
<1>12. CASE FillOutputs(t)
  BY <1>12 DEF FillOutputs, Using, BindOutputs
<1>13. CASE FillThrows(t)
  BY <1>13 DEF FillThrows, Using, BindInputs, BindOutputs
<1>14. CASE BeginExecute(t)
  BY <1>14 DEF BeginExecute, Using, LockWorkingMem
<1>15. CASE Allocate(t)
  BY <1>15 DEF Allocate, AllocateWorkingMemory, Using
<1>16. CASE AllocateThrows(t)
  BY <1>16 DEF AllocateThrows, AllocationThrows, Using
<1>17. CASE ExecuteWorkloads(t)
  BY <1>17 DEF ExecuteWorkloads, ExecuteInputsAndWorkloads, Using
<1>18. CASE ExecuteThrows(t)
  <2>1. HeldInv'
    BY <1>18 DEF ExecuteThrows, ExecuteOutputs, UnlockWorkingMem, Using
  <2>2. OwnerInv'
    BY <1>18 DEF ExecuteThrows, ExecuteOutputs, UnlockWorkingMem, Using
  <2>3. DestroyerInv'
    BY <1>18 DEF ExecuteThrows, ExecuteOutputs, UnlockWorkingMem, Using
  <2> QED
    BY <2>1, <2>2, <2>3
<1>19. CASE FinishExecute(t)
  <2>1. HeldInv'
    BY <1>19 DEF FinishExecute, ExecuteOutputs, UnlockWorkingMem, Using
  <2>2. OwnerInv'
    BY <1>19 DEF FinishExecute, ExecuteOutputs, UnlockWorkingMem, Using
  <2>3. DestroyerInv'
    BY <1>19 DEF FinishExecute, ExecuteOutputs, UnlockWorkingMem, Using
  <2> QED
    BY <2>1, <2>2, <2>3
<1> QED
  BY <1>1, <1>2, <1>3, <1>4, <1>5, <1>6, <1>7, <1>8, <1>9, <1>10, <1>11,
        <1>12, <1>13, <1>14, <1>15, <1>16, <1>17, <1>18, <1>19 DEF EnqueueStep

LEMMA MemDestroy ==
  ASSUME MemInv, NEW t \in Threads, DestroyStep(t)
  PROVE  MemInv'
<1> USE DEF Goto, Return, Set, Unset, SetPhase, runtimeVars, networkVars,
            memoryVars, queueVars, clVars,
            MemInv, HeldInv, OwnerInv, DestroyerInv
<1>0. TypeInv'
  BY TypeDestroy
<1> USE <1>0, NoThreadAssumption, NoNetworkAssumption DEF TypeInv,
      PointerSteps, TypeOK, LoadedNetworkTypeOK
<1>1. CASE BeginDestroy(t)
  BY <1>1 DEF BeginDestroy, Ready
<1>2. CASE DestroyNext(t)
  BY <1>2 DEF DestroyNext
<1>3. CASE DestroyContexts(t)
  BY <1>3 DEF DestroyContexts
<1>4. CASE DestroyMembers(t)
  <2>1. destroyer = t /\ \A u \in Threads : pc'[u] = "idle"
    BY <1>4 DEF DestroyMembers
  <2>2. LoadedIds' = {}
    BY <1>4 DEF DestroyMembers
  <2>3. HeldInv'
    BY <1>4, <2>1 DEF DestroyMembers
  <2>4. OwnerInv'
    BY <2>1, <2>2
  <2>5. DestroyerInv'
    BY <1>4, <2>1 DEF DestroyMembers
  <2> QED
    BY <2>3, <2>4, <2>5
<1> QED
  BY <1>1, <1>2, <1>3, <1>4 DEF DestroyStep

LEMMA MemStutter ==
  ASSUME MemInv, UNCHANGED vars
  PROVE  MemInv'
  BY DEF MemInv, HeldInv, OwnerInv, DestroyerInv,
         TypeInv, PointerSteps, TypeOK, LoadedNetworkTypeOK, vars, threadVars,
               runtimeVars, networkVars, memoryVars,
         queueVars, clVars

LEMMA MemNext == MemInv /\ [Next]_vars => MemInv'
<1> SUFFICES ASSUME MemInv, [Next]_vars
             PROVE  MemInv'
  OBVIOUS
<1>1. ASSUME NEW t \in Threads, ThreadStep(t)
      PROVE  MemInv'
  BY <1>1, MemLoad, MemUnload, MemEnqueue, MemDestroy DEF ThreadStep
<1>2. CASE Gone
  BY <1>2, MemStutter DEF Gone
<1>3. CASE UNCHANGED vars
  BY <1>3, MemStutter
<1> QED
  BY <1>1, <1>2, <1>3 DEF Next

(* Whatever other threads load, unload, enqueue or free, a thread running  *)
(* workloads (LoadedNetwork::Execute) owns the acquired working memory of  *)
(* its network until that is destroyed.  Without promises by the clients it*)
(* may be: ~LoadedNetwork drops the mutex before the members go, and a call*)
(* that waits for the mutex enters in between.                             *)
THEOREM InferenceKeepsMemory == Spec => []InferenceHasMemory
<1>1. MemInv => InferenceHasMemory
  BY DEF MemInv, HeldInv, InferenceHasMemory, TypeInv, PointerSteps, TypeOK,
         LoadedNetworkTypeOK
<1> QED
  BY MemInit, MemNext, <1>1, PTL DEF Spec

(* m_WorkingMemMutex admits one inference of a network at a time.          *)
THEOREM InferencesExclude == Spec => []OneInferenceAtATime
<1>1. MemInv => OneInferenceAtATime
  BY DEF MemInv, HeldInv, OneInferenceAtATime
<1> QED
  BY MemInit, MemNext, <1>1, PTL DEF Spec

----------------------------------------------------------------------------
(* Who holds a lock, and for how long.                                     *)

(* m_Mutex is held across steps only by a thread that frees a network: one *)
(* that it replaced or erased, and then destroys, or one that is still in  *)
(* the map.  The mutex of a network is held by its inference, until the    *)
(* network is destroyed.                                                   *)
HoldSteps == {"freeReplaced", "destroyReplaced", "freeErased",
              "destroyErased", "freeing"}

USE DEF HoldSteps

MutexInv ==
  /\ \A t \in Threads : mutex = t <=> pc[t] \in HoldSteps
  /\ \A t \in Threads, n \in Networks :
       phase[n] # "destroyed" =>
         (workingMemMutex[n] = t <=> pc[t] \in ExecuteSteps /\ netPtr[t] = n)
  /\ \A t \in Threads : pc[t] = "freeing" => lastId[t] \in LoadedIds

LockInv == MemInv /\ MutexInv

LEMMA LockInit == Init => LockInv
  BY MemInit, NoThreadAssumption
  DEF Init, LoadedNetworkInit, LockInv, MutexInv, ClInit

LEMMA LockLoad ==
  ASSUME LockInv, NEW t \in Threads, LoadStep(t)
  PROVE  MutexInv'
<1> USE DEF Goto, Return, Set, Unset, SetPhase, runtimeVars, networkVars,
            memoryVars, queueVars, clVars,
            LockInv, MutexInv, MemInv, HeldInv, OwnerInv, DestroyerInv
<1> USE NoThreadAssumption, NoNetworkAssumption DEF TypeInv,
      PointerSteps, TypeOK, LoadedNetworkTypeOK
<1>1. CASE \E n \in Networks : BeginLoad(t, n)
  BY <1>1 DEF BeginLoad, Ready, Loading, Unloading
<1>2. CASE GenerateRead(t)
  BY <1>2 DEF GenerateRead
<1>3. CASE GenerateWrite(t)
  BY <1>3 DEF GenerateWrite, WriteCounter
<1>4. CASE MakeLoadedNetwork(t)
  BY <1>4 DEF MakeLoadedNetwork
<1>5. CASE MakeLoadedNetworkFails(t)
  BY <1>5 DEF MakeLoadedNetworkFails, ReturnId
<1>6. CASE Store(t)
  BY <1>6 DEF Store
<1>7. CASE FreeReplaced(t)
  BY <1>7 DEF FreeReplaced, FreeUnderMutex, FreeWorkingMemory
<1>8. CASE DestroyReplaced(t)
  BY <1>8 DEF DestroyReplaced, DestroyUnderMutex, Destroy
<1>9. CASE AfterLoad(t)
  BY <1>9 DEF AfterLoad, AfterLoadNetwork, ReturnId
<1> QED
  BY <1>1, <1>2, <1>3, <1>4, <1>5, <1>6, <1>7, <1>8, <1>9 DEF LoadStep

LEMMA LockUnload ==
  ASSUME LockInv, NEW t \in Threads, UnloadStep(t)
  PROVE  MutexInv'
<1> USE DEF Goto, Return, Set, Unset, SetPhase, runtimeVars, networkVars,
            memoryVars, queueVars, clVars,
            LockInv, MutexInv, MemInv, HeldInv, OwnerInv, DestroyerInv
<1> USE NoThreadAssumption, NoNetworkAssumption DEF TypeInv,
      PointerSteps, TypeOK, LoadedNetworkTypeOK
<1>1. CASE \E id \in returnedIds : BeginUnload(t, id)
  BY <1>1 DEF BeginUnload, Ready
<1>2. CASE BeforeUnload(t)
  BY <1>2 DEF BeforeUnload
<1>3. CASE BeforeUnloadFails(t)
  BY <1>3 DEF BeforeUnloadFails
<1>4. CASE EraseNotFound(t)
  BY <1>4 DEF EraseNotFound
<1>5. CASE Erase(t)
  BY <1>5 DEF Erase, EraseTo
<1>6. CASE FreeErased(t)
  BY <1>6 DEF FreeErased, FreeUnderMutex, FreeWorkingMemory
<1>7. CASE DestroyErased(t)
  BY <1>7 DEF DestroyErased, DestroyUnderMutex, Destroy
<1>8. CASE AfterUnload(t)
  BY <1>8 DEF AfterUnload, AfterUnloadNetwork
<1>9. CASE ClearCache(t)
  BY <1>9 DEF ClearCache, ClearClCache
<1> QED
  BY <1>1, <1>2, <1>3, <1>4, <1>5, <1>6, <1>7, <1>8, <1>9 DEF UnloadStep

LEMMA LockEnqueue ==
  ASSUME LockInv, NEW t \in Threads, EnqueueStep(t)
  PROVE  MutexInv'
<1> USE DEF Goto, Return, Set, Unset, SetPhase, runtimeVars, networkVars,
            memoryVars, queueVars, clVars,
            LockInv, MutexInv, MemInv, HeldInv, OwnerInv, DestroyerInv
<1> USE NoThreadAssumption, NoNetworkAssumption DEF TypeInv,
      PointerSteps, TypeOK, LoadedNetworkTypeOK
<1>1. CASE \E id \in returnedIds : BeginEnqueue(t, id)
  BY <1>1 DEF BeginEnqueue, Ready
<1>2. CASE GetNetworkThrows(t)
  BY <1>2 DEF GetNetworkThrows
<1>3. CASE GetNetwork(t)
  BY <1>3 DEF GetNetwork
<1>4. CASE SameNetwork(t)
  BY <1>4 DEF SameNetwork, SetLastId
<1>5. CASE SwitchNetwork(t)
  BY <1>5 DEF SwitchNetwork
<1>6. CASE LastNetworkGone(t)
  BY <1>6 DEF LastNetworkGone, SetLastId
<1>7. CASE FindLastNetwork(t)
  BY <1>7 DEF FindLastNetwork
<1>8. CASE FreeLastNetwork(t)
  BY <1>8 DEF FreeLastNetwork, FreeLastTo, FreeWorkingMemory, SetLastId
<1>9. CASE UseAfterUnload(t)
  BY <1>9 DEF UseAfterUnload
<1>10. CASE EnqueueRejected(t)
  BY <1>10 DEF EnqueueRejected, Using
<1>11. CASE FillInputs(t)
  BY <1>11 DEF FillInputs, Using, BindInputs
<1>12. CASE FillOutputs(t)
  BY <1>12 DEF FillOutputs, Using, BindOutputs
<1>13. CASE FillThrows(t)
  BY <1>13 DEF FillThrows, Using, BindInputs, BindOutputs
<1>14. CASE BeginExecute(t)
  BY <1>14 DEF BeginExecute, Using, LockWorkingMem
<1>15. CASE Allocate(t)
  BY <1>15 DEF Allocate, AllocateWorkingMemory, Using
<1>16. CASE AllocateThrows(t)
  BY <1>16 DEF AllocateThrows, AllocationThrows, Using
<1>17. CASE ExecuteWorkloads(t)
  BY <1>17 DEF ExecuteWorkloads, ExecuteInputsAndWorkloads, Using
<1>18. CASE ExecuteThrows(t)
  BY <1>18 DEF ExecuteThrows, ExecuteOutputs, UnlockWorkingMem, Using
<1>19. CASE FinishExecute(t)
  BY <1>19 DEF FinishExecute, ExecuteOutputs, UnlockWorkingMem, Using
<1> QED
  BY <1>1, <1>2, <1>3, <1>4, <1>5, <1>6, <1>7, <1>8, <1>9, <1>10, <1>11,
        <1>12, <1>13, <1>14, <1>15, <1>16, <1>17, <1>18, <1>19 DEF EnqueueStep

LEMMA LockDestroy ==
  ASSUME LockInv, NEW t \in Threads, DestroyStep(t)
  PROVE  MutexInv'
<1> USE DEF Goto, Return, Set, Unset, SetPhase, runtimeVars, networkVars,
            memoryVars, queueVars, clVars,
            LockInv, MutexInv, MemInv, HeldInv, OwnerInv, DestroyerInv
<1> USE NoThreadAssumption, NoNetworkAssumption DEF TypeInv,
      PointerSteps, TypeOK, LoadedNetworkTypeOK
<1>1. CASE BeginDestroy(t)
  BY <1>1 DEF BeginDestroy, Ready
<1>2. CASE DestroyNext(t)
  BY <1>2 DEF DestroyNext
<1>3. CASE DestroyContexts(t)
  BY <1>3 DEF DestroyContexts
<1>4. CASE DestroyMembers(t)
  <2>1. destroyer = t /\ \A u \in Threads : pc'[u] = "idle"
    BY <1>4 DEF DestroyMembers
  <2> QED
    BY <1>4, <2>1 DEF DestroyMembers
<1> QED
  BY <1>1, <1>2, <1>3, <1>4 DEF DestroyStep

LEMMA LockStutter ==
  ASSUME LockInv, UNCHANGED vars
  PROVE  MutexInv'
  BY DEF LockInv, MutexInv, MemInv, HeldInv, OwnerInv, DestroyerInv,
         TypeInv, PointerSteps, TypeOK, LoadedNetworkTypeOK, vars, threadVars,
               runtimeVars, networkVars, memoryVars,
         queueVars, clVars

LEMMA LockNext == LockInv /\ [Next]_vars => LockInv'
<1> SUFFICES ASSUME LockInv, [Next]_vars
             PROVE  LockInv'
  OBVIOUS
<1>1. ASSUME NEW t \in Threads, ThreadStep(t)
      PROVE  MutexInv'
  BY <1>1, LockLoad, LockUnload, LockEnqueue, LockDestroy DEF ThreadStep
<1>2. ASSUME Gone PROVE MutexInv'
  BY <1>2, LockStutter DEF Gone
<1>3. ASSUME UNCHANGED vars PROVE MutexInv'
  BY <1>3, LockStutter
<1>4. MemInv'
  BY MemNext DEF LockInv
<1> QED
  BY <1>1, <1>2, <1>3, <1>4 DEF Next, LockInv

(* Threads that load, unload, enqueue and switch networks never wait for   *)
(* each other in a circle (Runtime.cpp:224 takes a network's mutex with    *)
(* m_Mutex held): m_Mutex may be held by a thread that waits for an        *)
(* inference, and an inference waits for no lock.                          *)
THEOREM LocksDoNotCircle == Spec => []NoCircularWait
<1>1. ASSUME LockInv PROVE NoCircularWait
  <2> USE <1>1 DEF LockInv, MutexInv
  <2>1. ASSUME NEW t \in Threads, NEW u \in Threads, WaitsFor(t, u)
        PROVE  IF pc[t] \in {"store", "erase", "getNetwork", "freeLast"}
               THEN pc[u] \in HoldSteps
               ELSE pc[u] \in ExecuteSteps
    <3>1. CASE pc[t] \in {"store", "erase", "getNetwork", "freeLast"} /\ mutex = u
      BY <3>1
    <3>2. CASE pc[t] \in {"freeReplaced", "freeErased", "lockWorkingMem"}
                /\ phase[netPtr[t]] = "loaded" /\ workingMemMutex[netPtr[t]] = u
      <4>1. netPtr[t] \in Networks
        BY <3>2 DEF MemInv, OwnerInv, TypeInv, PointerSteps
      <4> QED
        BY <3>2, <4>1
    <3>3. CASE pc[t] = "freeing" /\ workingMemMutex[loadedNetworks[lastId[t]]] = u
      <4>1. /\ loadedNetworks[lastId[t]] \in Networks
            /\ phase[loadedNetworks[lastId[t]]] = "loaded"
        BY <3>3 DEF MemInv, OwnerInv, TypeInv, TypeOK
      <4> QED
        BY <3>3, <4>1
    <3> QED
      BY <2>1, <3>1, <3>2, <3>3 DEF WaitsFor
  <2>2. ASSUME NEW v \in Threads, NEW w \in Threads, pc[v] \in ExecuteSteps
        PROVE  ~WaitsFor(v, w)
    BY <2>2 DEF WaitsFor
  <2>3. ASSUME NEW t \in Threads, NEW u \in Threads, NEW v \in Threads, NEW w \in Threads,
               WaitsFor(t, u), WaitsFor(u, v)
        PROVE  ~WaitsFor(v, w)
    <3>1. pc[u] \in HoldSteps
      BY <2>1, <2>2, <2>3
    <3>2. pc[v] \in ExecuteSteps
      BY <2>1, <2>3, <3>1
    <3> QED
      BY <2>2, <3>2
  <2> QED
    BY <2>1, <2>3 DEF NoCircularWait
<1> QED
  BY LockInit, LockNext, <1>1, PTL DEF Spec

----------------------------------------------------------------------------
(* Network ids, when loads are serialised.                                 *)

(* The counter is above every id handed out, and the one loading thread    *)
(* that has read it still holds its value, which no client knows yet.      *)
IdInv ==
  /\ TypeInv
  /\ \A t, u \in Threads : Loading(t) /\ Loading(u) => t = u
  /\ \A t \in Threads : pc[t] = "generateWrite" => netId[t] = counter
  /\ \A t \in Threads :
       /\ pc[t] \in LoadSteps \ {"generateRead", "generateWrite"}
            => netId[t] < counter
       /\ pc[t] \in {"generateWrite", "construct", "store"}
            => netId[t] \notin returnedIds
  /\ \A n \in Networks : idOf[n] < counter
  /\ \A id \in returnedIds : id < counter
  /\ UniqueIds

LEMMA IdInit == Init => IdInv
  BY TypeInit DEF Init, IdInv, LoadedNetworkInit, UniqueIds, Loading

LEMMA IdLoad ==
  ASSUME IdInv, "SerialLoads" \in Rules, NEW t \in Threads, LoadStep(t)
  PROVE  IdInv'
<1> USE DEF Goto, Return, Set, Unset, SetPhase, runtimeVars, networkVars,
            memoryVars, queueVars, clVars,
            IdInv, UniqueIds, Loading
<1>0. TypeInv'
  BY TypeLoad
<1> USE <1>0 DEF TypeInv, PointerSteps, TypeOK, LoadedNetworkTypeOK
<1>1. CASE \E n \in Networks : BeginLoad(t, n)
  BY <1>1 DEF BeginLoad, Ready, Loading, Unloading
<1>2. CASE GenerateRead(t)
  BY <1>2 DEF GenerateRead
<1>3. CASE GenerateWrite(t)
  BY <1>3, SMTT(30) DEF GenerateWrite, WriteCounter
<1>4. CASE MakeLoadedNetwork(t)
  BY <1>4 DEF MakeLoadedNetwork
<1>5. CASE MakeLoadedNetworkFails(t)
  BY <1>5 DEF MakeLoadedNetworkFails, ReturnId
<1>6. CASE Store(t)
  BY <1>6 DEF Store
<1>7. CASE FreeReplaced(t)
  BY <1>7 DEF FreeReplaced, FreeUnderMutex, FreeWorkingMemory
<1>8. CASE DestroyReplaced(t)
  BY <1>8 DEF DestroyReplaced, DestroyUnderMutex, Destroy
<1>9. CASE AfterLoad(t)
  BY <1>9 DEF AfterLoad, AfterLoadNetwork, ReturnId
<1> QED
  BY <1>1, <1>2, <1>3, <1>4, <1>5, <1>6, <1>7, <1>8, <1>9 DEF LoadStep

LEMMA IdUnload ==
  ASSUME IdInv, "SerialLoads" \in Rules, NEW t \in Threads, UnloadStep(t)
  PROVE  IdInv'
<1> USE DEF Goto, Return, Set, Unset, SetPhase, runtimeVars, networkVars,
            memoryVars, queueVars, clVars,
            IdInv, UniqueIds, Loading
<1>0. TypeInv'
  BY TypeUnload
<1> USE <1>0 DEF TypeInv, PointerSteps, TypeOK, LoadedNetworkTypeOK
<1>1. CASE \E id \in returnedIds : BeginUnload(t, id)
  BY <1>1 DEF BeginUnload, Ready
<1>2. CASE BeforeUnload(t)
  BY <1>2 DEF BeforeUnload
<1>3. CASE BeforeUnloadFails(t)
  BY <1>3 DEF BeforeUnloadFails
<1>4. CASE EraseNotFound(t)
  BY <1>4 DEF EraseNotFound
<1>5. CASE Erase(t)
  BY <1>5 DEF Erase, EraseTo
<1>6. CASE FreeErased(t)
  BY <1>6 DEF FreeErased, FreeUnderMutex, FreeWorkingMemory
<1>7. CASE DestroyErased(t)
  BY <1>7 DEF DestroyErased, DestroyUnderMutex, Destroy
<1>8. CASE AfterUnload(t)
  BY <1>8, SMTT(30) DEF AfterUnload, AfterUnloadNetwork
<1>9. CASE ClearCache(t)
  BY <1>9 DEF ClearCache, ClearClCache
<1> QED
  BY <1>1, <1>2, <1>3, <1>4, <1>5, <1>6, <1>7, <1>8, <1>9 DEF UnloadStep

LEMMA IdEnqueue ==
  ASSUME IdInv, "SerialLoads" \in Rules, NEW t \in Threads, EnqueueStep(t)
  PROVE  IdInv'
<1> USE DEF Goto, Return, Set, Unset, SetPhase, runtimeVars, networkVars,
            memoryVars, queueVars, clVars,
            IdInv, UniqueIds, Loading
<1>0. TypeInv'
  BY TypeEnqueue
<1> USE <1>0 DEF TypeInv, PointerSteps, TypeOK, LoadedNetworkTypeOK
<1>1. CASE \E id \in returnedIds : BeginEnqueue(t, id)
  BY <1>1 DEF BeginEnqueue, Ready
<1>2. CASE GetNetworkThrows(t)
  BY <1>2 DEF GetNetworkThrows
<1>3. CASE GetNetwork(t)
  BY <1>3 DEF GetNetwork
<1>4. CASE SameNetwork(t)
  BY <1>4 DEF SameNetwork, SetLastId
<1>5. CASE SwitchNetwork(t)
  BY <1>5 DEF SwitchNetwork
<1>6. CASE LastNetworkGone(t)
  BY <1>6 DEF LastNetworkGone, SetLastId
<1>7. CASE FindLastNetwork(t)
  BY <1>7 DEF FindLastNetwork
<1>8. CASE FreeLastNetwork(t)
  BY <1>8 DEF FreeLastNetwork, FreeLastTo, FreeWorkingMemory, SetLastId
<1>9. CASE UseAfterUnload(t)
  BY <1>9 DEF UseAfterUnload
<1>10. CASE EnqueueRejected(t)
  BY <1>10 DEF EnqueueRejected, Using
<1>11. CASE FillInputs(t)
  BY <1>11 DEF FillInputs, Using, BindInputs
<1>12. CASE FillOutputs(t)
  BY <1>12 DEF FillOutputs, Using, BindOutputs
<1>13. CASE FillThrows(t)
  BY <1>13 DEF FillThrows, Using, BindInputs, BindOutputs
<1>14. CASE BeginExecute(t)
  BY <1>14 DEF BeginExecute, Using, LockWorkingMem
<1>15. CASE Allocate(t)
  BY <1>15 DEF Allocate, AllocateWorkingMemory, Using
<1>16. CASE AllocateThrows(t)
  BY <1>16 DEF AllocateThrows, AllocationThrows, Using
<1>17. CASE ExecuteWorkloads(t)
  BY <1>17 DEF ExecuteWorkloads, ExecuteInputsAndWorkloads, Using
<1>18. CASE ExecuteThrows(t)
  BY <1>18 DEF ExecuteThrows, ExecuteOutputs, UnlockWorkingMem, Using
<1>19. CASE FinishExecute(t)
  BY <1>19 DEF FinishExecute, ExecuteOutputs, UnlockWorkingMem, Using
<1> QED
  BY <1>1, <1>2, <1>3, <1>4, <1>5, <1>6, <1>7, <1>8, <1>9, <1>10, <1>11,
        <1>12, <1>13, <1>14, <1>15, <1>16, <1>17, <1>18, <1>19 DEF EnqueueStep

LEMMA IdDestroy ==
  ASSUME IdInv, "SerialLoads" \in Rules, NEW t \in Threads, DestroyStep(t)
  PROVE  IdInv'
<1> USE DEF Goto, Return, Set, Unset, SetPhase, runtimeVars, networkVars,
            memoryVars, queueVars, clVars,
            IdInv, UniqueIds, Loading
<1>0. TypeInv'
  BY TypeDestroy
<1> USE <1>0 DEF TypeInv, PointerSteps, TypeOK, LoadedNetworkTypeOK
<1>1. CASE BeginDestroy(t)
  BY <1>1 DEF BeginDestroy, Ready
<1>2. CASE DestroyNext(t)
  BY <1>2 DEF DestroyNext
<1>3. CASE DestroyContexts(t)
  BY <1>3 DEF DestroyContexts
<1>4. CASE DestroyMembers(t)
  BY <1>4 DEF DestroyMembers
<1> QED
  BY <1>1, <1>2, <1>3, <1>4 DEF DestroyStep

LEMMA IdStutter ==
  ASSUME IdInv, UNCHANGED vars
  PROVE  IdInv'
  BY DEF IdInv, UniqueIds, Loading, TypeInv, PointerSteps, TypeOK,
        LoadedNetworkTypeOK, vars, threadVars, runtimeVars, networkVars,
        memoryVars,
         queueVars, clVars

LEMMA IdNext == "SerialLoads" \in Rules /\ IdInv /\ [Next]_vars => IdInv'
<1> SUFFICES ASSUME "SerialLoads" \in Rules, IdInv, [Next]_vars
             PROVE  IdInv'
  OBVIOUS
<1>1. ASSUME NEW t \in Threads, ThreadStep(t)
      PROVE  IdInv'
  BY <1>1, IdLoad, IdUnload, IdEnqueue, IdDestroy DEF ThreadStep
<1>2. CASE Gone
  BY <1>2, IdStutter DEF Gone
<1>3. CASE UNCHANGED vars
  BY <1>3, IdStutter
<1> QED
  BY <1>1, <1>2, <1>3 DEF Next

(* Clients that load one network at a time get the unique identifiers      *)
(* IRuntime.hpp promises, although GenerateNetworkId takes no lock.        *)
THEOREM SerialLoadsUnique ==
  ASSUME "SerialLoads" \in Rules
  PROVE  Spec => []UniqueIds
<1>1. IdInv => UniqueIds
  BY DEF IdInv
<1>2. IdInv /\ [Next]_vars => IdInv'
  BY IdNext
<1> QED
  BY IdInit, <1>1, <1>2, PTL DEF Spec

----------------------------------------------------------------------------
(* Leaks.  NoNetworkLost is not inductive: the pointer of a call that only *)
(* looks at a network is dropped when the call returns.  The calls that    *)
(* keep a network from being lost are those that own it.                   *)

Owns(t, n) == pc[t] \in OwnSteps /\ netPtr[t] = n

OwnedInv ==
  /\ MemInv
  /\ \A n \in Networks : phase[n] = "loaded" =>
       \/ \E id \in LoadedIds : loadedNetworks[id] = n
       \/ \E t \in Threads : Owns(t, n)
  /\ "acquire" \notin Faults => NoDoubleAcquire

LEMMA OwnedLoad ==
  ASSUME OwnedInv, NEW t \in Threads, LoadStep(t)
  PROVE  OwnedInv'
<1> USE DEF Goto, Return, Set, Unset, SetPhase, runtimeVars, networkVars,
            memoryVars, queueVars, clVars, OwnedInv, Owns, NoDoubleAcquire,
                  MemInv, TypeInv, PointerSteps, TypeOK, LoadedNetworkTypeOK
<1>0. MemInv'
  BY MemLoad DEF OwnedInv
<1> USE <1>0
<1>1. CASE \E n \in Networks : BeginLoad(t, n)
  BY <1>1 DEF BeginLoad, Ready, Loading, Unloading
<1>2. CASE GenerateRead(t)
  BY <1>2 DEF GenerateRead
<1>3. CASE GenerateWrite(t)
  BY <1>3 DEF GenerateWrite, WriteCounter
<1>4. CASE MakeLoadedNetwork(t)
  BY <1>4 DEF MakeLoadedNetwork
<1>5. CASE MakeLoadedNetworkFails(t)
  BY <1>5 DEF MakeLoadedNetworkFails, ReturnId
<1>6. CASE Store(t)
  <2> SUFFICES ASSUME NEW n \in Networks, phase'[n] = "loaded"
               PROVE  \/ \E id \in LoadedIds' : loadedNetworks'[id] = n
                      \/ \E u \in Threads : Owns(u, n)'
    BY <1>6 DEF Store
  <2>0. phase[n] = "loaded"
    BY <1>6 DEF Store
  <2>1. ASSUME NEW id \in LoadedIds, loadedNetworks[id] = n, id # netId[t]
        PROVE  id \in LoadedIds' /\ loadedNetworks'[id] = n
    BY <1>6, <2>1 DEF Store
  <2>2. ASSUME netId[t] \in LoadedIds, loadedNetworks[netId[t]] = n
        PROVE  Owns(t, n)'
    BY <1>6, <2>2 DEF Store
  <2>3. ASSUME NEW u \in Threads, Owns(u, n), u # t
        PROVE  Owns(u, n)'
    BY <1>6, <2>3 DEF Store
  <2>4. ASSUME Owns(t, n)
        PROVE  netId[t] \in LoadedIds' /\ loadedNetworks'[netId[t]] = n
    BY <1>6, <2>4 DEF Store
  <2>5. CASE \E id \in LoadedIds : loadedNetworks[id] = n
    BY <2>1, <2>2, <2>5
  <2>6. CASE \E u \in Threads : Owns(u, n)
    <3>1. PICK u \in Threads : Owns(u, n)
      BY <2>6
    <3>2. CASE u = t
      BY <2>4, <3>1, <3>2
    <3>3. CASE u # t
      BY <2>3, <3>1, <3>3
    <3> QED
      BY <3>2, <3>3
  <2> QED
    BY <2>0, <2>5, <2>6
<1>7. CASE FreeReplaced(t)
  BY <1>7 DEF FreeReplaced, FreeUnderMutex, FreeWorkingMemory
<1>8. CASE DestroyReplaced(t)
  BY <1>8 DEF DestroyReplaced, DestroyUnderMutex, Destroy
<1>9. CASE AfterLoad(t)
  BY <1>9 DEF AfterLoad, AfterLoadNetwork, ReturnId
<1> QED
  BY <1>1, <1>2, <1>3, <1>4, <1>5, <1>6, <1>7, <1>8, <1>9 DEF LoadStep

LEMMA OwnedUnload ==
  ASSUME OwnedInv, NEW t \in Threads, UnloadStep(t)
  PROVE  OwnedInv'
<1> USE DEF Goto, Return, Set, Unset, SetPhase, runtimeVars, networkVars,
            memoryVars, queueVars, clVars, OwnedInv, Owns, NoDoubleAcquire,
                  MemInv, TypeInv, PointerSteps, TypeOK, LoadedNetworkTypeOK
<1>0. MemInv'
  BY MemUnload DEF OwnedInv
<1> USE <1>0
<1>1. CASE \E id \in returnedIds : BeginUnload(t, id)
  BY <1>1 DEF BeginUnload, Ready
<1>2. CASE BeforeUnload(t)
  BY <1>2 DEF BeforeUnload
<1>3. CASE BeforeUnloadFails(t)
  BY <1>3 DEF BeforeUnloadFails
<1>4. CASE EraseNotFound(t)
  BY <1>4 DEF EraseNotFound
<1>5. CASE Erase(t)
  <2> SUFFICES ASSUME NEW n \in Networks, phase'[n] = "loaded"
               PROVE  \/ \E id \in LoadedIds' : loadedNetworks'[id] = n
                      \/ \E u \in Threads : Owns(u, n)'
    BY <1>5 DEF Erase, EraseTo
  <2>0. phase[n] = "loaded"
    BY <1>5 DEF Erase, EraseTo
  <2>1. ASSUME NEW id \in LoadedIds, loadedNetworks[id] = n, id # netId[t]
        PROVE  id \in LoadedIds' /\ loadedNetworks'[id] = n
    BY <1>5, <2>1 DEF Erase, EraseTo
  <2>2. ASSUME netId[t] \in LoadedIds, loadedNetworks[netId[t]] = n
        PROVE  Owns(t, n)'
    BY <1>5, <2>2 DEF Erase, EraseTo
  <2>3. ASSUME NEW u \in Threads, Owns(u, n), u # t
        PROVE  Owns(u, n)'
    BY <1>5, <2>3 DEF Erase, EraseTo
  <2>4. ~Owns(t, n)
    BY <1>5 DEF Erase, EraseTo
  <2> QED
    BY <2>0, <2>1, <2>2, <2>3, <2>4, SMTT(30)
<1>6. CASE FreeErased(t)
  BY <1>6 DEF FreeErased, FreeUnderMutex, FreeWorkingMemory
<1>7. CASE DestroyErased(t)
  BY <1>7 DEF DestroyErased, DestroyUnderMutex, Destroy
<1>8. CASE AfterUnload(t)
  BY <1>8 DEF AfterUnload, AfterUnloadNetwork
<1>9. CASE ClearCache(t)
  BY <1>9 DEF ClearCache, ClearClCache
<1> QED
  BY <1>1, <1>2, <1>3, <1>4, <1>5, <1>6, <1>7, <1>8, <1>9 DEF UnloadStep

LEMMA OwnedEnqueue ==
  ASSUME OwnedInv, NEW t \in Threads, EnqueueStep(t)
  PROVE  OwnedInv'
<1> USE DEF Goto, Return, Set, Unset, SetPhase, runtimeVars, networkVars,
            memoryVars, queueVars, clVars, OwnedInv, Owns, NoDoubleAcquire,
                  MemInv, TypeInv, PointerSteps, TypeOK, LoadedNetworkTypeOK
<1>0. MemInv'
  BY MemEnqueue DEF OwnedInv
<1> USE <1>0
<1>1. CASE \E id \in returnedIds : BeginEnqueue(t, id)
  BY <1>1 DEF BeginEnqueue, Ready
<1>2. CASE GetNetworkThrows(t)
  BY <1>2 DEF GetNetworkThrows
<1>3. CASE GetNetwork(t)
  BY <1>3 DEF GetNetwork
<1>4. CASE SameNetwork(t)
  BY <1>4 DEF SameNetwork, SetLastId
<1>5. CASE SwitchNetwork(t)
  BY <1>5 DEF SwitchNetwork
<1>6. CASE LastNetworkGone(t)
  BY <1>6 DEF LastNetworkGone, SetLastId
<1>7. CASE FindLastNetwork(t)
  BY <1>7 DEF FindLastNetwork
<1>8. CASE FreeLastNetwork(t)
  BY <1>8 DEF FreeLastNetwork, FreeLastTo, FreeWorkingMemory, SetLastId
<1>9. CASE UseAfterUnload(t)
  BY <1>9 DEF UseAfterUnload
<1>10. CASE EnqueueRejected(t)
  BY <1>10 DEF EnqueueRejected, Using
<1>11. CASE FillInputs(t)
  BY <1>11 DEF FillInputs, Using, BindInputs
<1>12. CASE FillOutputs(t)
  BY <1>12 DEF FillOutputs, Using, BindOutputs
<1>13. CASE FillThrows(t)
  BY <1>13 DEF FillThrows, Using, BindInputs, BindOutputs
<1>14. CASE BeginExecute(t)
  BY <1>14 DEF BeginExecute, Using, LockWorkingMem
<1>15. CASE Allocate(t)
  BY <1>15 DEF Allocate, AllocateWorkingMemory, Using
<1>16. CASE AllocateThrows(t)
  BY <1>16 DEF AllocateThrows, AllocationThrows, Using
<1>17. CASE ExecuteWorkloads(t)
  BY <1>17 DEF ExecuteWorkloads, ExecuteInputsAndWorkloads, Using
<1>18. CASE ExecuteThrows(t)
  BY <1>18 DEF ExecuteThrows, ExecuteOutputs, UnlockWorkingMem, Using
<1>19. CASE FinishExecute(t)
  BY <1>19, SMTT(30) DEF FinishExecute, ExecuteOutputs, UnlockWorkingMem, Using
<1> QED
  BY <1>1, <1>2, <1>3, <1>4, <1>5, <1>6, <1>7, <1>8, <1>9, <1>10, <1>11,
        <1>12, <1>13, <1>14, <1>15, <1>16, <1>17, <1>18, <1>19 DEF EnqueueStep

LEMMA OwnedDestroy ==
  ASSUME OwnedInv, NEW t \in Threads, DestroyStep(t)
  PROVE  OwnedInv'
<1> USE DEF Goto, Return, Set, Unset, SetPhase, runtimeVars, networkVars,
            memoryVars, queueVars, clVars, OwnedInv, Owns, NoDoubleAcquire,
                  MemInv, TypeInv, PointerSteps, TypeOK, LoadedNetworkTypeOK
<1>0. MemInv'
  BY MemDestroy DEF OwnedInv
<1> USE <1>0
<1>1. CASE BeginDestroy(t)
  BY <1>1 DEF BeginDestroy, Ready
<1>2. CASE DestroyNext(t)
  BY <1>2 DEF DestroyNext
<1>3. CASE DestroyContexts(t)
  BY <1>3 DEF DestroyContexts
<1>4. CASE DestroyMembers(t)
  <2> SUFFICES ASSUME NEW n \in Networks, phase'[n] = "loaded"
               PROVE  \/ \E id \in LoadedIds' : loadedNetworks'[id] = n
                      \/ \E u \in Threads : Owns(u, n)'
    BY <1>4 DEF DestroyMembers
  <2>1. phase[n] = "loaded" /\ ~(\E id \in LoadedIds : loadedNetworks[id] = n)
    BY <1>4 DEF DestroyMembers
  <2>2. PICK u \in Threads : Owns(u, n)
    BY <2>1
  <2>3. pc[u] \in {"idle", "destroyMembers"}
    BY <1>4 DEF DestroyMembers, DestroyerInv
  <2> QED
    BY <2>2, <2>3
<1> QED
  BY <1>1, <1>2, <1>3, <1>4 DEF DestroyStep

LEMMA OwnedStutter ==
  ASSUME OwnedInv, UNCHANGED vars
  PROVE  OwnedInv'
  BY DEF OwnedInv, Owns, NoDoubleAcquire, MemInv, HeldInv, OwnerInv,
        DestroyerInv, TypeInv, PointerSteps, TypeOK, LoadedNetworkTypeOK,
        vars, threadVars, runtimeVars, networkVars, memoryVars, queueVars,
        clVars

LEMMA OwnedNext ==
  ASSUME OwnedInv, [Next]_vars
  PROVE  OwnedInv'
<1>1. ASSUME NEW t \in Threads, ThreadStep(t)
      PROVE  OwnedInv'
  BY <1>1, OwnedLoad, OwnedUnload, OwnedEnqueue, OwnedDestroy DEF ThreadStep
<1>2. CASE Gone
  BY <1>2, OwnedStutter DEF Gone
<1>3. CASE UNCHANGED vars
  BY <1>3, OwnedStutter
<1> QED
  BY <1>1, <1>2, <1>3 DEF Next

(* Whatever fails and whoever loads, unloads or replaces at the same time, *)
(* a constructed LoadedNetwork is in m_LoadedNetworks or held by the call  *)
(* that stores or destroys it.                                             *)
THEOREM NetworksAreNotLost == Spec => []NoNetworkLost
<1>1. Init => OwnedInv
  BY MemInit DEF OwnedInv, NoDoubleAcquire, Init, LoadedNetworkInit
<1>2. OwnedInv /\ [Next]_vars => OwnedInv'
  BY OwnedNext
<1>3. OwnedInv => NoNetworkLost
  BY DEF OwnedInv, Owns, NoNetworkLost
<1> QED
  BY <1>1, <1>2, <1>3, PTL DEF Spec

(* AllocateWorkingMemory acquires only managers that are released, if no   *)
(* Acquire() throws half-way.                                              *)
THEOREM AcquiredOnce ==
  ASSUME "acquire" \notin Faults
  PROVE  Spec => []NoDoubleAcquire
<1>1. Init => OwnedInv
  BY MemInit DEF OwnedInv, NoDoubleAcquire, Init, LoadedNetworkInit
<1>2. OwnedInv /\ [Next]_vars => OwnedInv'
  BY OwnedNext
<1>3. OwnedInv => NoDoubleAcquire
  BY DEF OwnedInv
<1> QED
  BY <1>1, <1>2, <1>3, PTL DEF Spec

----------------------------------------------------------------------------
(* Raw pointers, when loads are serialised and no client unloads a network *)
(* it uses.                                                                *)

(* Every network in the map is constructed, stored under its own id and    *)
(* not destroyed.                                                          *)
StoredInv ==
  \A id \in LoadedIds :
    idOf[loadedNetworks[id]] = id /\ phase[loadedNetworks[id]] = "loaded"

(* A network that is being loaded has an id of its own and is not yet in   *)
(* the map: nothing is ever replaced.                                      *)
LoadingInv ==
  \A t \in Threads :
    /\ pc[t] \in {"construct", "store"} =>
         netId[t] \notin LoadedIds /\ idOf[netPtr[t]] = netId[t]
    /\ pc[t] = "store" => phase[netPtr[t]] = "loaded"
    /\ pc[t] \notin {"freeReplaced", "destroyReplaced", "undefined"}

(* The network being destroyed has left the map, and nobody loads or       *)
(* enqueues the id that is being unloaded.                                 *)
UnloadingInv ==
  /\ \A id \in pending : id < counter
  /\ \A t \in Threads :
       /\ pc[t] \in {"freeErased", "destroyErased"} =>
            mutex = t /\ netId[t] \notin LoadedIds /\ idOf[netPtr[t]] = netId[t]
       /\ Unloading(t) =>
            /\ netId[t] < counter
            /\ \A u \in Threads :
                 Enqueueing(u) \/ pc[u] \in {"generateWrite", "construct",
                       "store"}
                   => netId[u] # netId[t]

(* A raw pointer a call uses is that of the map.                           *)
UsingInv ==
  \A t \in Threads :
    /\ Enqueueing(t) /\ pc[t] # "getNetwork" =>
         netId[t] \in LoadedIds /\ netPtr[t] = loadedNetworks[netId[t]]
    /\ pc[t] = "freeing" => mutex = t

UseInv ==
  /\ MemInv /\ IdInv
  /\ StoredInv /\ LoadingInv /\ UnloadingInv /\ UsingInv

LEMMA UseLoad ==
  ASSUME UseInv, "SerialLoads" \in Rules, "NoUnloadInUse" \in Rules, NEW t \in
        Threads, LoadStep(t)
  PROVE  UseInv'
<1> USE DEF Goto, Return, Set, Unset, SetPhase, runtimeVars, networkVars,
            memoryVars, queueVars, clVars, UseInv, StoredInv, LoadingInv,
                  UnloadingInv, UsingInv, MemInv, OwnerInv, DestroyerInv,
                  IdInv, UniqueIds, Loading, Unloading, Enqueueing, TypeInv,
                  PointerSteps, TypeOK, LoadedNetworkTypeOK
<1>0. MemInv' /\ IdInv'
  BY MemLoad, IdLoad DEF UseInv
<1> USE <1>0, NoThreadAssumption, NoNetworkAssumption
<1>1. CASE \E n \in Networks : BeginLoad(t, n)
  BY <1>1 DEF BeginLoad, Ready, Loading, Unloading
<1>2. CASE GenerateRead(t)
  BY <1>2 DEF GenerateRead
<1>3. CASE GenerateWrite(t)
  BY <1>3, SMTT(30) DEF GenerateWrite, WriteCounter
<1>4. CASE MakeLoadedNetwork(t)
  BY <1>4 DEF MakeLoadedNetwork
<1>5. CASE MakeLoadedNetworkFails(t)
  BY <1>5, SMTT(30) DEF MakeLoadedNetworkFails, ReturnId
<1>6. CASE Store(t)
  BY <1>6 DEF Store
<1>7. CASE FreeReplaced(t)
  BY <1>7 DEF FreeReplaced, FreeUnderMutex, FreeWorkingMemory
<1>8. CASE DestroyReplaced(t)
  BY <1>8 DEF DestroyReplaced, DestroyUnderMutex, Destroy
<1>9. CASE AfterLoad(t)
  BY <1>9, SMTT(30) DEF AfterLoad, AfterLoadNetwork, ReturnId
<1> QED
  BY <1>1, <1>2, <1>3, <1>4, <1>5, <1>6, <1>7, <1>8, <1>9 DEF LoadStep

LEMMA UseUnload ==
  ASSUME UseInv, "SerialLoads" \in Rules, "NoUnloadInUse" \in Rules, NEW t \in
        Threads, UnloadStep(t)
  PROVE  UseInv'
<1> USE DEF Goto, Return, Set, Unset, SetPhase, runtimeVars, networkVars,
            memoryVars, queueVars, clVars, UseInv, StoredInv, LoadingInv,
                  UnloadingInv, UsingInv, MemInv, OwnerInv, DestroyerInv,
                  IdInv, UniqueIds, Loading, Unloading, Enqueueing, TypeInv,
                  PointerSteps, TypeOK, LoadedNetworkTypeOK
<1>0. MemInv' /\ IdInv'
  BY MemUnload, IdUnload DEF UseInv
<1> USE <1>0, NoThreadAssumption, NoNetworkAssumption
<1>1. CASE \E id \in returnedIds : BeginUnload(t, id)
  BY <1>1 DEF BeginUnload, Ready
<1>2. CASE BeforeUnload(t)
  BY <1>2 DEF BeforeUnload
<1>3. CASE BeforeUnloadFails(t)
  BY <1>3 DEF BeforeUnloadFails
<1>4. CASE EraseNotFound(t)
  BY <1>4 DEF EraseNotFound
<1>5. CASE Erase(t)
  BY <1>5, SMTT(30) DEF Erase, EraseTo
<1>6. CASE FreeErased(t)
  BY <1>6 DEF FreeErased, FreeUnderMutex, FreeWorkingMemory
<1>7. CASE DestroyErased(t)
  BY <1>7, SMTT(30) DEF DestroyErased, DestroyUnderMutex, Destroy
<1>8. CASE AfterUnload(t)
  <2>1. StoredInv' /\ LoadingInv'
    BY <1>8 DEF AfterUnload, AfterUnloadNetwork
  <2>2. UnloadingInv'
    BY <1>8 DEF AfterUnload, AfterUnloadNetwork
  <2>3. UsingInv'
    BY <1>8 DEF AfterUnload, AfterUnloadNetwork
  <2> QED
    BY <2>1, <2>2, <2>3
<1>9. CASE ClearCache(t)
  BY <1>9 DEF ClearCache, ClearClCache
<1> QED
  BY <1>1, <1>2, <1>3, <1>4, <1>5, <1>6, <1>7, <1>8, <1>9 DEF UnloadStep

LEMMA UseEnqueue ==
  ASSUME UseInv, "SerialLoads" \in Rules, "NoUnloadInUse" \in Rules, NEW t \in
        Threads, EnqueueStep(t)
  PROVE  UseInv'
<1> USE DEF Goto, Return, Set, Unset, SetPhase, runtimeVars, networkVars,
            memoryVars, queueVars, clVars, UseInv, StoredInv, LoadingInv,
                  UnloadingInv, UsingInv, MemInv, OwnerInv, DestroyerInv,
                  IdInv, UniqueIds, Loading, Unloading, Enqueueing, TypeInv,
                  PointerSteps, TypeOK, LoadedNetworkTypeOK
<1>0. MemInv' /\ IdInv'
  BY MemEnqueue, IdEnqueue DEF UseInv
<1> USE <1>0, NoThreadAssumption, NoNetworkAssumption
<1>1. CASE \E id \in returnedIds : BeginEnqueue(t, id)
  BY <1>1, SMTT(30) DEF BeginEnqueue, Ready
<1>2. CASE GetNetworkThrows(t)
  BY <1>2, SMTT(30) DEF GetNetworkThrows
<1>3. CASE GetNetwork(t)
  BY <1>3, SMTT(30) DEF GetNetwork
<1>4. CASE SameNetwork(t)
  BY <1>4 DEF SameNetwork, SetLastId
<1>5. CASE SwitchNetwork(t)
  BY <1>5 DEF SwitchNetwork
<1>6. CASE LastNetworkGone(t)
  BY <1>6 DEF LastNetworkGone, SetLastId
<1>7. CASE FindLastNetwork(t)
  BY <1>7 DEF FindLastNetwork
<1>8. CASE FreeLastNetwork(t)
  BY <1>8 DEF FreeLastNetwork, FreeLastTo, FreeWorkingMemory, SetLastId
<1>9. CASE UseAfterUnload(t)
  BY <1>9 DEF UseAfterUnload
<1>10. CASE EnqueueRejected(t)
  BY <1>10 DEF EnqueueRejected, Using
<1>11. CASE FillInputs(t)
  BY <1>11 DEF FillInputs, Using, BindInputs
<1>12. CASE FillOutputs(t)
  BY <1>12 DEF FillOutputs, Using, BindOutputs
<1>13. CASE FillThrows(t)
  BY <1>13 DEF FillThrows, Using, BindInputs, BindOutputs
<1>14. CASE BeginExecute(t)
  BY <1>14 DEF BeginExecute, Using, LockWorkingMem
<1>15. CASE Allocate(t)
  BY <1>15 DEF Allocate, AllocateWorkingMemory, Using
<1>16. CASE AllocateThrows(t)
  <2>1. StoredInv' /\ LoadingInv'
    BY <1>16 DEF AllocateThrows, AllocationThrows, Using
  <2>2. UnloadingInv'
    BY <1>16 DEF AllocateThrows, AllocationThrows, Using
  <2>3. UsingInv'
    BY <1>16 DEF AllocateThrows, AllocationThrows, Using
  <2> QED
    BY <2>1, <2>2, <2>3
<1>17. CASE ExecuteWorkloads(t)
  BY <1>17 DEF ExecuteWorkloads, ExecuteInputsAndWorkloads, Using
<1>18. CASE ExecuteThrows(t)
  BY <1>18 DEF ExecuteThrows, ExecuteOutputs, UnlockWorkingMem, Using
<1>19. CASE FinishExecute(t)
  BY <1>19, SMTT(30) DEF FinishExecute, ExecuteOutputs, UnlockWorkingMem, Using
<1> QED
  BY <1>1, <1>2, <1>3, <1>4, <1>5, <1>6, <1>7, <1>8, <1>9, <1>10, <1>11,
        <1>12, <1>13, <1>14, <1>15, <1>16, <1>17, <1>18, <1>19 DEF EnqueueStep

LEMMA UseDestroy ==
  ASSUME UseInv, "SerialLoads" \in Rules, "NoUnloadInUse" \in Rules, NEW t \in
        Threads, DestroyStep(t)
  PROVE  UseInv'
<1> USE DEF Goto, Return, Set, Unset, SetPhase, runtimeVars, networkVars,
            memoryVars, queueVars, clVars, UseInv, StoredInv, LoadingInv,
                  UnloadingInv, UsingInv, MemInv, OwnerInv, DestroyerInv,
                  IdInv, UniqueIds, Loading, Unloading, Enqueueing, TypeInv,
                  PointerSteps, TypeOK, LoadedNetworkTypeOK
<1>0. MemInv' /\ IdInv'
  BY MemDestroy, IdDestroy DEF UseInv
<1> USE <1>0, NoThreadAssumption, NoNetworkAssumption
<1>1. CASE BeginDestroy(t)
  BY <1>1 DEF BeginDestroy, Ready
<1>2. CASE DestroyNext(t)
  BY <1>2 DEF DestroyNext
<1>3. CASE DestroyContexts(t)
  BY <1>3 DEF DestroyContexts
<1>4. CASE DestroyMembers(t)
  BY <1>4 DEF DestroyMembers
<1> QED
  BY <1>1, <1>2, <1>3, <1>4 DEF DestroyStep

LEMMA UseStutter ==
  ASSUME UseInv, UNCHANGED vars
  PROVE  UseInv'
  BY DEF UseInv, StoredInv, LoadingInv, UnloadingInv, UsingInv, MemInv,
        HeldInv, OwnerInv, DestroyerInv, IdInv, UniqueIds, Loading, Unloading,
        Enqueueing, TypeInv, PointerSteps, TypeOK, LoadedNetworkTypeOK, vars,
        threadVars, runtimeVars, networkVars, memoryVars, queueVars, clVars

LEMMA UseNext ==
  ASSUME UseInv, "SerialLoads" \in Rules, "NoUnloadInUse" \in Rules, [Next]_vars
  PROVE  UseInv'
<1>1. ASSUME NEW t \in Threads, ThreadStep(t)
      PROVE  UseInv'
  BY <1>1, UseLoad, UseUnload, UseEnqueue, UseDestroy DEF ThreadStep
<1>2. CASE Gone
  BY <1>2, UseStutter DEF Gone
<1>3. CASE UNCHANGED vars
  BY <1>3, UseStutter
<1> QED
  BY <1>1, <1>2, <1>3 DEF Next

(* No LoadedNetwork is destroyed after GetLoadedNetworkPtr dropped m_Mutex *)
(* and before the call that asked for it is over, its wait for the mutex of*)
(* the network and its inference included, if clients load one network at a*)
(* time and do not unload a network while they use it.                     *)
THEOREM PointersStayValid ==
  ASSUME "SerialLoads" \in Rules, "NoUnloadInUse" \in Rules
  PROVE  Spec => []NoUseAfterUnload
<1>1. Init => UseInv
  BY MemInit, IdInit DEF UseInv, StoredInv, LoadingInv, UnloadingInv, UsingInv,
     Init, Unloading, Enqueueing
<1>2. UseInv /\ [Next]_vars => UseInv'
  BY UseNext
<1>3. UseInv => NoUseAfterUnload
  <2>1. ASSUME UseInv, NEW t \in Threads, pc[t] \in UseSteps \cup ExecuteSteps
        PROVE  phase[netPtr[t]] = "loaded"
    <3>1. netId[t] \in LoadedIds /\ netPtr[t] = loadedNetworks[netId[t]]
      BY <2>1 DEF UseInv, UsingInv, Enqueueing
    <3> QED
      BY <2>1, <3>1 DEF UseInv, StoredInv
  <2> QED
    BY <2>1 DEF UseInv, LoadingInv, NoUseAfterUnload
<1> QED
  BY <1>1, <1>2, <1>3, PTL DEF Spec

----------------------------------------------------------------------------
(* Working memory, under the same rules.                                   *)

(* The thread's last network is the one it is about to run, and memory is  *)
(* allocated for stored networks only.                                     *)
CurrentInv ==
  /\ UseInv
  /\ WorkingMemoryIsCurrent
  /\ \A t \in Threads :
       /\ pc[t] \in UseSteps \cup ExecuteSteps => lastId[t] = netId[t]
       /\ pc[t] = "store" => ~isWorkingMemAllocated[netPtr[t]]
  /\ \A n \in Networks :
       phase[n] \in {"optimized", "building"} => ~isWorkingMemAllocated[n]

LEMMA CurrentLoad ==
  ASSUME CurrentInv, "SerialLoads" \in Rules, "NoUnloadInUse" \in Rules, NEW t
        \in Threads, LoadStep(t)
  PROVE  CurrentInv'
<1> USE DEF Goto, Return, Set, Unset, SetPhase, runtimeVars, networkVars,
            memoryVars, queueVars, clVars, CurrentInv, WorkingMemoryIsCurrent,
                  UseInv, StoredInv, LoadingInv, UnloadingInv, UsingInv,
                  MemInv, OwnerInv, DestroyerInv, Unloading, Enqueueing,
                  TypeInv, PointerSteps, TypeOK, LoadedNetworkTypeOK
<1>0. UseInv'
  BY UseLoad DEF CurrentInv
<1> USE <1>0, NoThreadAssumption, NoNetworkAssumption
<1>1. CASE \E n \in Networks : BeginLoad(t, n)
  BY <1>1 DEF BeginLoad, Ready, Loading, Unloading
<1>2. CASE GenerateRead(t)
  BY <1>2 DEF GenerateRead
<1>3. CASE GenerateWrite(t)
  BY <1>3 DEF GenerateWrite, WriteCounter
<1>4. CASE MakeLoadedNetwork(t)
  BY <1>4 DEF MakeLoadedNetwork
<1>5. CASE MakeLoadedNetworkFails(t)
  BY <1>5 DEF MakeLoadedNetworkFails, ReturnId
<1>6. CASE Store(t)
  BY <1>6 DEF Store
<1>7. CASE FreeReplaced(t)
  BY <1>7 DEF FreeReplaced, FreeUnderMutex, FreeWorkingMemory
<1>8. CASE DestroyReplaced(t)
  BY <1>8 DEF DestroyReplaced, DestroyUnderMutex, Destroy
<1>9. CASE AfterLoad(t)
  BY <1>9 DEF AfterLoad, AfterLoadNetwork, ReturnId
<1> QED
  BY <1>1, <1>2, <1>3, <1>4, <1>5, <1>6, <1>7, <1>8, <1>9 DEF LoadStep

LEMMA CurrentUnload ==
  ASSUME CurrentInv, "SerialLoads" \in Rules, "NoUnloadInUse" \in Rules, NEW t
        \in Threads, UnloadStep(t)
  PROVE  CurrentInv'
<1> USE DEF Goto, Return, Set, Unset, SetPhase, runtimeVars, networkVars,
            memoryVars, queueVars, clVars, CurrentInv, WorkingMemoryIsCurrent,
                  UseInv, StoredInv, LoadingInv, UnloadingInv, UsingInv,
                  MemInv, OwnerInv, DestroyerInv, Unloading, Enqueueing,
                  TypeInv, PointerSteps, TypeOK, LoadedNetworkTypeOK
<1>0. UseInv'
  BY UseUnload DEF CurrentInv
<1> USE <1>0, NoThreadAssumption, NoNetworkAssumption
<1>1. CASE \E id \in returnedIds : BeginUnload(t, id)
  BY <1>1 DEF BeginUnload, Ready
<1>2. CASE BeforeUnload(t)
  BY <1>2 DEF BeforeUnload
<1>3. CASE BeforeUnloadFails(t)
  BY <1>3 DEF BeforeUnloadFails
<1>4. CASE EraseNotFound(t)
  BY <1>4 DEF EraseNotFound
<1>5. CASE Erase(t)
  BY <1>5 DEF Erase, EraseTo
<1>6. CASE FreeErased(t)
  BY <1>6 DEF FreeErased, FreeUnderMutex, FreeWorkingMemory
<1>7. CASE DestroyErased(t)
  BY <1>7 DEF DestroyErased, DestroyUnderMutex, Destroy
<1>8. CASE AfterUnload(t)
  BY <1>8 DEF AfterUnload, AfterUnloadNetwork
<1>9. CASE ClearCache(t)
  BY <1>9 DEF ClearCache, ClearClCache
<1> QED
  BY <1>1, <1>2, <1>3, <1>4, <1>5, <1>6, <1>7, <1>8, <1>9 DEF UnloadStep

LEMMA CurrentEnqueue ==
  ASSUME CurrentInv, "SerialLoads" \in Rules, "NoUnloadInUse" \in Rules, NEW t
        \in Threads, EnqueueStep(t)
  PROVE  CurrentInv'
<1> USE DEF Goto, Return, Set, Unset, SetPhase, runtimeVars, networkVars,
            memoryVars, queueVars, clVars, CurrentInv, WorkingMemoryIsCurrent,
                  UseInv, StoredInv, LoadingInv, UnloadingInv, UsingInv,
                  MemInv, OwnerInv, DestroyerInv, Unloading, Enqueueing,
                  TypeInv, PointerSteps, TypeOK, LoadedNetworkTypeOK
<1>0. UseInv'
  BY UseEnqueue DEF CurrentInv
<1> USE <1>0, NoThreadAssumption, NoNetworkAssumption
<1>1. CASE \E id \in returnedIds : BeginEnqueue(t, id)
  BY <1>1 DEF BeginEnqueue, Ready
<1>2. CASE GetNetworkThrows(t)
  BY <1>2 DEF GetNetworkThrows
<1>3. CASE GetNetwork(t)
  BY <1>3 DEF GetNetwork
<1>4. CASE SameNetwork(t)
  BY <1>4 DEF SameNetwork, SetLastId
<1>5. CASE SwitchNetwork(t)
  BY <1>5 DEF SwitchNetwork
<1>6. CASE LastNetworkGone(t)
  BY <1>6 DEF LastNetworkGone, SetLastId
<1>7. CASE FindLastNetwork(t)
  BY <1>7 DEF FindLastNetwork
<1>8. CASE FreeLastNetwork(t)
  BY <1>8 DEF FreeLastNetwork, FreeLastTo, FreeWorkingMemory, SetLastId
<1>9. CASE UseAfterUnload(t)
  BY <1>9 DEF UseAfterUnload
<1>10. CASE EnqueueRejected(t)
  BY <1>10 DEF EnqueueRejected, Using
<1>11. CASE FillInputs(t)
  BY <1>11 DEF FillInputs, Using, BindInputs
<1>12. CASE FillOutputs(t)
  BY <1>12 DEF FillOutputs, Using, BindOutputs
<1>13. CASE FillThrows(t)
  BY <1>13 DEF FillThrows, Using, BindInputs, BindOutputs
<1>14. CASE BeginExecute(t)
  BY <1>14 DEF BeginExecute, Using, LockWorkingMem
<1>15. CASE Allocate(t)
  BY <1>15 DEF Allocate, AllocateWorkingMemory, Using
<1>16. CASE AllocateThrows(t)
  BY <1>16 DEF AllocateThrows, AllocationThrows, Using
<1>17. CASE ExecuteWorkloads(t)
  BY <1>17 DEF ExecuteWorkloads, ExecuteInputsAndWorkloads, Using
<1>18. CASE ExecuteThrows(t)
  BY <1>18 DEF ExecuteThrows, ExecuteOutputs, UnlockWorkingMem, Using
<1>19. CASE FinishExecute(t)
  BY <1>19 DEF FinishExecute, ExecuteOutputs, UnlockWorkingMem, Using
<1> QED
  BY <1>1, <1>2, <1>3, <1>4, <1>5, <1>6, <1>7, <1>8, <1>9, <1>10, <1>11,
        <1>12, <1>13, <1>14, <1>15, <1>16, <1>17, <1>18, <1>19 DEF EnqueueStep

LEMMA CurrentDestroy ==
  ASSUME CurrentInv, "SerialLoads" \in Rules, "NoUnloadInUse" \in Rules, NEW t
        \in Threads, DestroyStep(t)
  PROVE  CurrentInv'
<1> USE DEF Goto, Return, Set, Unset, SetPhase, runtimeVars, networkVars,
            memoryVars, queueVars, clVars, CurrentInv, WorkingMemoryIsCurrent,
                  UseInv, StoredInv, LoadingInv, UnloadingInv, UsingInv,
                  MemInv, OwnerInv, DestroyerInv, Unloading, Enqueueing,
                  TypeInv, PointerSteps, TypeOK, LoadedNetworkTypeOK
<1>0. UseInv'
  BY UseDestroy DEF CurrentInv
<1> USE <1>0, NoThreadAssumption, NoNetworkAssumption
<1>1. CASE BeginDestroy(t)
  BY <1>1 DEF BeginDestroy, Ready
<1>2. CASE DestroyNext(t)
  BY <1>2 DEF DestroyNext
<1>3. CASE DestroyContexts(t)
  BY <1>3 DEF DestroyContexts
<1>4. CASE DestroyMembers(t)
  BY <1>4 DEF DestroyMembers
<1> QED
  BY <1>1, <1>2, <1>3, <1>4 DEF DestroyStep

LEMMA CurrentStutter ==
  ASSUME CurrentInv, UNCHANGED vars
  PROVE  CurrentInv'
  BY DEF CurrentInv, WorkingMemoryIsCurrent, UseInv, StoredInv, LoadingInv,
        UnloadingInv, UsingInv, MemInv, HeldInv, OwnerInv, DestroyerInv,
        IdInv, UniqueIds, Loading, Unloading, Enqueueing, TypeInv,
        PointerSteps, TypeOK, LoadedNetworkTypeOK, vars, threadVars,
        runtimeVars, networkVars, memoryVars, queueVars, clVars

LEMMA CurrentNext ==
  ASSUME CurrentInv, "SerialLoads" \in Rules, "NoUnloadInUse" \in Rules,
        [Next]_vars
  PROVE  CurrentInv'
<1>1. ASSUME NEW t \in Threads, ThreadStep(t)
      PROVE  CurrentInv'
  BY <1>1, CurrentLoad, CurrentUnload, CurrentEnqueue, CurrentDestroy DEF
        ThreadStep
<1>2. CASE Gone
  BY <1>2, CurrentStutter DEF Gone
<1>3. CASE UNCHANGED vars
  BY <1>3, CurrentStutter
<1> QED
  BY <1>1, <1>2, <1>3 DEF Next

(* Runtime::EnqueueWorkload frees the memory of the network a thread used  *)
(* last: no loaded network holds working memory that is not the last one   *)
(* of some thread.                                                         *)
THEOREM MemoryFollowsThreads ==
  ASSUME "SerialLoads" \in Rules, "NoUnloadInUse" \in Rules
  PROVE  Spec => []WorkingMemoryIsCurrent
<1>1. Init => CurrentInv
  BY MemInit, IdInit DEF CurrentInv, UseInv, StoredInv, LoadingInv,
     UnloadingInv, UsingInv, Init, LoadedNetworkInit, Unloading, Enqueueing,
     WorkingMemoryIsCurrent
<1>2. CurrentInv /\ [Next]_vars => CurrentInv'
  BY CurrentNext
<1>3. CurrentInv => WorkingMemoryIsCurrent
  BY DEF CurrentInv
<1> QED
  BY <1>1, <1>2, <1>3, PTL DEF Spec

----------------------------------------------------------------------------
(* The queues of a network are rebuilt with no lock held; while no other   *)
(* call enqueues its id they stay those of the call that built them.       *)

ResultInv ==
  /\ UseInv
  /\ \A t, u \in Threads :
       Enqueueing(t) /\ Enqueueing(u) /\ netId[t] = netId[u] => t = u
  /\ \A t \in Threads :
       /\ pc[t] \in {"fillOutputs", "lockWorkingMem"} \cup ExecuteSteps
            => inputQueue[netPtr[t]] = t
       /\ pc[t] \in {"lockWorkingMem"} \cup ExecuteSteps
            => outputQueue[netPtr[t]] = t
       /\ pc[t] = "executeOutputs" => tensors[netPtr[t]] = t

(* Two calls never hold one LoadedNetwork*.                                *)
LEMMA PointersApart ==
  ASSUME ResultInv, NEW t \in Threads, NEW u \in Threads, u # t,
         Enqueueing(t), pc[t] # "getNetwork", Enqueueing(u), pc[u] #
              "getNetwork"
  PROVE  netPtr[t] # netPtr[u]
BY DEF ResultInv, UseInv, UsingInv, StoredInv

LEMMA ResultLoad ==
  ASSUME ResultInv, "SerialLoads" \in Rules, "NoUnloadInUse" \in Rules,
       "OneInference" \in Rules, NEW t \in Threads, LoadStep(t)
  PROVE  ResultInv'
<1> USE DEF Goto, Return, SetPhase, runtimeVars, networkVars, memoryVars,
     queueVars, clVars
<1>0. UseInv'
  BY UseLoad DEF ResultInv
<1> USE <1>0, NoThreadAssumption, NoNetworkAssumption
       DEF ResultInv, UseInv, LoadingInv, Enqueueing, MemInv, DestroyerInv,
            TypeInv, PointerSteps, TypeOK, LoadedNetworkTypeOK
<1>1. CASE \E n \in Networks : BeginLoad(t, n)
  BY <1>1 DEF BeginLoad, Ready, Loading, Unloading
<1>2. CASE GenerateRead(t)
  BY <1>2 DEF GenerateRead
<1>3. CASE GenerateWrite(t)
  BY <1>3 DEF GenerateWrite, WriteCounter
<1>4. CASE MakeLoadedNetwork(t)
  BY <1>4 DEF MakeLoadedNetwork
<1>5. CASE MakeLoadedNetworkFails(t)
  BY <1>5 DEF MakeLoadedNetworkFails, ReturnId
<1>6. CASE Store(t)
  BY <1>6 DEF Store
<1>7. CASE FreeReplaced(t)
  BY <1>7 DEF FreeReplaced, FreeUnderMutex, FreeWorkingMemory
<1>8. CASE DestroyReplaced(t)
  BY <1>8 DEF DestroyReplaced, DestroyUnderMutex, Destroy
<1>9. CASE AfterLoad(t)
  BY <1>9 DEF AfterLoad, AfterLoadNetwork, ReturnId
<1> QED
  BY <1>1, <1>2, <1>3, <1>4, <1>5, <1>6, <1>7, <1>8, <1>9 DEF LoadStep

LEMMA ResultUnload ==
  ASSUME ResultInv, "SerialLoads" \in Rules, "NoUnloadInUse" \in Rules,
       "OneInference" \in Rules, NEW t \in Threads, UnloadStep(t)
  PROVE  ResultInv'
<1> USE DEF Goto, Return, SetPhase, runtimeVars, networkVars, memoryVars,
     queueVars, clVars
<1>0. UseInv'
  BY UseUnload DEF ResultInv
<1> USE <1>0, NoThreadAssumption, NoNetworkAssumption
       DEF ResultInv, UseInv, LoadingInv, Enqueueing, MemInv, DestroyerInv,
            TypeInv, PointerSteps, TypeOK, LoadedNetworkTypeOK
<1>1. CASE \E id \in returnedIds : BeginUnload(t, id)
  BY <1>1 DEF BeginUnload, Ready
<1>2. CASE BeforeUnload(t)
  BY <1>2 DEF BeforeUnload
<1>3. CASE BeforeUnloadFails(t)
  BY <1>3 DEF BeforeUnloadFails
<1>4. CASE EraseNotFound(t)
  BY <1>4 DEF EraseNotFound
<1>5. CASE Erase(t)
  BY <1>5 DEF Erase, EraseTo
<1>6. CASE FreeErased(t)
  BY <1>6 DEF FreeErased, FreeUnderMutex, FreeWorkingMemory
<1>7. CASE DestroyErased(t)
  BY <1>7 DEF DestroyErased, DestroyUnderMutex, Destroy
<1>8. CASE AfterUnload(t)
  <2>1. /\ pc' = [pc EXCEPT ![t] = pc'[t]] /\ pc[t] \notin EnqueueSteps
        /\ pc'[t] \in {"clearCache", "destroyNext", "idle"}
    BY <1>8 DEF AfterUnload
  <2>2. /\ UNCHANGED <<inputQueue, outputQueue, tensors>>
        /\ \A u \in Threads \ {t} : netId'[u] = netId[u] /\ netPtr'[u] = netPtr[u]
    BY <1>8 DEF AfterUnload
  <2>3. \A u \in Threads : pc'[u] \in EnqueueSteps => u # t /\ pc[u] = pc'[u]
    BY <2>1
  <2> QED
    BY <2>2, <2>3
<1>9. CASE ClearCache(t)
  BY <1>9 DEF ClearCache, ClearClCache
<1> QED
  BY <1>1, <1>2, <1>3, <1>4, <1>5, <1>6, <1>7, <1>8, <1>9 DEF UnloadStep

LEMMA ResultEnqueue ==
  ASSUME ResultInv, "SerialLoads" \in Rules, "NoUnloadInUse" \in Rules,
       "OneInference" \in Rules, NEW t \in Threads, EnqueueStep(t)
  PROVE  ResultInv'
<1> USE DEF Goto, Return, SetPhase, runtimeVars, networkVars, memoryVars,
     queueVars, clVars
<1>0. UseInv'
  BY UseEnqueue DEF ResultInv
<1>00. \A u \in Threads \ {t} :
         Enqueueing(t) /\ pc[t] # "getNetwork" /\ Enqueueing(u) /\ pc[u] #
              "getNetwork"
           => netPtr[t] # netPtr[u]
  BY PointersApart
<1> USE <1>00
<1> USE <1>0, NoThreadAssumption, NoNetworkAssumption
       DEF ResultInv, UseInv, LoadingInv, Enqueueing, MemInv, DestroyerInv,
            TypeInv, PointerSteps, TypeOK, LoadedNetworkTypeOK
<1>1. CASE \E id \in returnedIds : BeginEnqueue(t, id)
  BY <1>1 DEF BeginEnqueue, Ready
<1>2. CASE GetNetworkThrows(t)
  BY <1>2 DEF GetNetworkThrows
<1>3. CASE GetNetwork(t)
  BY <1>3 DEF GetNetwork
<1>4. CASE SameNetwork(t)
  BY <1>4 DEF SameNetwork, SetLastId
<1>5. CASE SwitchNetwork(t)
  BY <1>5 DEF SwitchNetwork
<1>6. CASE LastNetworkGone(t)
  BY <1>6 DEF LastNetworkGone, SetLastId
<1>7. CASE FindLastNetwork(t)
  BY <1>7 DEF FindLastNetwork
<1>8. CASE FreeLastNetwork(t)
  BY <1>8 DEF FreeLastNetwork, FreeLastTo, FreeWorkingMemory, SetLastId
<1>9. CASE UseAfterUnload(t)
  BY <1>9 DEF UseAfterUnload
<1>10. CASE EnqueueRejected(t)
  BY <1>10 DEF EnqueueRejected, Using
<1>11. CASE FillInputs(t)
  BY <1>11 DEF FillInputs, Using, BindInputs
<1>12. CASE FillOutputs(t)
  BY <1>12 DEF FillOutputs, Using, BindOutputs
<1>13. CASE FillThrows(t)
  BY <1>13 DEF FillThrows, Using, BindInputs, BindOutputs
<1>14. CASE BeginExecute(t)
  BY <1>14 DEF BeginExecute, Using, LockWorkingMem
<1>15. CASE Allocate(t)
  BY <1>15 DEF Allocate, AllocateWorkingMemory, Using
<1>16. CASE AllocateThrows(t)
  BY <1>16 DEF AllocateThrows, AllocationThrows, Using
<1>17. CASE ExecuteWorkloads(t)
  BY <1>17 DEF ExecuteWorkloads, ExecuteInputsAndWorkloads, Using
<1>18. CASE ExecuteThrows(t)
  BY <1>18 DEF ExecuteThrows, ExecuteOutputs, UnlockWorkingMem, Using
<1>19. CASE FinishExecute(t)
  BY <1>19 DEF FinishExecute, ExecuteOutputs, UnlockWorkingMem, Using
<1> QED
  BY <1>1, <1>2, <1>3, <1>4, <1>5, <1>6, <1>7, <1>8, <1>9, <1>10, <1>11, <1>12,
       <1>13, <1>14, <1>15, <1>16, <1>17, <1>18, <1>19 DEF EnqueueStep

LEMMA ResultDestroy ==
  ASSUME ResultInv, "SerialLoads" \in Rules, "NoUnloadInUse" \in Rules,
       "OneInference" \in Rules, NEW t \in Threads, DestroyStep(t)
  PROVE  ResultInv'
<1> USE DEF Goto, Return, SetPhase, runtimeVars, networkVars, memoryVars,
     queueVars, clVars
<1>0. UseInv'
  BY UseDestroy DEF ResultInv
<1> USE <1>0, NoThreadAssumption, NoNetworkAssumption
       DEF ResultInv, UseInv, LoadingInv, Enqueueing, MemInv, DestroyerInv,
            TypeInv, PointerSteps, TypeOK, LoadedNetworkTypeOK
<1>1. CASE BeginDestroy(t)
  BY <1>1 DEF BeginDestroy, Ready
<1>2. CASE DestroyNext(t)
  BY <1>2 DEF DestroyNext
<1>3. CASE DestroyContexts(t)
  BY <1>3 DEF DestroyContexts
<1>4. CASE DestroyMembers(t)
  BY <1>4 DEF DestroyMembers
<1> QED
  BY <1>1, <1>2, <1>3, <1>4 DEF DestroyStep

LEMMA ResultStutter ==
  ASSUME ResultInv, UNCHANGED vars
  PROVE  ResultInv'
<1>1. UseInv'
  BY UseStutter DEF ResultInv
<1> QED
  BY <1>1 DEF ResultInv, Enqueueing, vars, threadVars, runtimeVars,
       networkVars, queueVars

LEMMA ResultNext ==
  ASSUME ResultInv, "SerialLoads" \in Rules, "NoUnloadInUse" \in Rules,
       "OneInference" \in Rules, [Next]_vars
  PROVE  ResultInv'
<1>1. ASSUME NEW t \in Threads, ThreadStep(t)
      PROVE  ResultInv'
  BY <1>1, ResultLoad, ResultUnload, ResultEnqueue, ResultDestroy DEF
       ThreadStep
<1>2. CASE Gone
  BY <1>2, ResultStutter DEF Gone
<1>3. CASE UNCHANGED vars
  BY <1>3, ResultStutter
<1> QED
  BY <1>1, <1>2, <1>3 DEF Next

(* A successful EnqueueWorkload fills the caller's buffers from the         *)
(* caller's own inputs, although both queues are rebuilt outside the lock. *)
THEOREM CallersGetTheirResults ==
  ASSUME "SerialLoads" \in Rules, "NoUnloadInUse" \in Rules, "OneInference" \in
       Rules
  PROVE  Spec => ResultsAreOwn
<1>1. Init => ResultInv
  BY MemInit, IdInit DEF ResultInv, UseInv, StoredInv, LoadingInv,
       UnloadingInv, UsingInv, Init, Unloading, Enqueueing
<1>2. ResultInv /\ [Next]_vars => ResultInv'
  BY ResultNext
<1>3. ASSUME ResultInv, NEW t \in Threads, FinishExecute(t)
      PROVE  outputs'[t] = t
  BY <1>3 DEF FinishExecute, Using, ExecuteOutputs, ResultInv
<1>4. ResultInv /\ [Next]_vars
        => [\A t \in Threads : FinishExecute(t) => outputs'[t] = t]_vars
  BY <1>3
<1> QED
  BY <1>1, <1>2, <1>4, PTL DEF Spec, ResultsAreOwn
=============================================================================
