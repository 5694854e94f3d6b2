------------------------ MODULE RuntimeRefinement ------------------------
(***************************************************************************)
(* Runtime.tla implements NetworkRegistry.tla, for every set of threads,   *)
(* networks and memory managers, when loads are serialised and no client   *)
(* unloads a network it uses.                                              *)
(***************************************************************************)
EXTENDS RuntimeProofs

USE DEF NoId, LoadedIds, Steps, LoadSteps, UnloadSteps, EnqueueSteps,
     FindSteps,
        UseSteps, ExecuteSteps, DestroySteps

----------------------------------------------------------------------------
(* The steps that do not move an id: what StatusOf looks at stays.         *)

Constructing(t) == pc[t] \in {"construct", "store"}

Quiet ==
  /\ UNCHANGED <<loadedNetworks, alive, idOf>>
  /\ \A u \in Threads :
       /\ Constructing(u)' = Constructing(u)
       /\ Constructing(u) => netId'[u] = netId[u]

LEMMA QuietLoad ==
  ASSUME UseInv, NEW t \in Threads, LoadStep(t), ~GenerateWrite(t),
       ~MakeLoadedNetworkFails(t), ~Store(t)
  PROVE  Quiet
<1> USE DEF Quiet, Constructing, Goto, Return, runtimeVars, networkVars,
     clVars,
            UseInv, LoadingInv, MemInv, TypeInv, TypeOK
<1>1. CASE \E n \in Networks : BeginLoad(t, n)
  BY <1>1 DEF BeginLoad, Ready, Loading, Unloading
<1>2. CASE GenerateRead(t)
  BY <1>2 DEF GenerateRead
<1>3. CASE MakeLoadedNetwork(t)
  BY <1>3 DEF MakeLoadedNetwork
<1>4. CASE FreeReplaced(t)
  BY <1>4 DEF FreeReplaced, FreeUnderMutex, FreeWorkingMemory
<1>5. CASE DestroyReplaced(t)
  BY <1>5 DEF DestroyReplaced, DestroyUnderMutex, Destroy
<1>6. CASE AfterLoad(t)
  BY <1>6 DEF AfterLoad, AfterLoadNetwork, ReturnId
<1> QED
  BY <1>1, <1>2, <1>3, <1>4, <1>5, <1>6 DEF LoadStep

LEMMA QuietUnload ==
  ASSUME UseInv, NEW t \in Threads, UnloadStep(t), ~Erase(t)
  PROVE  Quiet
<1> USE DEF Quiet, Constructing, Goto, Return, runtimeVars, networkVars,
     clVars,
            UseInv, LoadingInv, MemInv, TypeInv, TypeOK
<1>1. CASE \E id \in returnedIds : BeginUnload(t, id)
  BY <1>1 DEF BeginUnload, Ready
<1>2. CASE BeforeUnload(t)
  BY <1>2 DEF BeforeUnload
<1>3. CASE BeforeUnloadFails(t)
  BY <1>3 DEF BeforeUnloadFails
<1>4. CASE EraseNotFound(t)
  BY <1>4 DEF EraseNotFound
<1>5. CASE FreeErased(t)
  BY <1>5 DEF FreeErased, FreeUnderMutex, FreeWorkingMemory
<1>6. CASE DestroyErased(t)
  BY <1>6 DEF DestroyErased, DestroyUnderMutex, Destroy
<1>7. CASE AfterUnload(t)
  BY <1>7 DEF AfterUnload, AfterUnloadNetwork
<1>8. CASE ClearCache(t)
  BY <1>8 DEF ClearCache, ClearClCache
<1> QED
  BY <1>1, <1>2, <1>3, <1>4, <1>5, <1>6, <1>7, <1>8 DEF UnloadStep

LEMMA QuietEnqueue ==
  ASSUME UseInv, NEW t \in Threads, EnqueueStep(t)
  PROVE  Quiet
<1> USE DEF Quiet, Constructing, Goto, Return, runtimeVars, networkVars,
     clVars,
            UseInv, LoadingInv, MemInv, TypeInv, TypeOK
<1>1. CASE \E id \in returnedIds : BeginEnqueue(t, id)
  BY <1>1 DEF BeginEnqueue, Ready
<1>2. CASE GetNetworkThrows(t)
  BY <1>2 DEF GetNetworkThrows
<1>3. CASE GetNetwork(t)
  BY <1>3 DEF GetNetwork
<1>4. CASE SameNetwork(t)
  BY <1>4 DEF SameNetwork, SetLastId
<1>5. CASE SwitchNetwork(t)
  BY <1>5 DEF SwitchNetwork
<1>6. CASE LastNetworkGone(t)
  BY <1>6 DEF LastNetworkGone, SetLastId
<1>7. CASE FindLastNetwork(t)
  BY <1>7 DEF FindLastNetwork
<1>8. CASE FreeLastNetwork(t)
  BY <1>8 DEF FreeLastNetwork, FreeLastTo, FreeWorkingMemory, SetLastId
<1>9. CASE UseAfterUnload(t)
  BY <1>9 DEF UseAfterUnload
<1>10. CASE EnqueueRejected(t)
  BY <1>10 DEF EnqueueRejected, Using
<1>11. CASE FillInputs(t)
  BY <1>11 DEF FillInputs, Using, BindInputs
<1>12. CASE FillOutputs(t)
  BY <1>12 DEF FillOutputs, Using, BindOutputs
<1>13. CASE FillThrows(t)
  BY <1>13 DEF FillThrows, Using, BindInputs, BindOutputs
<1>14. CASE BeginExecute(t)
  BY <1>14 DEF BeginExecute, Using, LockWorkingMem
<1>15. CASE Allocate(t)
  BY <1>15 DEF Allocate, AllocateWorkingMemory, Using
<1>16. CASE AllocateThrows(t)
  BY <1>16 DEF AllocateThrows, AllocationThrows, Using
<1>17. CASE ExecuteWorkloads(t)
  BY <1>17 DEF ExecuteWorkloads, ExecuteInputsAndWorkloads, Using
<1>18. CASE ExecuteThrows(t)
  BY <1>18 DEF ExecuteThrows, ExecuteOutputs, UnlockWorkingMem, Using
<1>19. CASE FinishExecute(t)
  BY <1>19 DEF FinishExecute, ExecuteOutputs, UnlockWorkingMem, Using
<1> QED
  BY <1>1, <1>2, <1>3, <1>4, <1>5, <1>6, <1>7, <1>8, <1>9, <1>10, <1>11, <1>12,
       <1>13, <1>14, <1>15, <1>16, <1>17, <1>18, <1>19 DEF EnqueueStep

LEMMA QuietDestroy ==
  ASSUME UseInv, NEW t \in Threads, DestroyStep(t), ~DestroyContexts(t),
       ~DestroyMembers(t)
  PROVE  Quiet
<1> USE DEF Quiet, Constructing, Goto, Return, runtimeVars, networkVars,
     clVars,
            UseInv, LoadingInv, MemInv, TypeInv, TypeOK
<1>1. CASE BeginDestroy(t)
  BY <1>1 DEF BeginDestroy, Ready
<1>2. CASE DestroyNext(t)
  BY <1>2 DEF DestroyNext
<1> QED
  BY <1>1, <1>2 DEF DestroyStep

LEMMA QuietIsStutter ==
  ASSUME Quiet
  PROVE  UNCHANGED <<[id \in Ids |-> StatusOf(id)], alive \/ LoadedIds # {}>>
<1>1. ASSUME NEW id
      PROVE  (\E t \in Threads : netId[t] = id /\ pc[t] \in {"construct",
           "store"})'
               <=> (\E t \in Threads : netId[t] = id /\ pc[t] \in {"construct",
                    "store"})
  BY DEF Quiet, Constructing
<1>2. ASSUME NEW id PROVE StatusOf(id)' = StatusOf(id)
  BY <1>1 DEF StatusOf, Quiet
<1>3. [id \in Ids |-> StatusOf(id)]' = [id \in Ids |-> StatusOf(id)]
  BY <1>2 DEF Ids
<1> QED
  BY <1>3 DEF Quiet

----------------------------------------------------------------------------
(* What a step that moves an id needs besides UseInv: while a call runs    *)
(* the runtime exists, and only a network that was given an id has one.    *)

AliveInv ==
  /\ UseInv
  /\ ~alive => \A t \in Threads : pc[t] \in {"idle", "destroyMembers"}
  /\ \A t \in Threads : pc[t] = "destroyMembers" => ~alive
  /\ \A n \in Networks : phase[n] = "optimized" => idOf[n] = NoId

LEMMA AliveLoad ==
  ASSUME AliveInv, "SerialLoads" \in Rules, "NoUnloadInUse" \in Rules,
         NEW t \in Threads, LoadStep(t)
  PROVE  AliveInv'
<1> USE DEF Goto, Return, SetPhase, runtimeVars, networkVars, clVars,
     memoryVars,
            queueVars
<1>0. UseInv'
  BY UseLoad DEF AliveInv
<1> USE <1>0 DEF AliveInv, UseInv, MemInv, OwnerInv, DestroyerInv, TypeInv,
                 PointerSteps, TypeOK, LoadedNetworkTypeOK
<1>1. CASE \E n \in Networks : BeginLoad(t, n)
  BY <1>1 DEF BeginLoad, Ready, Loading, Unloading
<1>2. CASE GenerateRead(t)
  BY <1>2 DEF GenerateRead
<1>3. CASE GenerateWrite(t)
  BY <1>3 DEF GenerateWrite, WriteCounter
<1>4. CASE MakeLoadedNetwork(t)
  BY <1>4 DEF MakeLoadedNetwork
<1>5. CASE MakeLoadedNetworkFails(t)
  BY <1>5 DEF MakeLoadedNetworkFails, ReturnId
<1>6. CASE Store(t)
  BY <1>6 DEF Store
<1>7. CASE FreeReplaced(t)
  BY <1>7 DEF FreeReplaced, FreeUnderMutex, FreeWorkingMemory
<1>8. CASE DestroyReplaced(t)
  BY <1>8 DEF DestroyReplaced, DestroyUnderMutex, Destroy
<1>9. CASE AfterLoad(t)
  BY <1>9 DEF AfterLoad, AfterLoadNetwork, ReturnId
<1> QED
  BY <1>1, <1>2, <1>3, <1>4, <1>5, <1>6, <1>7, <1>8, <1>9 DEF LoadStep

LEMMA AliveUnload ==
  ASSUME AliveInv, "SerialLoads" \in Rules, "NoUnloadInUse" \in Rules,
         NEW t \in Threads, UnloadStep(t)
  PROVE  AliveInv'
<1> USE DEF Goto, Return, SetPhase, runtimeVars, networkVars, clVars,
     memoryVars,
            queueVars
<1>0. UseInv'
  BY UseUnload DEF AliveInv
<1> USE <1>0 DEF AliveInv, UseInv, MemInv, OwnerInv, DestroyerInv, TypeInv,
                 PointerSteps, TypeOK, LoadedNetworkTypeOK
<1>1. CASE \E id \in returnedIds : BeginUnload(t, id)
  BY <1>1 DEF BeginUnload, Ready
<1>2. CASE BeforeUnload(t)
  BY <1>2 DEF BeforeUnload
<1>3. CASE BeforeUnloadFails(t)
  BY <1>3 DEF BeforeUnloadFails
<1>4. CASE EraseNotFound(t)
  BY <1>4 DEF EraseNotFound
<1>5. CASE Erase(t)
  BY <1>5 DEF Erase, EraseTo
<1>6. CASE FreeErased(t)
  BY <1>6 DEF FreeErased, FreeUnderMutex, FreeWorkingMemory
<1>7. CASE DestroyErased(t)
  BY <1>7 DEF DestroyErased, DestroyUnderMutex, Destroy
<1>8. CASE AfterUnload(t)
  BY <1>8 DEF AfterUnload, AfterUnloadNetwork
<1>9. CASE ClearCache(t)
  BY <1>9 DEF ClearCache, ClearClCache
<1> QED
  BY <1>1, <1>2, <1>3, <1>4, <1>5, <1>6, <1>7, <1>8, <1>9 DEF UnloadStep

LEMMA AliveEnqueue ==
  ASSUME AliveInv, "SerialLoads" \in Rules, "NoUnloadInUse" \in Rules,
         NEW t \in Threads, EnqueueStep(t)
  PROVE  AliveInv'
<1> USE DEF Goto, Return, SetPhase, runtimeVars, networkVars, clVars,
     memoryVars,
            queueVars
<1>0. UseInv'
  BY UseEnqueue DEF AliveInv
<1> USE <1>0 DEF AliveInv, UseInv, MemInv, OwnerInv, DestroyerInv, TypeInv,
                 PointerSteps, TypeOK, LoadedNetworkTypeOK
<1>1. CASE \E id \in returnedIds : BeginEnqueue(t, id)
  BY <1>1 DEF BeginEnqueue, Ready
<1>2. CASE GetNetworkThrows(t)
  BY <1>2 DEF GetNetworkThrows
<1>3. CASE GetNetwork(t)
  BY <1>3 DEF GetNetwork
<1>4. CASE SameNetwork(t)
  BY <1>4 DEF SameNetwork, SetLastId
<1>5. CASE SwitchNetwork(t)
  BY <1>5 DEF SwitchNetwork
<1>6. CASE LastNetworkGone(t)
  BY <1>6 DEF LastNetworkGone, SetLastId
<1>7. CASE FindLastNetwork(t)
  BY <1>7 DEF FindLastNetwork
<1>8. CASE FreeLastNetwork(t)
  BY <1>8 DEF FreeLastNetwork, FreeLastTo, FreeWorkingMemory, SetLastId
<1>9. CASE UseAfterUnload(t)
  BY <1>9 DEF UseAfterUnload
<1>10. CASE EnqueueRejected(t)
  BY <1>10 DEF EnqueueRejected, Using
<1>11. CASE FillInputs(t)
  BY <1>11 DEF FillInputs, Using, BindInputs
<1>12. CASE FillOutputs(t)
  BY <1>12 DEF FillOutputs, Using, BindOutputs
<1>13. CASE FillThrows(t)
  BY <1>13 DEF FillThrows, Using, BindInputs, BindOutputs
<1>14. CASE BeginExecute(t)
  BY <1>14 DEF BeginExecute, Using, LockWorkingMem
<1>15. CASE Allocate(t)
  BY <1>15 DEF Allocate, AllocateWorkingMemory, Using
<1>16. CASE AllocateThrows(t)
  BY <1>16 DEF AllocateThrows, AllocationThrows, Using
<1>17. CASE ExecuteWorkloads(t)
  BY <1>17 DEF ExecuteWorkloads, ExecuteInputsAndWorkloads, Using
<1>18. CASE ExecuteThrows(t)
  BY <1>18 DEF ExecuteThrows, ExecuteOutputs, UnlockWorkingMem, Using
<1>19. CASE FinishExecute(t)
  BY <1>19 DEF FinishExecute, ExecuteOutputs, UnlockWorkingMem, Using
<1> QED
  BY <1>1, <1>2, <1>3, <1>4, <1>5, <1>6, <1>7, <1>8, <1>9, <1>10, <1>11, <1>12,
       <1>13, <1>14, <1>15, <1>16, <1>17, <1>18, <1>19 DEF EnqueueStep

LEMMA AliveDestroy ==
  ASSUME AliveInv, "SerialLoads" \in Rules, "NoUnloadInUse" \in Rules,
         NEW t \in Threads, DestroyStep(t)
  PROVE  AliveInv'
<1> USE DEF Goto, Return, SetPhase, runtimeVars, networkVars, clVars,
     memoryVars,
            queueVars
<1>0. UseInv'
  BY UseDestroy DEF AliveInv
<1> USE <1>0 DEF AliveInv, UseInv, MemInv, OwnerInv, DestroyerInv, TypeInv,
                 PointerSteps, TypeOK, LoadedNetworkTypeOK
<1>1. CASE BeginDestroy(t)
  BY <1>1 DEF BeginDestroy, Ready
<1>2. CASE DestroyNext(t)
  BY <1>2 DEF DestroyNext
<1>3. CASE DestroyContexts(t)
  BY <1>3 DEF DestroyContexts
<1>4. CASE DestroyMembers(t)
  <2>1. /\ UNCHANGED <<alive, idOf>> /\ ~alive
        /\ \A u \in Threads : pc'[u] = "idle"
    BY <1>4 DEF DestroyMembers
  <2>2. \A n \in Networks : phase'[n] = "optimized" => phase[n] = "optimized"
    BY <1>4 DEF DestroyMembers
  <2> QED
    BY <2>1, <2>2
<1> QED
  BY <1>1, <1>2, <1>3, <1>4 DEF DestroyStep

LEMMA AliveStutter ==
  ASSUME AliveInv, UNCHANGED vars
  PROVE  AliveInv'
<1>1. UseInv'
  BY UseStutter DEF AliveInv
<1> QED
  BY <1>1 DEF AliveInv, vars, threadVars, runtimeVars, networkVars

LEMMA AliveNext ==
  ASSUME AliveInv, "SerialLoads" \in Rules, "NoUnloadInUse" \in Rules,
       [Next]_vars
  PROVE  AliveInv'
<1>1. ASSUME NEW t \in Threads, ThreadStep(t)
      PROVE  AliveInv'
  BY <1>1, AliveLoad, AliveUnload, AliveEnqueue, AliveDestroy DEF ThreadStep
<1>2. CASE Gone
  BY <1>2, AliveStutter DEF Gone
<1>3. CASE UNCHANGED vars
  BY <1>3, AliveStutter
<1> QED
  BY <1>1, <1>2, <1>3 DEF Next

----------------------------------------------------------------------------
(* The steps that move an id.                                              *)

RegistryVars == <<[id \in Ids |-> StatusOf(id)], alive \/ LoadedIds # {}>>
RegistryStep == Registry!Next \/ UNCHANGED RegistryVars

(* The status of one id changes, if the registry looks at it at all.       *)
LEMMA OneIdMoves ==
  ASSUME NEW id, NEW from, NEW to, alive, alive',
         StatusOf(id) = from, StatusOf(id)' = to,
         \A j \in Ids \ {id} : StatusOf(j)' = StatusOf(j)
  PROVE  (id \in Ids /\ Registry!Move(id, from, to)) \/ UNCHANGED RegistryVars
<1>1. CASE id \in Ids
  <2>1. [j \in Ids |-> StatusOf(j)]' = [[j \in Ids |-> StatusOf(j)] EXCEPT
       ![id] = to]
    BY <1>1 DEF Ids
  <2> QED
    BY <1>1, <2>1 DEF Registry!Move
<1>2. CASE id \notin Ids
  <2>1. [j \in Ids |-> StatusOf(j)]' = [j \in Ids |-> StatusOf(j)]
    BY <1>2 DEF Ids
  <2> QED
    BY <2>1 DEF RegistryVars
<1> QED
  BY <1>1, <1>2

(* One thread at most is between taking an id and storing the network.     *)
LEMMA OneLoader ==
  ASSUME AliveInv, NEW t \in Threads, Loading(t), NEW u \in Threads, u # t
  PROVE  ~Constructing(u)
BY DEF AliveInv, UseInv, IdInv, Loading, Constructing

LEMMA StatusByLoader ==
  ASSUME AliveInv, NEW id
  PROVE  StatusOf(id) =
           IF id \in LoadedIds THEN "loaded"
           ELSE IF \E u \in Threads : netId[u] = id /\ Constructing(u) THEN
                "loading"
           ELSE IF \E n \in Networks : idOf[n] = id THEN "gone"
           ELSE "unused"
BY DEF StatusOf, Constructing

LEMMA IssueStep ==
  ASSUME AliveInv, NEW t \in Threads, GenerateWrite(t)
  PROVE  RegistryStep
<1> PICK id : id = netId[t]
  OBVIOUS
<1> USE DEF GenerateWrite, WriteCounter, Goto, Constructing
<1>0. /\ pc[t] = "generateWrite" /\ id = counter /\ netPtr[t] \in Networks
      /\ id \in Nat /\ Loading(t)
  BY DEF AliveInv, UseInv, IdInv, MemInv, TypeInv, PointerSteps, TypeOK,
       Loading
<1>1. \A u \in Threads : ~Constructing(u)
  BY <1>0, OneLoader
<1>2. \A n \in Networks : idOf[n] # id
  BY <1>0 DEF AliveInv, UseInv, IdInv, TypeInv, TypeOK
<1>3. id \notin LoadedIds
  BY <1>2 DEF AliveInv, UseInv, StoredInv, MemInv, TypeInv, TypeOK
<1>4. StatusOf(id) = "unused"
  BY <1>1, <1>2, <1>3 DEF StatusOf
<1>5. Constructing(t)' /\ netId'[t] = id /\ \A u \in Threads \ {t} :
     ~Constructing(u)'
  BY <1>0, <1>1 DEF AliveInv, UseInv, IdInv, TypeInv, TypeOK
<1>6. StatusOf(id)' = "loading"
  BY <1>3, <1>5 DEF StatusOf
<1>7. \A n \in Networks : idOf'[n] = IF n = netPtr[t] THEN id ELSE idOf[n]
  BY DEF AliveInv, UseInv, IdInv, TypeInv, TypeOK
<1>8. idOf[netPtr[t]] = NoId
  BY <1>0 DEF AliveInv, UseInv, MemInv, OwnerInv
<1>9. ASSUME NEW j \in Ids \ {id}
      PROVE  StatusOf(j)' = StatusOf(j)
  <2>1. j # NoId
    BY DEF Ids
  <2>2. (\E n \in Networks : idOf'[n] = j) <=> (\E n \in Networks : idOf[n] =
       j)
    BY <1>7, <1>8, <2>1
  <2>3. ~ \E u \in Threads : netId[u] = j /\ pc[u] \in {"construct", "store"}
    BY <1>1
  <2>4. ~ \E u \in Threads : netId'[u] = j /\ pc'[u] \in {"construct", "store"}
    BY <1>5
  <2> QED
    BY <2>2, <2>3, <2>4 DEF StatusOf
<1>10. alive /\ alive'
  BY <1>0 DEF AliveInv
<1>11. (id \in Ids /\ Registry!Move(id, "unused", "loading")) \/ UNCHANGED
     RegistryVars
  BY <1>4, <1>6, <1>9, <1>10, OneIdMoves
<1> QED
  BY <1>11 DEF RegistryStep, Registry!Next, Registry!Issue

LEMMA FailStep ==
  ASSUME AliveInv, NEW t \in Threads, MakeLoadedNetworkFails(t)
  PROVE  RegistryStep
<1> PICK id : id = netId[t]
  OBVIOUS
<1> USE DEF MakeLoadedNetworkFails, ReturnId, Goto, Return, Constructing
<1>0. /\ Constructing(t) /\ Loading(t) /\ netPtr[t] \in Networks
      /\ id \in Nat /\ id \notin LoadedIds /\ idOf[netPtr[t]] = id
  BY DEF AliveInv, UseInv, LoadingInv, MemInv, TypeInv, PointerSteps, TypeOK,
       Loading
<1>1. \A u \in Threads \ {t} : ~Constructing(u)
  BY <1>0, OneLoader
<1>2. StatusOf(id) = "loading"
  BY <1>0 DEF StatusOf
<1>3. \A u \in Threads : ~Constructing(u)'
  BY <1>1 DEF AliveInv, UseInv, IdInv, TypeInv, TypeOK
<1>4. StatusOf(id)' = "gone"
  BY <1>0, <1>3 DEF StatusOf
<1>5. ASSUME NEW j \in Ids \ {id}
      PROVE  StatusOf(j)' = StatusOf(j)
  <2>1. ~ \E u \in Threads : netId[u] = j /\ pc[u] \in {"construct", "store"}
    BY <1>1
  <2>2. ~ \E u \in Threads : netId'[u] = j /\ pc'[u] \in {"construct", "store"}
    BY <1>3
  <2> QED
    BY <2>1, <2>2 DEF StatusOf
<1>6. alive /\ alive'
  BY <1>0 DEF AliveInv
<1>7. (id \in Ids /\ Registry!Move(id, "loading", "gone")) \/ UNCHANGED
     RegistryVars
  BY <1>2, <1>4, <1>5, <1>6, OneIdMoves
<1> QED
  BY <1>7 DEF RegistryStep, Registry!Next, Registry!Fail

LEMMA StoreStep ==
  ASSUME AliveInv, NEW t \in Threads, Store(t)
  PROVE  RegistryStep
<1> PICK id : id = netId[t]
  OBVIOUS
<1> USE DEF Store, Goto, Constructing
<1>0. /\ Constructing(t) /\ Loading(t) /\ id \notin LoadedIds
  BY DEF AliveInv, UseInv, LoadingInv, Loading
<1>1. \A u \in Threads \ {t} : ~Constructing(u)
  BY <1>0, OneLoader
<1>2. StatusOf(id) = "loading"
  BY <1>0 DEF StatusOf
<1>3. \A u \in Threads : ~Constructing(u)'
  BY <1>0, <1>1 DEF AliveInv, UseInv, IdInv, TypeInv, TypeOK
<1>4. LoadedIds' = LoadedIds \cup {id}
  BY DEF Set
<1>5. StatusOf(id)' = "loaded"
  BY <1>4 DEF StatusOf
<1>6. ASSUME NEW j \in Ids \ {id}
      PROVE  StatusOf(j)' = StatusOf(j)
  <2>1. ~ \E u \in Threads : netId[u] = j /\ pc[u] \in {"construct", "store"}
    BY <1>1
  <2>2. ~ \E u \in Threads : netId'[u] = j /\ pc'[u] \in {"construct", "store"}
    BY <1>3
  <2>3. j \in LoadedIds' <=> j \in LoadedIds
    BY <1>4
  <2> QED
    BY <2>1, <2>2, <2>3 DEF StatusOf
<1>7. alive /\ alive'
  BY <1>0 DEF AliveInv
<1>8. (id \in Ids /\ Registry!Move(id, "loading", "loaded")) \/ UNCHANGED
     RegistryVars
  BY <1>2, <1>5, <1>6, <1>7, OneIdMoves
<1> QED
  BY <1>8 DEF RegistryStep, Registry!Next, Registry!Load

LEMMA EraseStep ==
  ASSUME AliveInv, NEW t \in Threads, Erase(t)
  PROVE  RegistryStep
<1> PICK id : id = netId[t]
  OBVIOUS
<1> USE DEF Erase, EraseTo, Goto, Constructing
<1>0. /\ pc[t] = "erase" /\ Unloading(t) /\ id \in LoadedIds
      /\ loadedNetworks[id] \in Networks /\ idOf[loadedNetworks[id]] = id
  BY DEF AliveInv, UseInv, StoredInv, Unloading, MemInv, TypeInv, TypeOK
<1>1. \A u \in Threads : Constructing(u) => netId[u] # id
  BY <1>0 DEF AliveInv, UseInv, UnloadingInv
<1>2. StatusOf(id) = "loaded"
  BY <1>0 DEF StatusOf
<1>3. \A u \in Threads : Constructing(u)' <=> Constructing(u)
  BY <1>0 DEF AliveInv, UseInv, IdInv, TypeInv, TypeOK
<1>4. LoadedIds' = LoadedIds \ {id}
  BY DEF Unset
<1>5. StatusOf(id)' = "gone"
  BY <1>0, <1>1, <1>3, <1>4 DEF StatusOf
<1>6. ASSUME NEW j \in Ids \ {id}
      PROVE  StatusOf(j)' = StatusOf(j)
  <2>1. (\E u \in Threads : netId'[u] = j /\ pc'[u] \in {"construct", "store"})
          <=> \E u \in Threads : netId[u] = j /\ pc[u] \in {"construct",
               "store"}
    BY <1>3
  <2>2. j \in LoadedIds' <=> j \in LoadedIds
    BY <1>4
  <2> QED
    BY <2>1, <2>2 DEF StatusOf
<1>7. alive /\ alive'
  BY <1>0 DEF AliveInv
<1>8. (id \in Ids /\ Registry!Move(id, "loaded", "gone")) \/ UNCHANGED
     RegistryVars
  BY <1>2, <1>5, <1>6, <1>7, OneIdMoves
<1> QED
  BY <1>8 DEF RegistryStep, Registry!Next, Registry!Unload

(* ~Runtime: the registry closes when the contexts go, or with the last    *)
(* networks if some could not be unloaded.                                 *)
LEMMA ContextsStep ==
  ASSUME AliveInv, NEW t \in Threads, DestroyContexts(t)
  PROVE  RegistryStep
<1> USE DEF DestroyContexts, Goto, Constructing
<1>0. alive /\ ~alive' /\ UNCHANGED <<loadedNetworks, netId, idOf>>
  BY DEF AliveInv
<1>1. \A u \in Threads : Constructing(u)' <=> Constructing(u)
  BY DEF AliveInv, UseInv, IdInv, TypeInv, TypeOK
<1>2. ASSUME NEW j PROVE StatusOf(j)' = StatusOf(j)
  <2>1. (\E u \in Threads : netId'[u] = j /\ pc'[u] \in {"construct", "store"})
          <=> \E u \in Threads : netId[u] = j /\ pc[u] \in {"construct",
               "store"}
    BY <1>0, <1>1
  <2> QED
    BY <1>0, <2>1 DEF StatusOf
<1>3. [j \in Ids |-> StatusOf(j)]' = [j \in Ids |-> StatusOf(j)]
  BY <1>2 DEF Ids
<1>4. CASE LoadedIds # {}
  BY <1>0, <1>3, <1>4 DEF RegistryStep, RegistryVars
<1>5. CASE LoadedIds = {}
  <2>1. \A j \in Ids : StatusOf(j) # "loaded"
    BY <1>5 DEF StatusOf
  <2>2. Registry!Shutdown
    BY <1>0, <1>3, <1>5, <2>1 DEF Registry!Shutdown
  <2> QED
    BY <2>2 DEF RegistryStep, Registry!Next
<1> QED
  BY <1>4, <1>5

LEMMA MembersStep ==
  ASSUME AliveInv, NEW t \in Threads, DestroyMembers(t)
  PROVE  RegistryStep
<1> USE DEF DestroyMembers, Goto, Constructing
<1>0. ~alive /\ ~alive' /\ LoadedIds' = {} /\ UNCHANGED <<netId, idOf>>
  BY DEF AliveInv
<1>1. \A u \in Threads : ~Constructing(u) /\ ~Constructing(u)'
  BY <1>0 DEF AliveInv, UseInv, IdInv, TypeInv, TypeOK
<1>2. ASSUME NEW j
      PROVE  StatusOf(j)' = IF StatusOf(j) = "loaded" THEN "gone" ELSE
           StatusOf(j)
  <2>1. ~ \E u \in Threads : netId[u] = j /\ pc[u] \in {"construct", "store"}
    BY <1>1
  <2>2. ~ \E u \in Threads : netId'[u] = j /\ pc'[u] \in {"construct", "store"}
    BY <1>1
  <2>3. j \in LoadedIds => \E n \in Networks : idOf[n] = j
    BY DEF AliveInv, UseInv, StoredInv, MemInv, TypeInv, TypeOK
  <2> QED
    BY <1>0, <2>1, <2>2, <2>3 DEF StatusOf
<1>3. CASE LoadedIds # {}
  <2>1. [j \in Ids |-> StatusOf(j)]'
          = [j \in Ids |-> IF StatusOf(j) = "loaded" THEN "gone" ELSE
               StatusOf(j)]
    BY <1>2 DEF Ids
  <2>2. Registry!Shutdown
    BY <1>0, <1>3, <2>1 DEF Registry!Shutdown
  <2> QED
    BY <2>2 DEF RegistryStep, Registry!Next
<1>4. CASE LoadedIds = {}
  <2>1. \A j \in Ids : StatusOf(j) # "loaded"
    BY <1>4 DEF StatusOf
  <2>2. [j \in Ids |-> StatusOf(j)]' = [j \in Ids |-> StatusOf(j)]
    BY <1>2, <2>1 DEF Ids
  <2> QED
    BY <1>0, <1>4, <2>2 DEF RegistryStep, RegistryVars
<1> QED
  BY <1>3, <1>4

----------------------------------------------------------------------------
LEMMA RuntimeStep ==
  ASSUME AliveInv, [Next]_vars
  PROVE  RegistryStep
<1>0. UseInv
  BY DEF AliveInv
<1>1. Quiet => RegistryStep
  BY QuietIsStutter DEF RegistryStep, RegistryVars
<1>2. ASSUME NEW t \in Threads, LoadStep(t)
      PROVE  RegistryStep
  BY <1>0, <1>1, <1>2, QuietLoad, IssueStep, FailStep, StoreStep
<1>3. ASSUME NEW t \in Threads, UnloadStep(t)
      PROVE  RegistryStep
  BY <1>0, <1>1, <1>3, QuietUnload, EraseStep
<1>4. ASSUME NEW t \in Threads, EnqueueStep(t)
      PROVE  RegistryStep
  BY <1>0, <1>1, <1>4, QuietEnqueue
<1>5. ASSUME NEW t \in Threads, DestroyStep(t)
      PROVE  RegistryStep
  BY <1>0, <1>1, <1>5, QuietDestroy, ContextsStep, MembersStep
<1>6. UNCHANGED vars => Quiet
  BY DEF vars, threadVars, runtimeVars, Quiet, Constructing
<1> QED
  BY <1>1, <1>2, <1>3, <1>4, <1>5, <1>6 DEF Next, ThreadStep, Gone

LEMMA RuntimeStart == Init => Registry!Init
<1> SUFFICES ASSUME Init
             PROVE  Registry!Init
  OBVIOUS
<1>1. ASSUME NEW j \in Ids PROVE StatusOf(j) = "unused"
  <2>1. j # NoId
    BY DEF Ids
  <2> QED
    BY <2>1 DEF Init, StatusOf
<1>2. [j \in Ids |-> StatusOf(j)] = [j \in Ids |-> "unused"]
  BY <1>1
<1> QED
  BY <1>2 DEF Init, Registry!Init

(* The runtime implements the registry IRuntime promises: an id is handed  *)
(* out once, a network is loaded under it at most once, and a successful   *)
(* UnloadNetwork ends it for good, if clients load one network at a time   *)
(* and do not unload a network while they use it.                          *)
THEOREM RuntimeIsRegistry ==
  ASSUME "SerialLoads" \in Rules, "NoUnloadInUse" \in Rules
  PROVE  Spec => ImplementsRegistry
<1>1. Init => AliveInv
  BY MemInit, IdInit DEF AliveInv, UseInv, StoredInv, LoadingInv, UnloadingInv,
     UsingInv, Init, Unloading, Enqueueing
<1>2. AliveInv /\ [Next]_vars => AliveInv'
  BY AliveNext
<1>3. AliveInv /\ [Next]_vars
        => [Registry!Next]_<<[id \in Ids |-> StatusOf(id)], alive \/ LoadedIds
             # {}>>
  BY RuntimeStep DEF RegistryStep, RegistryVars
<1> QED
  BY <1>1, <1>2, <1>3, RuntimeStart, PTL DEF Spec, ImplementsRegistry,
       Registry!Spec
=============================================================================
