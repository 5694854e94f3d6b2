------------------------------ MODULE Runtime ------------------------------
(***************************************************************************)
(* armnn::Runtime (src/armnn/Runtime.cpp) called by several client         *)
(* threads, with the networks of LoadedNetwork.tla and the GpuAcc context  *)
(* of ClBackendContext.tla.  A step is what a thread does between two      *)
(* points where another thread can be seen to act: a lock taken or         *)
(* released, or a shared variable read or written with no lock held.       *)
(*                                                                         *)
(* Rules is what the clients promise about their own calls ({} for the     *)
(* code alone); Faults is which calls into the environment may fail.       *)
(***************************************************************************)
EXTENDS LoadedNetwork, ClBackendContext, Integers, FiniteSets

CONSTANTS
  Rules,       \* subset of ClientRules
  Faults,      \* subset of {"construct", "sync", "acquire", "execute", "reject"}
  NoNetwork,   \* a null LoadedNetwork*
  MaxCalls     \* bound: enqueue and unload calls made by all clients

ClientRules == {"SerialLoads",       \* one LoadNetwork at a time
                "NoUnloadInUse",     \* no unload of a network being enqueued
                "OneInference"}      \* one EnqueueWorkload at a time per id

ASSUME RulesAssumption == Rules \subseteq ClientRules
ASSUME NoNetworkAssumption == NoNetwork \notin Networks
ASSUME MaxCallsAssumption == MaxCalls \in Nat

VARIABLES
  counter,         \* m_NetworkIdCounter
  loadedNetworks,  \* m_LoadedNetworks: a partial function from ids to networks
  mutex,           \* m_Mutex: its owner
  lastId,          \* EnqueueWorkload's static thread_local lastId
  pc, netId, netPtr,   \* per thread: next step, the call's id and LoadedNetwork*
  idOf,            \* the id LoadNetwork returned in networkIdOut for a network
  returnedIds,     \* the ids of the LoadNetwork calls that returned
  alive,           \* FALSE once ~Runtime has destroyed the contexts
  destroyer, pending,  \* ~Runtime: the thread in it, the ids still to unload
  calls            \* enqueue and unload calls so far

threadVars == <<pc, netId, netPtr>>
runtimeVars == <<counter, loadedNetworks, mutex, lastId, idOf, returnedIds,
                 alive, destroyer, pending, calls>>
networkVars == <<phase, memoryVars, queueVars>>
vars == <<threadVars, runtimeVars, networkVars, clVars>>

NoId == -1

LoadSteps == {"generateRead", "generateWrite", "construct", "store",
              "freeReplaced", "destroyReplaced", "afterLoad"}
UnloadSteps == {"beforeUnload", "erase", "freeErased", "destroyErased",
                "afterUnload", "clearCache"}
FindSteps == {"getNetwork", "switch", "freeLast", "freeing"}
UseSteps == {"fillInputs", "fillOutputs", "lockWorkingMem"}
ExecuteSteps == {"allocate", "executeInputs", "executeOutputs"}
EnqueueSteps == FindSteps \cup UseSteps \cup ExecuteSteps
DestroySteps == {"destroyNext", "destroyMembers"}
Steps == {"idle", "undefined"} \cup LoadSteps \cup UnloadSteps
           \cup EnqueueSteps \cup DestroySteps

Loading(t) == pc[t] \in LoadSteps
Unloading(t) == pc[t] \in UnloadSteps
Enqueueing(t) == pc[t] \in EnqueueSteps

LoadedIds == DOMAIN loadedNetworks

Init ==
  /\ counter = 0
  /\ loadedNetworks = <<>>
  /\ mutex = NoThread
  /\ lastId = [t \in Threads |-> NoId]
  /\ pc = [t \in Threads |-> "idle"]
  /\ netId = [t \in Threads |-> NoId]
  /\ netPtr = [t \in Threads |-> NoNetwork]
  /\ idOf = [n \in Networks |-> NoId]
  /\ returnedIds = {}
  /\ alive = TRUE
  /\ destroyer = NoThread
  /\ pending = {}
  /\ calls = 0
  /\ LoadedNetworkInit
  /\ ClInit

Goto(t, step) == pc' = [pc EXCEPT ![t] = step]

(* The call returns to its client; an unload made by ~Runtime returns to   *)
(* its loop.                                                               *)
Return(t) ==
  /\ Goto(t, IF destroyer = t THEN "destroyNext" ELSE "idle")
  /\ netId' = [netId EXCEPT ![t] = NoId]
  /\ netPtr' = [netPtr EXCEPT ![t] = NoNetwork]

Unset(f, id) == [i \in DOMAIN f \ {id} |-> f[i]]
Set(f, id, n) == [i \in DOMAIN f \cup {id} |-> IF i = id THEN n ELSE f[i]]

(* A client thread that may start a call.                                  *)
Ready(t) == pc[t] = "idle" /\ alive /\ destroyer = NoThread

----------------------------------------------------------------------------
(* LoadNetwork                                                             *)

BeginLoad(t, n) ==
  /\ Ready(t)
  /\ phase[n] = "optimized"
  /\ \A u \in Threads : netPtr[u] # n
  /\ "SerialLoads" \in Rules => \A u \in Threads : ~Loading(u)
  /\ Goto(t, "generateRead")
  /\ netPtr' = [netPtr EXCEPT ![t] = n]
  /\ UNCHANGED <<netId, runtimeVars, networkVars, clVars>>

(* GenerateNetworkId: m_NetworkIdCounter++ on a plain int, no lock held.   *)
GenerateRead(t) ==
  /\ pc[t] = "generateRead"
  /\ Goto(t, "generateWrite")
  /\ netId' = [netId EXCEPT ![t] = counter]
  /\ UNCHANGED <<netPtr, runtimeVars, networkVars, clVars>>

WriteCounter(t, next) ==
  /\ pc[t] = "generateWrite"
  /\ Goto(t, "construct")
  /\ counter' = next
  /\ idOf' = [idOf EXCEPT ![netPtr[t]] = netId[t]]
  /\ SetPhase(netPtr[t], "building")
  /\ UNCHANGED <<netId, netPtr, loadedNetworks, mutex, lastId, returnedIds,
                 alive, destroyer, pending, calls, memoryVars, queueVars,
                 clVars>>

GenerateWriteFromSize(t) == WriteCounter(t, Cardinality(LoadedIds))  \* mutant
GenerateWrite(t) == WriteCounter(t, netId[t] + 1)

MakeLoadedNetwork(t) ==
  /\ pc[t] = "construct"
  /\ Goto(t, "store")
  /\ SetPhase(netPtr[t], "loaded")
  /\ UNCHANGED <<netId, netPtr, runtimeVars, memoryVars, queueVars, clVars>>

(* LoadNetwork returns, with the id in networkIdOut.                       *)
ReturnId(t) ==
  /\ Return(t)
  /\ returnedIds' = returnedIds \cup {netId[t]}
  /\ UNCHANGED <<counter, loadedNetworks, mutex, lastId, idOf, alive,
                 destroyer, pending, calls>>

(* The constructor throws: Failure, with the id used up and no             *)
(* AfterLoadNetwork.                                                       *)
MakeLoadedNetworkFails(t) ==
  /\ pc[t] = "construct"
  /\ "construct" \in Faults
  /\ SetPhase(netPtr[t], "destroyed")
  /\ ReturnId(t)
  /\ UNCHANGED <<memoryVars, queueVars, clVars>>

(* m_LoadedNetworks[id] = move(loadedNetwork).  A network already stored   *)
(* under the id is destroyed by the assignment, with the mutex still held. *)
Store(t) ==
  /\ pc[t] = "store"
  /\ mutex = NoThread
  /\ loadedNetworks' = Set(loadedNetworks, netId[t], netPtr[t])
  /\ IF netId[t] \in LoadedIds
     THEN /\ Goto(t, "freeReplaced")
          /\ mutex' = t
          /\ netPtr' = [netPtr EXCEPT ![t] = loadedNetworks[netId[t]]]
     ELSE /\ Goto(t, "afterLoad")
          /\ UNCHANGED <<mutex, netPtr>>
  /\ UNCHANGED <<netId, counter, lastId, idOf, returnedIds, alive, destroyer,
                 pending, calls, networkVars, clVars>>

(* ~LoadedNetwork of the replaced or erased network, with m_Mutex held:    *)
(* FreeWorkingMemory waits for a running inference and drops the network's *)
(* mutex, so that one waiting for it enters before the members go.         *)
FreeUnderMutex(t, here, next) ==
  /\ pc[t] = here
  /\ FreeWorkingMemory(netPtr[t])
  /\ Goto(t, next)
  /\ UNCHANGED <<netId, netPtr, runtimeVars, phase, queueVars, clVars>>

DestroyUnderMutex(t, here, next) ==
  /\ pc[t] = here
  /\ Destroy(netPtr[t])
  /\ mutex' = NoThread
  /\ Goto(t, next)
  /\ netPtr' = [netPtr EXCEPT ![t] = NoNetwork]
  /\ UNCHANGED <<netId, counter, loadedNetworks, lastId, idOf, returnedIds,
                 alive, destroyer, pending, calls, clVars>>

FreeReplaced(t) == FreeUnderMutex(t, "freeReplaced", "destroyReplaced")
DestroyReplaced(t) == DestroyUnderMutex(t, "destroyReplaced", "afterLoad")

AfterLoad(t) ==
  /\ pc[t] = "afterLoad"
  /\ AfterLoadNetwork(netId[t])
  /\ ReturnId(t)
  /\ UNCHANGED networkVars

----------------------------------------------------------------------------
(* UnloadNetwork                                                           *)

BeginUnload(t, id) ==
  /\ Ready(t)
  /\ calls < MaxCalls
  /\ "NoUnloadInUse" \in Rules
       => \A u \in Threads : Enqueueing(u) => netId[u] # id
  /\ Goto(t, "beforeUnload")
  /\ netId' = [netId EXCEPT ![t] = id]
  /\ calls' = calls + 1
  /\ UNCHANGED <<netPtr, counter, loadedNetworks, mutex, lastId, idOf,
                 returnedIds, alive, destroyer, pending, networkVars, clVars>>

(* BeforeUnloadNetwork waits for the queued OpenCL requests.               *)
BeforeUnload(t) ==
  /\ pc[t] = "beforeUnload"
  /\ Goto(t, "erase")
  /\ UNCHANGED <<netId, netPtr, runtimeVars, networkVars, clVars>>

BeforeUnloadFails(t) ==
  /\ pc[t] = "beforeUnload"
  /\ "sync" \in Faults
  /\ Return(t)
  /\ UNCHANGED <<runtimeVars, networkVars, clVars>>

EraseNotFound(t) ==
  /\ pc[t] = "erase"
  /\ mutex = NoThread
  /\ netId[t] \notin LoadedIds
  /\ Return(t)
  /\ UNCHANGED <<runtimeVars, networkVars, clVars>>

EraseTo(t, networks, next) ==
  /\ pc[t] = "erase"
  /\ mutex = NoThread
  /\ netId[t] \in LoadedIds
  /\ mutex' = t
  /\ netPtr' = [netPtr EXCEPT ![t] = loadedNetworks[netId[t]]]
  /\ loadedNetworks' = networks
  /\ Goto(t, next)
  /\ UNCHANGED <<netId, counter, lastId, idOf, returnedIds, alive, destroyer,
                 pending, calls, networkVars, clVars>>

EraseKeepsEntry(t) == EraseTo(t, loadedNetworks, "freeErased")  \* mutant
EraseAll(t) == EraseTo(t, <<>>, "freeErased")  \* mutant
EraseLeaks(t) == EraseTo(t, Unset(loadedNetworks, netId[t]), "afterUnload")  \* mutant
Erase(t) == EraseTo(t, Unset(loadedNetworks, netId[t]), "freeErased")

FreeErased(t) == FreeUnderMutex(t, "freeErased", "destroyErased")
DestroyErased(t) == DestroyUnderMutex(t, "destroyErased", "afterUnload")

AfterUnload(t) ==
  /\ pc[t] = "afterUnload"
  /\ AfterUnloadNetwork(netId[t])
  /\ IF NoNetworksLeft(netId[t])
     THEN Goto(t, "clearCache") /\ UNCHANGED <<netId, netPtr>>
     ELSE Return(t)
  /\ UNCHANGED <<runtimeVars, networkVars>>

ClearCache(t) ==
  /\ pc[t] = "clearCache"
  /\ ClearClCache({n \in Networks : phase[n] \in {"building", "loaded"}})
  /\ Return(t)
  /\ UNCHANGED <<runtimeVars, networkVars>>

----------------------------------------------------------------------------
(* EnqueueWorkload: Runtime's part                                         *)

BeginEnqueue(t, id) ==
  /\ Ready(t)
  /\ calls < MaxCalls
  /\ "NoUnloadInUse" \in Rules
       => \A u \in Threads : Unloading(u) => netId[u] # id
  /\ "OneInference" \in Rules
       => \A u \in Threads : Enqueueing(u) => netId[u] # id
  /\ Goto(t, "getNetwork")
  /\ netId' = [netId EXCEPT ![t] = id]
  /\ calls' = calls + 1
  /\ outputs' = [outputs EXCEPT ![t] = NoThread]   \* fresh user buffers
  /\ UNCHANGED <<netPtr, counter, loadedNetworks, mutex, lastId, idOf,
                 returnedIds, alive, destroyer, pending, phase, memoryVars,
                 inputQueue, outputQueue, tensors, clVars>>

(* GetLoadedNetworkPtr: at() throws for an id that is not in the map, and  *)
(* otherwise the raw pointer outlives the lock.                            *)
GetNetworkThrows(t) ==
  /\ pc[t] = "getNetwork"
  /\ mutex = NoThread
  /\ netId[t] \notin LoadedIds
  /\ Return(t)
  /\ UNCHANGED <<runtimeVars, networkVars, clVars>>

GetNetwork(t) ==
  /\ pc[t] = "getNetwork"
  /\ mutex = NoThread
  /\ netId[t] \in LoadedIds
  /\ netPtr' = [netPtr EXCEPT ![t] = loadedNetworks[netId[t]]]
  /\ Goto(t, "switch")
  /\ UNCHANGED <<netId, runtimeVars, networkVars, clVars>>

SetLastId(t) == lastId' = [lastId EXCEPT ![t] = netId[t]]

(* The thread's first call, or the same network as its last call.          *)
SameNetwork(t) ==
  /\ pc[t] = "switch"
  /\ lastId[t] \in {NoId, netId[t]}
  /\ SetLastId(t)
  /\ Goto(t, "fillInputs")
  /\ UNCHANGED <<netId, netPtr, counter, loadedNetworks, mutex, idOf,
                 returnedIds, alive, destroyer, pending, calls, networkVars,
                 clVars>>

SwitchKeepsMemory(t) ==  \* mutant
  /\ pc[t] = "switch"
  /\ SetLastId(t)
  /\ Goto(t, "fillInputs")
  /\ UNCHANGED <<netId, netPtr, counter, loadedNetworks, mutex, idOf,
                 returnedIds, alive, destroyer, pending, calls, networkVars,
                 clVars>>

SwitchNetwork(t) ==
  /\ pc[t] = "switch"
  /\ lastId[t] \notin {NoId, netId[t]}
  /\ Goto(t, "freeLast")
  /\ UNCHANGED <<netId, netPtr, runtimeVars, networkVars, clVars>>

(* LoadedNetworkFuncSafe(lastId, FreeWorkingMemory): find under m_Mutex,   *)
(* which stays held while the other network's mutex is waited for.         *)
LastNetworkGone(t) ==
  /\ pc[t] = "freeLast"
  /\ mutex = NoThread
  /\ lastId[t] \notin LoadedIds
  /\ SetLastId(t)
  /\ Goto(t, "fillInputs")
  /\ UNCHANGED <<netId, netPtr, counter, loadedNetworks, mutex, idOf,
                 returnedIds, alive, destroyer, pending, calls, networkVars,
                 clVars>>

FindLastNetwork(t) ==
  /\ pc[t] = "freeLast"
  /\ mutex = NoThread
  /\ lastId[t] \in LoadedIds
  /\ mutex' = t
  /\ Goto(t, "freeing")
  /\ UNCHANGED <<netId, netPtr, counter, loadedNetworks, lastId, idOf,
                 returnedIds, alive, destroyer, pending, calls, networkVars,
                 clVars>>

FreeLastTo(t, owner) ==
  /\ pc[t] = "freeing"
  /\ FreeWorkingMemory(loadedNetworks[lastId[t]])
  /\ mutex' = owner
  /\ SetLastId(t)
  /\ Goto(t, "fillInputs")
  /\ UNCHANGED <<netId, netPtr, counter, loadedNetworks, idOf, returnedIds,
                 alive, destroyer, pending, calls, phase, queueVars, clVars>>

FreeLastKeepsMutex(t) == FreeLastTo(t, t)  \* mutant
FreeLastNetwork(t) == FreeLastTo(t, NoThread)

----------------------------------------------------------------------------
(* EnqueueWorkload: LoadedNetwork's part                                   *)

(* The pointer is used with no lock of the runtime held: the network is    *)
(* destroyed before a call comes to it, or under its inference.            *)
UseAfterUnload(t) ==
  /\ pc[t] \in UseSteps \cup ExecuteSteps
  /\ phase[netPtr[t]] = "destroyed"
  /\ Goto(t, "undefined")
  /\ UNCHANGED <<netId, netPtr, runtimeVars, networkVars, clVars>>

Using(t, step) == pc[t] = step /\ phase[netPtr[t]] = "loaded"

(* Fewer than two layers, or a wrong number of inputs: nothing is touched. *)
EnqueueRejected(t) ==
  /\ Using(t, "fillInputs")
  /\ "reject" \in Faults
  /\ Return(t)
  /\ UNCHANGED <<runtimeVars, networkVars, clVars>>

FillInputs(t) ==
  /\ Using(t, "fillInputs")
  /\ BindInputs(netPtr[t], t)
  /\ Goto(t, "fillOutputs")
  /\ UNCHANGED <<netId, netPtr, runtimeVars, phase, memoryVars, clVars>>

FillOutputs(t) ==
  /\ Using(t, "fillOutputs")
  /\ BindOutputs(netPtr[t], t)
  /\ Goto(t, "lockWorkingMem")
  /\ UNCHANGED <<netId, netPtr, runtimeVars, phase, memoryVars, clVars>>

(* A binding id has no pin: the queue was cleared, then an exception.      *)
FillThrows(t) ==
  /\ "reject" \in Faults
  /\ \/ Using(t, "fillInputs") /\ BindInputs(netPtr[t], NoThread)
     \/ Using(t, "fillOutputs") /\ BindOutputs(netPtr[t], NoThread)
  /\ Return(t)
  /\ UNCHANGED <<runtimeVars, phase, memoryVars, clVars>>

BeginExecute(t) ==
  /\ Using(t, "lockWorkingMem")
  /\ LockWorkingMem(netPtr[t], t)
  /\ Goto(t, "allocate")
  /\ UNCHANGED <<netId, netPtr, runtimeVars, phase, queueVars, clVars>>

Allocate(t) ==
  /\ Using(t, "allocate")
  /\ AllocateWorkingMemory(netPtr[t])
  /\ Goto(t, "executeInputs")
  /\ UNCHANGED <<netId, netPtr, runtimeVars, phase, queueVars, clVars>>

AllocateThrows(t) ==
  /\ Using(t, "allocate")
  /\ "acquire" \in Faults
  /\ AllocationThrows(netPtr[t])
  /\ Return(t)
  /\ UNCHANGED <<runtimeVars, phase, queueVars, clVars>>

ExecuteWorkloads(t) ==
  /\ Using(t, "executeInputs")
  /\ ExecuteInputsAndWorkloads(netPtr[t])
  /\ Goto(t, "executeOutputs")
  /\ UNCHANGED <<netId, netPtr, runtimeVars, phase, memoryVars, clVars>>

(* A workload of one of the queues throws: the lock is dropped, the memory *)
(* stays allocated, and so do the outputs written before.  (What the       *)
(* tensors hold is written again before an inference reads it.)            *)
ExecuteThrows(t) ==
  /\ "execute" \in Faults
  /\ \/ /\ Using(t, "executeInputs") \/ Using(t, "executeOutputs")
        /\ UNCHANGED queueVars
     \/ Using(t, "executeOutputs") /\ ExecuteOutputs(netPtr[t])
  /\ UnlockWorkingMem(netPtr[t])
  /\ Return(t)
  /\ UNCHANGED <<runtimeVars, phase, clVars>>

FinishExecute(t) ==
  /\ Using(t, "executeOutputs")
  /\ ExecuteOutputs(netPtr[t])
  /\ UnlockWorkingMem(netPtr[t])
  /\ Return(t)
  /\ UNCHANGED <<runtimeVars, phase, clVars>>

----------------------------------------------------------------------------
(* ~Runtime: unload what is loaded, then destroy the members, the contexts *)
(* before the networks that could not be unloaded.                         *)

BeginDestroy(t) ==
  /\ Ready(t)
  /\ \A u \in Threads : pc[u] = "idle"   \* no call outlives the runtime
  /\ destroyer' = t
  /\ pending' = LoadedIds
  /\ Goto(t, "destroyNext")
  /\ UNCHANGED <<netId, netPtr, counter, loadedNetworks, mutex, lastId, idOf,
                 returnedIds, alive, calls, networkVars, clVars>>

DestroyNext(t) ==
  /\ pc[t] = "destroyNext"
  /\ \E id \in pending :
       /\ pending' = pending \ {id}
       /\ netId' = [netId EXCEPT ![t] = id]
  /\ Goto(t, "beforeUnload")
  /\ UNCHANGED <<netPtr, counter, loadedNetworks, mutex, lastId, idOf,
                 returnedIds, alive, destroyer, calls, networkVars, clVars>>

DestroyContexts(t) ==
  /\ pc[t] = "destroyNext"
  /\ pending = {}
  /\ alive' = FALSE
  /\ Goto(t, "destroyMembers")
  /\ UNCHANGED <<netId, netPtr, counter, loadedNetworks, mutex, lastId, idOf,
                 returnedIds, destroyer, pending, calls, networkVars, clVars>>

DestroyMembers(t) ==
  /\ pc[t] = "destroyMembers"
  /\ LET left == {loadedNetworks[id] : id \in LoadedIds} IN
     /\ phase' = [n \in Networks |-> IF n \in left THEN "destroyed" ELSE phase[n]]
     /\ isWorkingMemAllocated' =
          [n \in Networks |-> n \notin left /\ isWorkingMemAllocated[n]]
     /\ acquired' = [n \in Networks |-> IF n \in left THEN {} ELSE acquired[n]]
  /\ loadedNetworks' = <<>>
  /\ Goto(t, "idle")
  /\ UNCHANGED <<netId, netPtr, counter, mutex, lastId, idOf, returnedIds,
                 alive, destroyer, pending, calls, workingMemMutex, queueVars,
                 clVars>>

----------------------------------------------------------------------------
LoadStep(t) ==
  \/ \E n \in Networks : BeginLoad(t, n)
  \/ GenerateRead(t) \/ GenerateWrite(t)
  \/ MakeLoadedNetwork(t) \/ MakeLoadedNetworkFails(t)
  \/ Store(t) \/ FreeReplaced(t) \/ DestroyReplaced(t) \/ AfterLoad(t)

UnloadStep(t) ==
  \/ \E id \in returnedIds : BeginUnload(t, id)
  \/ BeforeUnload(t) \/ BeforeUnloadFails(t)
  \/ EraseNotFound(t) \/ Erase(t) \/ FreeErased(t) \/ DestroyErased(t)
  \/ AfterUnload(t) \/ ClearCache(t)

EnqueueStep(t) ==
  \/ \E id \in returnedIds : BeginEnqueue(t, id)
  \/ GetNetworkThrows(t) \/ GetNetwork(t)
  \/ SameNetwork(t) \/ SwitchNetwork(t)
  \/ LastNetworkGone(t) \/ FindLastNetwork(t) \/ FreeLastNetwork(t)
  \/ UseAfterUnload(t) \/ EnqueueRejected(t)
  \/ FillInputs(t) \/ FillOutputs(t) \/ FillThrows(t)
  \/ BeginExecute(t) \/ Allocate(t) \/ AllocateThrows(t)
  \/ ExecuteWorkloads(t) \/ ExecuteThrows(t) \/ FinishExecute(t)

DestroyStep(t) ==
  \/ BeginDestroy(t) \/ DestroyNext(t) \/ DestroyContexts(t)
  \/ DestroyMembers(t)

ThreadStep(t) == LoadStep(t) \/ UnloadStep(t) \/ EnqueueStep(t) \/ DestroyStep(t)

(* The runtime is gone: nothing more happens.                              *)
Gone ==
  /\ ~alive
  /\ \A t \in Threads : pc[t] = "idle"
  /\ UNCHANGED vars

Next == (\E t \in Threads : ThreadStep(t)) \/ Gone

Spec == Init /\ [][Next]_vars

(* Each thread keeps running while it is inside a call; nothing makes a    *)
(* client start one.                                                       *)
CallStep(t) == pc[t] # "idle" /\ ThreadStep(t)
FairSpec == Spec /\ \A t \in Threads : WF_vars(CallStep(t))

----------------------------------------------------------------------------
(* Properties                                                              *)

TypeOK ==
  /\ LoadedNetworkTypeOK
  /\ clNetworkIds \subseteq Nat
  /\ cleared \subseteq Networks
  /\ counter \in Nat
  /\ LoadedIds \subseteq Nat
  /\ loadedNetworks \in [LoadedIds -> Networks]
  /\ mutex \in Threads \cup {NoThread}
  /\ lastId \in [Threads -> Nat \cup {NoId}]
  /\ pc \in [Threads -> Steps]
  /\ netId \in [Threads -> Nat \cup {NoId}]
  /\ netPtr \in [Threads -> Networks \cup {NoNetwork}]
  /\ idOf \in [Networks -> Nat \cup {NoId}]
  /\ returnedIds \subseteq Nat
  /\ alive \in BOOLEAN
  /\ destroyer \in Threads \cup {NoThread}
  /\ pending \subseteq Nat
  /\ calls \in Nat

(* The id LoadNetwork hands out is unique (IRuntime.hpp:49, "Unique        *)
(* identifier for the network is returned"): no two networks, loaded at    *)
(* the same time or one after the other, ever get the same one.            *)
UniqueIds ==
  \A m, n \in Networks : m # n /\ idOf[m] = idOf[n] => idOf[m] = NoId

(* The raw pointer stays valid to the end of the call: no network is       *)
(* destroyed after GetLoadedNetworkPtr dropped the lock, not before the    *)
(* call comes to use it, nor while it waits for the network's mutex, which *)
(* ~LoadedNetwork drops before its members go, nor under its inference.    *)
NoUseAfterUnload ==
  \A t \in Threads :
    /\ pc[t] # "undefined"
    /\ pc[t] \in UseSteps \cup ExecuteSteps => phase[netPtr[t]] = "loaded"

(* While an inference runs its workloads on a network that is not          *)
(* destroyed (NoUseAfterUnload says when that is sure) it owns the working *)
(* memory, with every memory manager acquired, whatever other threads      *)
(* load, unload, enqueue or free, also when it entered in the middle of    *)
(* ~LoadedNetwork.                                                         *)
InferenceHasMemory ==
  \A t \in Threads :
    pc[t] \in {"executeInputs", "executeOutputs"} /\ phase[netPtr[t]] = "loaded"
      => /\ workingMemMutex[netPtr[t]] = t
         /\ acquired[netPtr[t]] = MemoryManagers

(* Two inferences never run on one network at the same time.               *)
OneInferenceAtATime ==
  \A t, u \in Threads :
    pc[t] \in ExecuteSteps /\ pc[u] \in ExecuteSteps /\ netPtr[t] = netPtr[u]
      => t = u

(* A memory manager is never acquired a second time without a release:     *)
(* when AllocateWorkingMemory is about to acquire, all are released.       *)
NoDoubleAcquire ==
  \A n \in Networks : ~isWorkingMemAllocated[n] => acquired[n] = {}

(* Switching networks frees the last one's working memory                  *)
(* (Runtime.cpp:221-229): a network holds working memory only while it is  *)
(* the last network some thread enqueued, so threads bound the memory.     *)
WorkingMemoryIsCurrent ==
  \A id \in LoadedIds : isWorkingMemAllocated[loadedNetworks[id]] =>
    \E t \in Threads : lastId[t] = id

(* An EnqueueWorkload that succeeds filled the caller's output buffers    *)
(* from the caller's own inputs, not those of a concurrent call.           *)
ResultsAreOwn ==
  [][\A t \in Threads : FinishExecute(t) => outputs'[t] = t]_vars

(* A constructed network is always reachable: stored, or held by the call  *)
(* that is storing or destroying it.  None leaks.                          *)
NoNetworkLost ==
  \A n \in Networks : phase[n] = "loaded" =>
    \/ \E id \in LoadedIds : loadedNetworks[id] = n
    \/ \E t \in Threads : netPtr[t] = n

(* t waits for a lock that u holds: m_Mutex, or the mutex of a network,     *)
(* which three steps wait for with m_Mutex held.  (Of a network that is    *)
(* destroyed under the call there is no mutex any more.)                   *)
WaitsFor(t, u) ==
  \/ pc[t] \in {"store", "erase", "getNetwork", "freeLast"} /\ mutex = u
  \/ /\ pc[t] \in {"freeReplaced", "freeErased", "lockWorkingMem"}
     /\ phase[netPtr[t]] = "loaded"
     /\ workingMemMutex[netPtr[t]] = u
  \/ /\ pc[t] = "freeing"
     /\ workingMemMutex[loadedNetworks[lastId[t]]] = u

(* A call waits at most for one that waits for an inference, which waits   *)
(* for nobody: however many threads nest the two mutexes (Runtime.cpp:224),*)
(* they never wait in a circle, and no call leaves a lock behind.          *)
NoCircularWait ==
  /\ \A t, u \in Threads : WaitsFor(t, u) => pc[u] \notin {"idle", "undefined"}
  /\ \A t, u, v, w \in Threads :
       WaitsFor(t, u) /\ WaitsFor(u, v) => ~WaitsFor(v, w)

(* Every call returns (with NoUseAfterUnload: every call that is defined). *)
(* Calls being finitely many stands in for the fairness of std::mutex.     *)
EveryCallReturns == \A t \in Threads : pc[t] # "idle" ~> pc[t] = "idle"

----------------------------------------------------------------------------
(* With loads serialised the runtime implements the registry its interface *)
(* promises: an id is issued once, loaded at most once, and then gone.     *)
Ids == 0 .. Cardinality(Networks)

StatusOf(id) ==
  IF id \in LoadedIds THEN "loaded"
  ELSE IF \E t \in Threads :
            netId[t] = id /\ pc[t] \in {"construct", "store"} THEN "loading"
  ELSE IF \E n \in Networks : idOf[n] = id THEN "gone"
  ELSE "unused"

Registry == INSTANCE NetworkRegistry WITH
              status <- [id \in Ids |-> StatusOf(id)],
              open <- alive \/ LoadedIds # {}
ImplementsRegistry == Registry!Spec
=============================================================================
