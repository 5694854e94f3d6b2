--------------------------- MODULE LoadedNetwork ---------------------------
(***************************************************************************)
(* The networks a Runtime holds (src/armnn/LoadedNetwork.cpp): the life of *)
(* each LoadedNetwork object, the working memory it shares between         *)
(* inferences, and the queues an inference fills.  The operators below say *)
(* what each member function does to one network; Runtime.tla says which   *)
(* thread calls them and when.                                             *)
(*                                                                         *)
(* A tensor's value is abstracted to the thread whose call supplied the    *)
(* inputs it was computed from: that is all the properties tell apart.     *)
(***************************************************************************)
CONSTANTS
  Threads,          \* client threads
  Networks,         \* the optimized networks clients own and may load, once each
  MemoryManagers,   \* one per backend of a network that has a memory manager
  NoThread          \* nobody holds the mutex / no call's data

ASSUME NoThreadAssumption == NoThread \notin Threads

VARIABLES
  phase,                  \* the life of each network object
  workingMemMutex,        \* m_WorkingMemMutex: its owner
  isWorkingMemAllocated,  \* m_IsWorkingMemAllocated
  acquired,               \* the memory managers that are acquired
  inputQueue,             \* m_InputQueue: whose inputs are bound
  outputQueue,            \* m_OutputQueue: whose output buffers are bound
  tensors,                \* whose inputs the intermediate tensors hold
  outputs                 \* per thread: whose inputs its output buffers answer

memoryVars == <<workingMemMutex, isWorkingMemAllocated, acquired>>
queueVars  == <<inputQueue, outputQueue, tensors, outputs>>

Phases == {"optimized", "building", "loaded", "destroyed"}

LoadedNetworkTypeOK ==
  /\ phase \in [Networks -> Phases]
  /\ workingMemMutex \in [Networks -> Threads \cup {NoThread}]
  /\ isWorkingMemAllocated \in [Networks -> BOOLEAN]
  /\ acquired \in [Networks -> SUBSET MemoryManagers]
  /\ inputQueue \in [Networks -> Threads \cup {NoThread}]
  /\ outputQueue \in [Networks -> Threads \cup {NoThread}]
  /\ tensors \in [Networks -> Threads \cup {NoThread}]
  /\ outputs \in [Threads -> Threads \cup {NoThread}]

LoadedNetworkInit ==
  /\ phase = [n \in Networks |-> "optimized"]
  /\ workingMemMutex = [n \in Networks |-> NoThread]
  /\ isWorkingMemAllocated = [n \in Networks |-> FALSE]
  /\ acquired = [n \in Networks |-> {}]
  /\ inputQueue = [n \in Networks |-> NoThread]
  /\ outputQueue = [n \in Networks |-> NoThread]
  /\ tensors = [n \in Networks |-> NoThread]
  /\ outputs = [t \in Threads |-> NoThread]

----------------------------------------------------------------------------
(* Construction and destruction.                                           *)

SetPhase(n, p) == phase' = [phase EXCEPT ![n] = p]

(* FreeWorkingMemory: one critical section; releases every manager only if *)
(* the flag says the memory is allocated.                                  *)
FreeUnlocked(n) ==  \* mutant
  /\ isWorkingMemAllocated' = [isWorkingMemAllocated EXCEPT ![n] = FALSE]
  /\ acquired' = [acquired EXCEPT ![n] = {}]
  /\ UNCHANGED workingMemMutex

FreeForgetsRelease(n) ==  \* mutant
  /\ workingMemMutex[n] = NoThread
  /\ isWorkingMemAllocated' = [isWorkingMemAllocated EXCEPT ![n] = FALSE]
  /\ UNCHANGED <<acquired, workingMemMutex>>

FreeWorkingMemory(n) ==
  /\ workingMemMutex[n] = NoThread
  /\ isWorkingMemAllocated' = [isWorkingMemAllocated EXCEPT ![n] = FALSE]
  /\ acquired' = IF isWorkingMemAllocated[n] THEN [acquired EXCEPT ![n] = {}]
                                             ELSE acquired
  /\ UNCHANGED workingMemMutex

(* The end of ~LoadedNetwork, when its body, FreeWorkingMemory, has dropped *)
(* the mutex again: the members go, memory managers, queues and mutex,     *)
(* whoever may have taken the mutex meanwhile.                             *)
Destroy(n) ==
  /\ SetPhase(n, "destroyed")
  /\ isWorkingMemAllocated' = [isWorkingMemAllocated EXCEPT ![n] = FALSE]
  /\ acquired' = [acquired EXCEPT ![n] = {}]
  /\ UNCHANGED <<workingMemMutex, queueVars>>

----------------------------------------------------------------------------
(* EnqueueWorkload: the queues are rebuilt outside any lock.               *)

BindInputs(n, t) ==
  /\ inputQueue' = [inputQueue EXCEPT ![n] = t]
  /\ UNCHANGED <<outputQueue, tensors, outputs>>

BindOutputsNoClear(n, t) ==  \* mutant
  /\ outputQueue' = [outputQueue EXCEPT ![n] = IF @ = NoThread THEN t ELSE @]
  /\ UNCHANGED <<inputQueue, tensors, outputs>>

BindOutputs(n, t) ==
  /\ outputQueue' = [outputQueue EXCEPT ![n] = t]
  /\ UNCHANGED <<inputQueue, tensors, outputs>>

----------------------------------------------------------------------------
(* Execute: the critical section of an inference.                          *)

LockWorkingMem(n, t) ==
  /\ workingMemMutex[n] = NoThread
  /\ workingMemMutex' = [workingMemMutex EXCEPT ![n] = t]
  /\ UNCHANGED <<isWorkingMemAllocated, acquired>>

(* AllocateWorkingMemory, when every Acquire() succeeds.                   *)
AllocateWorkingMemory(n) ==
  /\ isWorkingMemAllocated' = [isWorkingMemAllocated EXCEPT ![n] = TRUE]
  /\ acquired' = IF isWorkingMemAllocated[n] THEN acquired
                 ELSE [acquired EXCEPT ![n] = MemoryManagers]
  /\ UNCHANGED workingMemMutex

(* AllocateWorkingMemory, when an Acquire() throws: the managers before it *)
(* in the map stay acquired, the flag is not set, the lock is dropped.     *)
AllocationThrows(n) ==
  /\ ~isWorkingMemAllocated[n]
  /\ \E done \in SUBSET MemoryManagers :
       /\ done # MemoryManagers
       /\ acquired' = [acquired EXCEPT ![n] = @ \cup done]
  /\ workingMemMutex' = [workingMemMutex EXCEPT ![n] = NoThread]
  /\ UNCHANGED isWorkingMemAllocated

UnlockWorkingMem(n) ==
  /\ workingMemMutex' = [workingMemMutex EXCEPT ![n] = NoThread]
  /\ UNCHANGED <<isWorkingMemAllocated, acquired>>

(* The input workloads copy the bound inputs in, then every workload runs. *)
ExecuteInputsAndWorkloads(n) ==
  /\ tensors' = [tensors EXCEPT ![n] = inputQueue[n]]
  /\ UNCHANGED <<inputQueue, outputQueue, outputs>>

(* The output workloads copy the results to the bound user buffers.        *)
ExecuteOutputs(n) ==
  /\ outputs' = [u \in Threads |-> IF u = outputQueue[n] THEN tensors[n]
                                                         ELSE outputs[u]]
  /\ UNCHANGED <<inputQueue, outputQueue, tensors>>
=============================================================================
