-------------------------- MODULE ClBackendContext --------------------------
(***************************************************************************)
(* The GpuAcc backend's context (src/backends/cl/ClBackendContext.cpp).    *)
(* It is told of every load and unload of the runtime, keeps the ids of    *)
(* the loaded networks, and clears the process-wide OpenCL program cache   *)
(* and context when it believes no network is left.  The other backends    *)
(* of the repository return no context.                                    *)
(***************************************************************************)
EXTENDS Naturals

VARIABLES
  clNetworkIds,   \* m_NetworkIds
  cleared         \* networks that existed when the CL cache was cleared

clVars == <<clNetworkIds, cleared>>

ClInit == clNetworkIds = {} /\ cleared = {}

AfterLoadNetwork(id) ==
  /\ clNetworkIds' = clNetworkIds \cup {id}
  /\ UNCHANGED cleared

(* The decision to clear is taken under the context's mutex ...            *)
AfterUnloadNetwork(id) ==
  /\ clNetworkIds' = clNetworkIds \ {id}
  /\ UNCHANGED cleared

NoNetworksLeft(id) == clNetworkIds \ {id} = {}

(* ... and acted upon after the mutex is released: the OpenCL context is   *)
(* replaced under every network in "existing".                             *)
ClearClCache(existing) ==
  /\ cleared' = cleared \cup existing
  /\ UNCHANGED clNetworkIds
=============================================================================
