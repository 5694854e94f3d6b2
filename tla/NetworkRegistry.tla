-------------------------- MODULE NetworkRegistry --------------------------
(***************************************************************************)
(* What IRuntime promises of network ids: LoadNetwork hands out an id that *)
(* was never used, the network is loaded under it at most once, and an     *)
(* UnloadNetwork that succeeds ends it for good.                           *)
(***************************************************************************)
CONSTANT Ids
VARIABLES
  status,
  open     \* the runtime exists

Statuses == {"unused", "loading", "loaded", "gone"}

Init == open = TRUE /\ status = [id \in Ids |-> "unused"]

Move(id, from, to) ==
  /\ open
  /\ status[id] = from
  /\ UNCHANGED open
  /\ status' = [status EXCEPT ![id] = to]

Issue(id)  == Move(id, "unused", "loading")
Load(id)   == Move(id, "loading", "loaded")
Fail(id)   == Move(id, "loading", "gone")
Unload(id) == Move(id, "loaded", "gone")

(* The runtime goes away with what could not be unloaded.                  *)
Shutdown ==
  /\ open
  /\ open' = FALSE
  /\ status' = [id \in Ids |-> IF status[id] = "loaded" THEN "gone" ELSE status[id]]

Next == Shutdown \/ \E id \in Ids : Issue(id) \/ Load(id) \/ Fail(id) \/ Unload(id)

Spec == Init /\ [][Next]_<<status, open>>
=============================================================================
