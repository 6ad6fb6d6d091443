-------------------------------- MODULE KeyMap --------------------------------
(****************************************************************************)
(* What src/tools/cuckoohash.h promises: a map from keys to data.  An add   *)
(* enters or replaces one key or fails and changes nothing; a delete        *)
(* removes one key; nothing else changes.                                   *)
(****************************************************************************)
CONSTANTS Keys, Data

VARIABLES
  map,   \* the data under each key, or nothing: a set of at most one element
  ret    \* what the latest add or delete returned

vars == <<map, ret>>

Init == map = [k \in Keys |-> {}] /\ ret = "ok"

Add(k, d) == ret' = "ok" /\ map' = [map EXCEPT ![k] = {d}]

AddFails == ret' = "ENOSPC" /\ UNCHANGED map

Delete(k) == ret' = "ok" /\ map[k] # {} /\ map' = [map EXCEPT ![k] = {}]

DeleteFails(k) == ret' = "ENOENT" /\ map[k] = {} /\ UNCHANGED map

\* Delete and Add say what map'[k] is; to ask for it first spares TLC the rest.
Next ==
  \/ AddFails
  \/ \E k \in Keys :
       \/ map'[k] = {} /\ (Delete(k) \/ DeleteFails(k))
       \/ \E d \in map'[k] \cap Data : Add(k, d)

Spec == Init /\ [][Next]_vars
=============================================================================
