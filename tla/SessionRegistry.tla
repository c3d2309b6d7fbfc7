--------------------------- MODULE SessionRegistry ---------------------------
(***************************************************************************)
(* What the session pool promises to its callers (Get, List, the worker's  *)
(* gRPC server): a table of session ids in which an id is absent, ready or *)
(* disconnected.  A session becomes disconnected only after its OWN event  *)
(* loop has ended, and stays in the table until it is removed; after the   *)
(* pool's context is cancelled every session ends up disconnected or gone. *)
(* Entries, goroutines, the mutex and the metrics are not visible here.    *)
(***************************************************************************)
CONSTANT Ids                  \* session ids

VARIABLES table,              \* what Get and List report for each id
          live,               \* ids whose registered event loop is running
          stopped             \* the pool's context has been cancelled

vars == <<table, live, stopped>>

Init == /\ table = [id \in Ids |-> "absent"]
        /\ live = {}
        /\ stopped = FALSE

Register(id) ==
    /\ table[id] = "absent"
    /\ table' = [table EXCEPT ![id] = "ready"]
    /\ live' = live \cup {id}
    /\ UNCHANGED stopped

LoopEnds(id) ==
    /\ id \in live
    /\ live' = live \ {id}
    /\ UNCHANGED <<table, stopped>>

Disconnect(id) ==
    /\ table[id] = "ready" /\ id \notin live
    /\ table' = [table EXCEPT ![id] = "disconnected"]
    /\ UNCHANGED <<live, stopped>>

Unregister(id) ==
    /\ table[id] # "absent"
    /\ table' = [table EXCEPT ![id] = "absent"]
    /\ live' = live \ {id}
    /\ UNCHANGED stopped

Stop == /\ stopped' = TRUE
        /\ UNCHANGED <<table, live>>

Next == \/ \E id \in Ids : Register(id) \/ LoopEnds(id) \/ Disconnect(id) \/ Unregister(id)
        \/ Stop

Safety == Init /\ [][Next]_vars

(* The event loops obey the context, and a loop that has ended is reported. *)
Spec == /\ Safety
        /\ \A id \in Ids : WF_vars(stopped /\ LoopEnds(id)) /\ WF_vars(Disconnect(id))
==============================================================================
