-------------------------- MODULE SessionPlacement --------------------------
(***************************************************************************)
(* Where sessions run and what the database says about it: the REST create *)
(* and delete handlers, the bulk service, assignment, removal and drain in *)
(* the worker manager, and the callback that restores the sessions of a    *)
(* worker that registers.                                                  *)
(*                                                                         *)
(* A session id is fresh for each create call.  Accounts and bots follow   *)
(* the same steps and are not told apart.  A worker id stands for one      *)
(* worker process.  A call to a worker may fail, executed or not.  At most *)
(* one drain of a worker and one removal of a session run at a time.       *)
(***************************************************************************)
EXTENDS Naturals, FiniteSets

CONSTANTS Sessions, Workers, Nil, MaxEvents

ASSUME PlacementAssumption == Nil \notin Workers \cup Sessions /\ MaxEvents \in Nat

VARIABLES
  table,      \* workers registered with the manager
  running,    \* the sessions in each worker's pool
  row,        \* the session's row: "none", "present" or "deleted"
  rowWorker,  \* the row's worker_id
  create,     \* where the create call of each session is
  bulk,       \* the sessions created through the bulk service
  dest,       \* the worker picked for the session, Nil once its client is closed
  remove,     \* the worker the RemoveSessions item of each session has to call
  drain,      \* "idle", "open", or "closed" once the drained worker's client is
  todo,       \* the sessions each DrainWorker call has listed and not handled
  move,       \* <<session, worker>> it has added there and not removed here
  failed,     \* the sessions its result reports as failed
  listing,    \* workers whose onWorkerReady callback has to list the rows
  restore,    \* the sessions the callbacks have listed and not started
  drained,    \* history: <<session, worker>> for each start by a drain
  events      \* requests other than create, and restarts, so far: at most MaxEvents

createVars == <<create, bulk, dest>>
rowVars == <<row, rowWorker>>
drainVars == <<drain, todo, move, failed, drained>>
readyVars == <<listing, restore>>
vars == <<table, running, rowVars, createVars, remove, drainVars, readyVars, events>>

NoRemove == "no"
NoMove == <<Nil, Nil>>

Init ==
  /\ table = Workers /\ running = [w \in Workers |-> {}]
  /\ row = [s \in Sessions |-> "none"] /\ rowWorker = [s \in Sessions |-> Nil]
  /\ create = [s \in Sessions |-> "new"] /\ bulk \in SUBSET Sessions
  /\ dest = [s \in Sessions |-> Nil] /\ remove = [s \in Sessions |-> NoRemove]
  /\ drain = [w \in Workers |-> "idle"] /\ todo = [w \in Workers |-> {}]
  /\ move = [w \in Workers |-> NoMove] /\ failed = [w \in Workers |-> {}] /\ drained = {}
  /\ listing = {} /\ restore = [w \in Workers |-> {}] /\ events = 0

Event == events < MaxEvents /\ events' = events + 1

-----------------------------------------------------------------------------
(* What a worker answers to GetMetrics and ListSessions. *)
SessionCount(w) == Cardinality(running[w])
ListSessions(w) == running[w]

(* leastLoaded and leastLoadedExcluding: the fewest sessions, where a worker that
   does not answer counts as empty. *)
Load(w, silent) == IF w \in silent THEN 0 ELSE SessionCount(w)

LeastLoaded(cands) ==
  {w \in cands : \E silent \in SUBSET cands : \A v \in cands : Load(w, silent) <= Load(v, silent)}

(* The worker's AddBot and AddAccount: the pool refuses an id it holds. *)
Starts(w, s) == s \notin running[w] /\ running' = [running EXCEPT ![w] = @ \cup {s}]

CreateGoes(s, from, to) == create[s] = from /\ create' = [create EXCEPT ![s] = to]

(* Service.Add inserts the row, or the call ends. *)
CreateRow(s) ==
  /\ CreateGoes(s, "new", "row")
  /\ row' = [row EXCEPT ![s] = "present"]
  /\ UNCHANGED <<table, running, rowWorker, bulk, dest, remove, drainVars, readyVars>>

(* AssignBot and AssignAccount pick a worker. *)
Pick(s) ==
  /\ \/ CreateGoes(s, "row", "picked") /\ \E w \in LeastLoaded(table) : dest' = [dest EXCEPT ![s] = w]
     \/ table = {} /\ CreateGoes(s, "row", "failed") /\ UNCHANGED dest
  /\ UNCHANGED <<table, running, rowVars, bulk, remove, drainVars, readyVars>>

AssignSucceeds(s) ==
  /\ dest[s] # Nil /\ Starts(dest[s], s)
  /\ CreateGoes(s, "picked", IF s \in bulk THEN "done" ELSE "assigned")
  /\ dest' = IF s \in bulk THEN [dest EXCEPT ![s] = Nil] ELSE dest
  /\ UNCHANGED <<table, rowVars, bulk, remove, drainVars, readyVars>>

(* The call fails, executed or not; the handler answers 500 and the row stays. *)
AssignFails(s) ==
  /\ CreateGoes(s, "picked", "failed") /\ dest' = [dest EXCEPT ![s] = Nil]
  /\ (dest[s] # Nil /\ Starts(dest[s], s)) \/ UNCHANGED running
  /\ UNCHANGED <<table, rowVars, bulk, remove, drainVars, readyVars>>

(* The worker is picked again for the update. *)
Record_PicksAgain(s) ==
  /\ CreateGoes(s, "assigned", "done") /\ dest' = [dest EXCEPT ![s] = Nil]
  /\ row[s] = "present"
  /\ \E w \in LeastLoaded(table) : rowWorker' = [rowWorker EXCEPT ![s] = w]
  /\ UNCHANGED <<table, running, row, bulk, remove, drainVars, readyVars>>

(* UpdateStatus and UpdateWorkerID: errors are ignored, a deleted row stays away. *)
Record(s) ==
  /\ CreateGoes(s, "assigned", "done") /\ dest' = [dest EXCEPT ![s] = Nil]
  /\ \/ row[s] = "present" /\ rowWorker' = [rowWorker EXCEPT ![s] = dest[s]]
     \/ UNCHANGED rowWorker
  /\ UNCHANGED <<table, running, row, bulk, remove, drainVars, readyVars>>

(* DELETE of the account or bot: the row goes, the worker is not told. *)
DeleteRow(s) ==
  /\ row[s] = "present" /\ row' = [row EXCEPT ![s] = "deleted"]
  /\ rowWorker' = [rowWorker EXCEPT ![s] = Nil]
  /\ UNCHANGED <<table, running, createVars, remove, drainVars, readyVars>>

-----------------------------------------------------------------------------
(* RemoveSessions, one item: resolveWorkerID (with no row, the item fails). *)
RemoveResolves(s) ==
  /\ remove[s] = NoRemove /\ row[s] = "present"
  /\ remove' = [remove EXCEPT ![s] = rowWorker[s]]
  /\ UNCHANGED <<table, running, rowVars, createVars, drainVars, readyVars>>

RemoveItemEnds(s) ==
  /\ remove[s] # NoRemove /\ remove' = [remove EXCEPT ![s] = NoRemove]
  /\ UNCHANGED <<table, rowVars, createVars, drainVars, readyVars>>

(* Mutant: a worker that is not registered counts as done. *)
RemoveOK_NoWorkerIsFine(s) ==
  /\ RemoveItemEnds(s)
  /\ \/ remove[s] \notin table /\ UNCHANGED running
     \/ /\ remove[s] \in table /\ s \in running[remove[s]]
        /\ running' = [running EXCEPT ![remove[s]] = @ \ {s}]

(* The item is OK: there is no worker id, or the worker has removed the session. *)
RemoveOK(s) ==
  /\ RemoveItemEnds(s)
  /\ \/ remove[s] = Nil /\ UNCHANGED running
     \/ /\ remove[s] \in table /\ s \in running[remove[s]]
        /\ running' = [running EXCEPT ![remove[s]] = @ \ {s}]

(* The item fails: worker or session not found, or the call fails, executed or not. *)
RemoveFails(s) ==
  /\ RemoveItemEnds(s) /\ remove[s] # Nil
  /\ \/ UNCHANGED running
     \/ remove[s] \in table /\ running' = [running EXCEPT ![remove[s]] = @ \ {s}]

-----------------------------------------------------------------------------
(* DrainWorker finds the worker and lists its sessions. *)
DrainBegins(w) ==
  /\ drain[w] = "idle" /\ w \in table
  /\ drain' = [drain EXCEPT ![w] = "open"] /\ todo' = [todo EXCEPT ![w] = ListSessions(w)]
  /\ UNCHANGED <<table, running, rowVars, createVars, remove, move, failed, drained, readyVars>>

DrainTakes(w, s) ==
  /\ move[w] = NoMove /\ s \in todo[w] /\ todo' = [todo EXCEPT ![w] = @ \ {s}]
  /\ UNCHANGED <<table, rowVars, createVars, remove, drain, readyVars>>

(* The other worker starts the session, with no phone and no token. *)
HandsOver(s, v) == Starts(v, s) /\ drained' = drained \cup {<<s, v>>}

(* No other worker, or its call fails, executed or not: the next session. *)
DrainFails(w, s) ==
  /\ DrainTakes(w, s)
  /\ failed' = [failed EXCEPT ![w] = @ \cup {s}] /\ UNCHANGED move
  /\ UNCHANGED <<running, drained>> \/ \E v \in LeastLoaded(table \ {w}) : HandsOver(s, v)

(* The result of the call to the other worker is not looked at. *)
DrainAdds_IgnoresResult(w, s) ==
  /\ DrainTakes(w, s)
  /\ \E v \in LeastLoaded(table \ {w}) :
       /\ move' = [move EXCEPT ![w] = <<s, v>>]
       /\ HandsOver(s, v) \/ UNCHANGED <<running, drained>>
  /\ UNCHANGED failed

DrainAdds(w, s) ==
  /\ DrainTakes(w, s)
  /\ \E v \in LeastLoaded(table \ {w}) : HandsOver(s, v) /\ move' = [move EXCEPT ![w] = <<s, v>>]
  /\ UNCHANGED failed

(* RemoveSession on the drained worker; its error is only logged. *)
DrainRemoves(w) ==
  /\ move[w] # NoMove /\ move' = [move EXCEPT ![w] = NoMove]
  /\ \/ drain[w] = "open" /\ running' = [running EXCEPT ![w] = @ \ {move[w][1]}]
     \/ UNCHANGED running
  /\ UNCHANGED <<table, rowVars, createVars, remove, drain, todo, failed, drained, readyVars>>

(* RemoveWorker closes the client: calls that were to be made on it fail. *)
Unregister(w) ==
  /\ table' = table \ {w}
  /\ dest' = [s \in Sessions |-> IF create[s] = "picked" /\ dest[s] = w THEN Nil ELSE dest[s]]
  /\ UNCHANGED <<running, rowVars, create, bulk, remove, todo, move, drained, readyVars>>

(* The drain ends with RemoveWorker, whatever its result. *)
DrainEnds(w) ==
  /\ drain[w] # "idle" /\ todo[w] = {} /\ move[w] = NoMove
  /\ drain' = [drain EXCEPT ![w] = "idle"] /\ failed' = [failed EXCEPT ![w] = {}]
  /\ Unregister(w)

RemoveWorker(w) ==
  /\ w \in table /\ Unregister(w) /\ UNCHANGED failed
  /\ drain' = IF drain[w] = "open" THEN [drain EXCEPT ![w] = "closed"] ELSE drain

-----------------------------------------------------------------------------
(* AddWorker registers the worker and starts onWorkerReady. *)
AddWorker(w) ==
  /\ w \notin table /\ table' = table \cup {w} /\ listing' = listing \cup {w}
  /\ UNCHANGED <<running, rowVars, createVars, remove, drainVars, restore>>

(* ListByWorkerID; a deleted row has no worker here. *)
RowsOf(w) == {s \in Sessions : rowWorker[s] = w}

(* onWorkerReady lists the rows of the worker, or returns when it cannot. *)
ReadyLists(w) ==
  /\ w \in listing /\ listing' = listing \ {w}
  /\ \/ restore' = [restore EXCEPT ![w] = @ \cup RowsOf(w)]
     \/ UNCHANGED restore
  /\ UNCHANGED <<table, running, rowVars, createVars, remove, drainVars>>

(* The callback restores the session on the least loaded worker. *)
ReadyAssigns_LeastLoaded(w, s) ==
  /\ s \in restore[w] /\ restore' = [restore EXCEPT ![w] = @ \ {s}]
  /\ (\E v \in LeastLoaded(table) : Starts(v, s)) \/ UNCHANGED running
  /\ UNCHANGED <<table, rowVars, createVars, remove, drainVars, listing>>

(* AssignBotToWorker, AssignAccountToWorker for one row; errors are logged. *)
ReadyAssigns(w, s) ==
  /\ s \in restore[w] /\ restore' = [restore EXCEPT ![w] = @ \ {s}]
  /\ (w \in table /\ Starts(w, s)) \/ UNCHANGED running
  /\ UNCHANGED <<table, rowVars, createVars, remove, drainVars, listing>>

(* A worker process starts again with an empty pool. *)
WorkerRestarts(w) ==
  /\ running' = [running EXCEPT ![w] = {}]
  /\ UNCHANGED <<table, rowVars, createVars, remove, drainVars, readyVars>>

(* Main starts again: its calls are gone, and RestoreWorkers registers the workers
   saved that it reaches, before the callback is set. *)
MainRestarts ==
  /\ table' \in SUBSET Workers
  /\ create' = [s \in Sessions |-> IF create[s] \in {"new", "done"} THEN create[s] ELSE "failed"]
  /\ dest' = [s \in Sessions |-> Nil] /\ remove' = [s \in Sessions |-> NoRemove]
  /\ drain' = [w \in Workers |-> "idle"] /\ todo' = [w \in Workers |-> {}]
  /\ move' = [w \in Workers |-> NoMove] /\ failed' = [w \in Workers |-> {}]
  /\ listing' = {} /\ restore' = [w \in Workers |-> {}]
  /\ UNCHANGED <<running, rowVars, bulk, drained>>

Step(s) ==
  \/ CreateRow(s) \/ Pick(s) \/ AssignSucceeds(s) \/ AssignFails(s) \/ Record(s)
  \/ RemoveOK(s) \/ RemoveFails(s)
  \/ \E w \in Workers : DrainFails(w, s) \/ DrainAdds(w, s) \/ ReadyAssigns(w, s)

WorkerStep(w) == DrainRemoves(w) \/ DrainEnds(w) \/ ReadyLists(w)

WorkerEvent(w) == DrainBegins(w) \/ RemoveWorker(w) \/ AddWorker(w) \/ WorkerRestarts(w)

Next ==
  \/ \E s \in Sessions : Step(s) /\ UNCHANGED events
  \/ \E w \in Workers : WorkerStep(w) /\ UNCHANGED events
  \/ \E s \in Sessions : (DeleteRow(s) \/ RemoveResolves(s)) /\ Event
  \/ \E w \in Workers : WorkerEvent(w) /\ Event
  \/ MainRestarts /\ Event

Spec == Init /\ [][Next]_vars

-----------------------------------------------------------------------------
(* The session runs on the worker because a drain has started it there. *)
ByDrain(s, w) == <<s, w>> \in drained

(* Drains apart, a session never runs on two workers, through restarts, lost answers,
   removals and restores (manager.go:276-332, main.go:116-146). *)
OneRunner ==
  \A s \in Sessions, v, w \in Workers :
    s \in running[v] \cap running[w] /\ ~ByDrain(s, v) /\ ~ByDrain(s, w) => v = w

(* A session whose row names a worker runs on no other, so codes, passwords and
   removals, which are sent to that worker, reach it; only a drain, which does not
   update the row, may have started it elsewhere (account.go:147-156,
   bulk/service.go:114-120, manager.go:200-222). *)
RouteFollowsSession ==
  \A s \in Sessions, w \in Workers :
    rowWorker[s] # Nil /\ s \in running[w] => w = rowWorker[s] \/ ByDrain(s, w)

(* A drain takes from its worker only a session the other worker has started, and
   never one it reports as failed (manager.go:200-221). *)
DrainHandsOver ==
  [][\A w \in Workers : DrainRemoves(w) =>
       \A s \in running[w] \ running'[w] : s \notin failed[w] /\ move[w] \in drained /\ move[w][2] # w]_vars

(* When RemoveSessions reports OK for a session whose row named a worker, no worker
   runs the session, unless a drain has started it there.  Of a session with no worker
   id, which is every session created in bulk, it reports OK and stops nothing
   (bulk/service.go:107-128). *)
RemoveOKStops ==
  [][\A s \in Sessions : RemoveOK(s) /\ remove[s] # Nil =>
       \A w \in Workers : s \in running'[w] => ByDrain(s, w)]_vars
==============================================================================
