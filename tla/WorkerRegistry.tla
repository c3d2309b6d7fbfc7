--------------------------- MODULE WorkerRegistry ---------------------------
(***************************************************************************)
(* The worker table of the main node (internal/worker/manager/manager.go): *)
(* AddWorker and RemoveWorker calls that overlap, the table of the workers *)
(* saved in PostgreSQL, RestoreWorkers after a restart, and the loop that  *)
(* keeps each worker's update stream open.                                 *)
(*                                                                         *)
(* A connection (wc.Client) stands for the AddWorker call that dials it.   *)
(* Workers come and go as the environment likes, and every call to the     *)
(* store may fail: the manager only logs it and goes on.                   *)
(***************************************************************************)
EXTENDS Naturals

CONSTANTS
  WorkerIds, Conns, Nil,
  MaxCrashes   \* bound: restarts of the main node

ASSUME RegistryAssumption ==
  /\ Nil \notin WorkerIds \cup Conns
  /\ MaxCrashes \in Nat

VARIABLES
  workers,    \* m.workers
  store,      \* ids in the workers table of the database
  removing,   \* the RemoveWorker call that holds m.mu
  idOf,       \* the id each connection was dialled for
  add,        \* where the AddWorker call of each connection is
  closed,     \* connections that have been closed
  api,        \* connections whose AddWorker was called with the server's context
  saved,      \* history: connections whose Upsert has returned nil
  hooked,     \* connections for which onWorkerReady has been started
  loop,       \* where the subscribeLoop of each connection is
  phase,      \* main: "starting" and "restoring" (RestoreWorkers), then "serving"
  pending,    \* ids RestoreWorkers has listed and not tried
  ctxDone,    \* the server's context has been cancelled
  reachable,  \* workers that answer
  crashes

callVars == <<idOf, add, closed, api, saved, hooked>>
mainVars == <<phase, pending, ctxDone>>
envVars == <<reachable, crashes>>
vars == <<workers, store, removing, callVars, loop, mainVars, envVars>>

InProgress == {"dialled", "healthy", "registered", "persisted"}
Pending(c) == add[c] \in InProgress

(* manager.New: a fresh process has no worker and no connection. *)
FreshProcess ==
  [workers |-> [id \in WorkerIds |-> Nil], idOf |-> [c \in Conns |-> Nil],
   add |-> [c \in Conns |-> "none"], loop |-> [c \in Conns |-> "none"]]

Init ==
  /\ workers = FreshProcess.workers /\ idOf = FreshProcess.idOf /\ add = FreshProcess.add
  /\ loop = FreshProcess.loop
  /\ store = {} /\ removing = Nil
  /\ closed = {} /\ api = {} /\ saved = {} /\ hooked = {}
  /\ phase = "starting" /\ pending = {} /\ ctxDone = FALSE
  /\ reachable = WorkerIds /\ crashes = 0

-----------------------------------------------------------------------------
(* AddWorker up to the dial: the duplicate test under the lock, which is then
   released. *)
Dial(c, id) ==
  /\ add[c] = "none" /\ removing = Nil /\ workers[id] = Nil
  /\ add' = [add EXCEPT ![c] = "dialled"]
  /\ idOf' = [idOf EXCEPT ![c] = id]
  /\ UNCHANGED <<workers, store, removing, closed, saved, hooked, loop, envVars>>

(* POST /workers *)
AddWorker(c, id) ==
  /\ phase = "serving" /\ Dial(c, id)
  /\ api' = api \cup {c}
  /\ UNCHANGED mainVars

(* The health check, bounded by five seconds, may fail even if the worker answers. *)
HealthFails(c) ==
  /\ add[c] = "dialled"
  /\ add' = [add EXCEPT ![c] = "failed"]
  /\ closed' = closed \cup {c}
  /\ UNCHANGED <<workers, store, removing, idOf, api, saved, hooked, loop, mainVars, envVars>>

HealthSucceeds(c) ==
  /\ add[c] = "dialled" /\ idOf[c] \in reachable
  /\ add' = [add EXCEPT ![c] = "healthy"]
  /\ UNCHANGED <<workers, store, removing, idOf, closed, api, saved, hooked, loop, mainVars, envVars>>

(* Mutant: the table is written without the lock. *)
Register_Unlocked(c) ==
  /\ add[c] = "healthy"
  /\ add' = [add EXCEPT ![c] = "registered"]
  /\ workers' = [workers EXCEPT ![idOf[c]] = c]
  /\ UNCHANGED <<store, removing, idOf, closed, api, saved, hooked, loop, mainVars, envVars>>

(* m.workers[cfg.ID] = c, under the lock. *)
Register(c) ==
  /\ add[c] = "healthy" /\ removing = Nil
  /\ add' = [add EXCEPT ![c] = "registered"]
  /\ workers' = [workers EXCEPT ![idOf[c]] = c]
  /\ UNCHANGED <<store, removing, idOf, closed, api, saved, hooked, loop, mainVars, envVars>>

(* store.Upsert, with no lock.  An error (the context cancelled, the database
   away) is logged and AddWorker goes on; the row may have been written all the
   same. *)
Upsert(c) ==
  /\ add[c] = "registered"
  /\ add' = [add EXCEPT ![c] = "persisted"]
  /\ \/ store' = store \cup {idOf[c]} /\ saved' = saved \cup {c}
     \/ store' \in {store, store \cup {idOf[c]}} /\ UNCHANGED saved
  /\ UNCHANGED <<workers, removing, idOf, closed, api, hooked, loop, mainVars, envVars>>

(* Mutant: the loop is not started. *)
Start_NoLoop(c) ==
  /\ add[c] = "persisted"
  /\ add' = [add EXCEPT ![c] = "done"]
  /\ hooked' = hooked \cup {c}
  /\ UNCHANGED <<workers, store, removing, idOf, closed, api, saved, loop, mainVars, envVars>>

(* The loop and, once main has set it, the onWorkerReady callback are started and
   AddWorker returns nil. *)
Start(c) ==
  /\ add[c] = "persisted"
  /\ add' = [add EXCEPT ![c] = "done"]
  /\ loop' = [loop EXCEPT ![c] = "connecting"]
  /\ hooked' = IF phase = "serving" THEN hooked \cup {c} ELSE hooked
  /\ UNCHANGED <<workers, store, removing, idOf, closed, api, saved, mainVars, envVars>>

-----------------------------------------------------------------------------
(* Mutant: the closed connection stays in the table. *)
RemoveWorker_NoDelete(id) ==
  /\ phase = "serving" /\ removing = Nil /\ workers[id] # Nil
  /\ removing' = id
  /\ closed' = closed \cup {workers[id]}
  /\ UNCHANGED <<workers, store, idOf, add, api, saved, hooked, loop, mainVars, envVars>>

(* RemoveWorker takes the lock, closes the connection and forgets it... *)
RemoveWorker(id) ==
  /\ phase = "serving" /\ removing = Nil /\ workers[id] # Nil
  /\ removing' = id
  /\ closed' = closed \cup {workers[id]}
  /\ workers' = [workers EXCEPT ![id] = Nil]
  /\ UNCHANGED <<store, idOf, add, api, saved, hooked, loop, mainVars, envVars>>

(* ...then deletes it from the store, an error of which is logged, and releases
   the lock. *)
RemoveFromStore ==
  /\ removing # Nil
  /\ store' \in {store \ {removing}, store}
  /\ removing' = Nil
  /\ UNCHANGED <<workers, callVars, loop, mainVars, envVars>>

-----------------------------------------------------------------------------
(* RestoreWorkers lists the store; if that fails it returns and main goes on. *)
RestoreLists ==
  /\ phase = "starting"
  /\ \/ phase' = "restoring" /\ pending' = store
     \/ phase' = "serving" /\ UNCHANGED pending
  /\ UNCHANGED <<workers, store, removing, callVars, loop, ctxDone, envVars>>

(* It adds the saved workers one after the other, before main sets onWorkerReady and
   serves requests. *)
RestoreNext(c, id) ==
  /\ phase = "restoring" /\ id \in pending /\ \A d \in Conns : ~Pending(d)
  /\ Dial(c, id)
  /\ pending' = pending \ {id}
  /\ UNCHANGED <<api, phase, ctxDone>>

(* Mutant: the first worker that cannot be restored ends the loop. *)
RestoreEnds_AtFailure ==
  /\ phase = "restoring" /\ \A c \in Conns : ~Pending(c)
  /\ pending = {} \/ \E c \in Conns : add[c] = "failed"
  /\ phase' = "serving" /\ pending' = {}
  /\ UNCHANGED <<workers, store, removing, callVars, loop, ctxDone, envVars>>

RestoreEnds ==
  /\ phase = "restoring" /\ pending = {} /\ \A c \in Conns : ~Pending(c)
  /\ phase' = "serving"
  /\ UNCHANGED <<workers, store, removing, callVars, loop, pending, ctxDone, envVars>>

-----------------------------------------------------------------------------
LoopGoes(c, from, to) ==
  /\ loop[c] = from
  /\ loop' = [loop EXCEPT ![c] = to]
  /\ UNCHANGED <<workers, store, removing, callVars, mainVars, envVars>>

Cancelled(c) == ctxDone /\ c \in api

(* subscribeLoop.  "connecting" is the test of ctx.Err() at the top and the start of
   Subscribe, which fails at once if the context is cancelled in between.  Here the
   stream opens. *)
Subscribes(c) ==
  /\ ~Cancelled(c) /\ c \notin closed /\ idOf[c] \in reachable
  /\ LoopGoes(c, "connecting", "streaming")

(* Mutant: Subscribe is called with a context of its own. *)
SubscribeFails_OwnContext(c) ==
  /\ c \in closed \/ idOf[c] \notin reachable
  /\ \E from \in {"connecting", "streaming"} :
       LoopGoes(c, from, IF Cancelled(c) THEN "ended" ELSE "waiting")

(* Subscribe returns an error: it could not open the stream, or the stream broke or
   was cancelled.  ctx.Err() is tested first. *)
SubscribeFails(c) ==
  /\ c \in closed \/ idOf[c] \notin reachable \/ Cancelled(c)
  /\ \E from \in {"connecting", "streaming"} :
       LoopGoes(c, from, IF Cancelled(c) THEN "ended" ELSE "waiting")

(* The worker ends the stream (io.EOF): Subscribe returns nil, no delay. *)
StreamEnds(c) ==
  LoopGoes(c, "streaming", IF Cancelled(c) THEN "ended" ELSE "connecting")

(* The select of the delay: a cancelled context ends the loop, unless the timer is
   ready too and is chosen.  The delay, doubled from one second up to 32, always
   ends; its length is left out. *)
Delay(c) ==
  \/ Cancelled(c) /\ LoopGoes(c, "waiting", "ended")
  \/ LoopGoes(c, "waiting", "connecting")

-----------------------------------------------------------------------------
(* main's shutdown cancels the context of the REST server. *)
Shutdown ==
  /\ phase = "serving" /\ ~ctxDone /\ ctxDone' = TRUE
  /\ UNCHANGED <<workers, store, removing, callVars, loop, phase, pending, envVars>>

(* The main node stops at any point and starts again. *)
Restart ==
  /\ crashes < MaxCrashes /\ crashes' = crashes + 1
  /\ workers' = FreshProcess.workers /\ idOf' = FreshProcess.idOf /\ add' = FreshProcess.add
  /\ loop' = FreshProcess.loop
  /\ closed' = {} /\ api' = {} /\ saved' = {} /\ hooked' = {}
  /\ removing' = Nil /\ phase' = "starting" /\ pending' = {} /\ ctxDone' = FALSE
  /\ UNCHANGED <<store, reachable>>

(* External: a worker goes down or comes back. *)
WorkerToggles(id) ==
  /\ reachable' = IF id \in reachable THEN reachable \ {id} ELSE reachable \cup {id}
  /\ UNCHANGED <<workers, store, removing, callVars, loop, mainVars, crashes>>

AddStep(c) ==
  HealthFails(c) \/ HealthSucceeds(c) \/ Register(c) \/ Upsert(c) \/ Start(c)

LoopStep(c) == Subscribes(c) \/ SubscribeFails(c) \/ Delay(c)

Next ==
  \/ \E c \in Conns, id \in WorkerIds : AddWorker(c, id) \/ RestoreNext(c, id)
  \/ \E c \in Conns : AddStep(c) \/ LoopStep(c) \/ StreamEnds(c)
  \/ \E id \in WorkerIds : RemoveWorker(id) \/ WorkerToggles(id)
  \/ RemoveFromStore \/ RestoreLists \/ RestoreEnds \/ Shutdown \/ Restart

Spec == Init /\ [][Next]_vars

(* Goroutines run, health checks and the store answer (with an error or without),
   Subscribe opens a stream to a worker that stays reachable and returns once it cannot
   or its context is cancelled, and delays end. *)
Fairness ==
  /\ \A c \in Conns : WF_vars(AddStep(c)) /\ WF_vars(LoopStep(c))
  /\ WF_vars(RemoveFromStore) /\ WF_vars(RestoreLists) /\ WF_vars(RestoreEnds)
  /\ WF_vars(\E c \in Conns, id \in WorkerIds : RestoreNext(c, id))

FairSpec == Spec /\ Fairness

-----------------------------------------------------------------------------
(* A save that succeeded is not undone: as long as the worker whose Upsert returned
   nil stays registered it is in the store, to be restored after a restart, whatever
   other AddWorker and RemoveWorker calls for its id do, because RemoveWorker deletes
   under the lock that registration needs (manager.go:82-90, 106-119).  A worker whose
   Upsert failed is registered all the same and may not survive (manager.go:87-89). *)
RegisteredIsSaved ==
  \A id \in WorkerIds : workers[id] # Nil /\ workers[id] \in saved => id \in store

(* Sessions are assigned to open connections only: the table never holds a closed
   one, and holds each under its own id; a failed AddWorker leaves its connection
   closed and unregistered (manager.go:76-84, 109-114). *)
TableHoldsOpenConns ==
  /\ \A id \in WorkerIds :
       workers[id] # Nil => workers[id] \notin closed /\ idOf[workers[id]] = id
  /\ \A c \in Conns : add[c] = "failed" => c \in closed

(* RestoreWorkers, once it has listed the store, tries every saved worker: when main
   starts to serve, each one is registered or has failed its health check.  Whatever
   fails before, the list included, no saved worker is lost to the next start
   (manager.go:131-147). *)
RestoreTriesAll ==
  [][/\ phase = "restoring" /\ phase' = "serving" =>
          \A id \in store :
            workers[id] # Nil \/ \E c \in Conns : idOf[c] = id /\ add[c] = "failed"
     /\ phase # "serving" => store \subseteq store']_vars

(* "keeps subscription streams alive" (manager.go:38): the stream of a worker that
   stays registered and reachable is open again and again, whatever failed before. *)
StreamsKeptAlive ==
  \A c \in Conns, id \in WorkerIds :
    <>[](workers[id] = c /\ id \in reachable /\ ~ctxDone) => []<>(loop[c] = "streaming")

(* "ctx controls the lifetime of the subscribe loop" (manager.go:59): a loop started
   by a request ends once the server's context is cancelled, wherever it is. *)
LoopsEndWithContext ==
  \A c \in Conns : (ctxDone /\ c \in api /\ loop[c] # "none") ~> (loop[c] \in {"ended", "none"})

-----------------------------------------------------------------------------
(* "expected error on duplicate worker ID" (manager_test.go:90): of two AddWorker
   calls for one id, without a RemoveWorker, one fails. *)
DuplicateAddFails ==
  \A c, d \in Conns :
    c # d /\ add[c] = "done" /\ add[d] = "done" /\ idOf[c] = idOf[d] => c \in closed \/ d \in closed
==============================================================================
