------------------------ MODULE WorkerRegistryProofs ------------------------
(***************************************************************************)
(* Theorems about WorkerRegistry, for any workers, connections and number  *)
(* of restarts of the main node.                                           *)
(***************************************************************************)
EXTENDS WorkerRegistry, TLAPS

Registered == {"registered", "persisted", "done"}

Types ==
  /\ workers \in [WorkerIds -> Conns \cup {Nil}]
  /\ store \in SUBSET WorkerIds
  /\ removing \in WorkerIds \cup {Nil}
  /\ idOf \in [Conns -> WorkerIds \cup {Nil}]
  /\ add \in [Conns -> {"none", "failed", "dialled", "healthy"} \cup Registered]
  /\ closed \in SUBSET Conns
  /\ saved \in SUBSET Conns
  /\ phase \in {"starting", "restoring", "serving"}
  /\ pending \in SUBSET WorkerIds

(* A connection in the table is open, registered, and under its own id. *)
Table ==
  \A id \in WorkerIds : workers[id] # Nil =>
    workers[id] \notin closed /\ add[workers[id]] \in Registered /\ idOf[workers[id]] = id

(* A call under way has an id; its connection is closed only if it has failed or
   once it has been registered, and saved only after that. *)
Calls ==
  \A c \in Conns :
    /\ add[c] # "none" => idOf[c] \in WorkerIds
    /\ add[c] \in {"none", "dialled", "healthy"} => c \notin closed
    /\ add[c] = "failed" => c \in closed
    /\ c \in saved => add[c] \in {"persisted", "done"}

(* Nothing is registered under the id RemoveWorker is about to delete from the
   store: it holds the lock that registration needs. *)
Locked == removing # Nil => workers[removing] = Nil

(* No call is made before the store has been listed. *)
Starting == phase = "starting" => removing = Nil /\ \A c \in Conns : add[c] = "none"

(* Each saved worker is still to be tried, under way, registered or has failed. *)
Restoring ==
  phase = "restoring" =>
    /\ removing = Nil
    /\ \A c \in Conns : add[c] \in Registered => workers[idOf[c]] # Nil
    /\ \A id \in store :
         \/ id \in pending \/ workers[id] # Nil
         \/ \E c \in Conns : idOf[c] = id /\ add[c] \in {"dialled", "healthy", "failed"}

IInv == Types /\ Table /\ Calls /\ Locked /\ RegisteredIsSaved /\ Starting /\ Restoring

-----------------------------------------------------------------------------
LEMMA InitIInv == Init => IInv
<1> SUFFICES ASSUME Init PROVE IInv
  OBVIOUS
<1> USE RegistryAssumption DEF Init, FreshProcess
<1>1. Types
  BY DEF Types
<1>2. Table /\ Calls /\ Locked /\ RegisteredIsSaved /\ Starting /\ Restoring
  BY DEF Table, Calls, Locked, RegisteredIsSaved, Starting, Restoring, Registered
<1> QED
  BY <1>1, <1>2 DEF IInv

(* AddWorker up to the dial, for a request or for RestoreWorkers. *)
LEMMA DialIInv ==
  ASSUME NEW c \in Conns, NEW id \in WorkerIds, IInv, Dial(c, id),
         phase # "starting", phase' = phase, pending' \in SUBSET WorkerIds,
         pending \subseteq pending' \cup {id}
  PROVE  IInv'
<1> USE RegistryAssumption DEF IInv, Dial
<1>1. Types'
  BY DEF Types
<1>2. ASSUME NEW d \in Conns, d # c PROVE add'[d] = add[d] /\ idOf'[d] = idOf[d]
  BY <1>2 DEF Types
<1>3. add'[c] = "dialled" /\ idOf'[c] = id
  BY DEF Types
<1>4. \A i \in WorkerIds : workers[i] # c
  BY DEF Types, Table, Registered
<1>5. Table' /\ RegisteredIsSaved'
  BY <1>2, <1>4 DEF Types, Table, RegisteredIsSaved
<1>6. Calls'
  BY <1>2, <1>3 DEF Types, Calls
<1>7. Locked' /\ Starting'
  BY DEF Locked, Starting
<1>8. Restoring'
  BY <1>2, <1>3 DEF Types, Restoring, Registered
<1> QED
  BY <1>1, <1>5, <1>6, <1>7, <1>8

(* One step of an AddWorker call. *)
LEMMA AddStepIInv == ASSUME NEW c \in Conns, IInv, AddStep(c) PROVE IInv'
<1> USE RegistryAssumption DEF IInv, mainVars
<1>0. Starting'
  <2>1. add[c] # "none" /\ phase' = phase
    BY DEF AddStep, HealthFails, HealthSucceeds, Register, Upsert, Start
  <2> QED
    BY <2>1 DEF Starting
<1>1. CASE HealthFails(c)
  <2> USE <1>1 DEF HealthFails
  <2>1. Types'
    BY DEF Types
  <2>2. \A i \in WorkerIds : workers[i] # c
    BY DEF Types, Table, Registered
  <2>3. Table' /\ RegisteredIsSaved' /\ Locked'
    BY <2>2 DEF Types, Table, RegisteredIsSaved, Locked
  <2>4. Calls'
    BY DEF Types, Calls
  <2>5. Restoring'
    BY DEF Types, Restoring, Registered
  <2> QED
    BY <1>0, <2>1, <2>3, <2>4, <2>5
<1>2. CASE HealthSucceeds(c)
  <2> USE <1>2 DEF HealthSucceeds
  <2>1. Types'
    BY DEF Types
  <2>2. \A i \in WorkerIds : workers[i] # c
    BY DEF Types, Table, Registered
  <2>3. Table' /\ RegisteredIsSaved' /\ Locked'
    BY <2>2 DEF Types, Table, RegisteredIsSaved, Locked
  <2>4. Calls'
    BY DEF Types, Calls
  <2>5. Restoring'
    BY DEF Types, Restoring, Registered
  <2> QED
    BY <1>0, <2>1, <2>3, <2>4, <2>5
<1>3. CASE Register(c)
  <2> USE <1>3 DEF Register
  <2>1. idOf[c] \in WorkerIds /\ c \notin closed
    BY DEF Calls
  <2>2. Types'
    BY <2>1 DEF Types, Registered
  <2>3. Table' /\ Locked'
    BY <2>1 DEF Types, Table, Locked, Registered
  <2>4. RegisteredIsSaved'
    BY <2>1 DEF Types, Calls, RegisteredIsSaved
  <2>5. Calls'
    BY DEF Types, Calls
  <2>6. Restoring'
    BY <2>1 DEF Types, Restoring, Registered
  <2> QED
    BY <1>0, <2>2, <2>3, <2>4, <2>5, <2>6
<1>4. CASE Upsert(c)
  <2> USE <1>4 DEF Upsert
  <2>1. idOf[c] \in WorkerIds
    BY DEF Calls
  <2>2. Types'
    BY <2>1 DEF Types, Registered
  <2>3. Table' /\ Locked'
    BY DEF Types, Table, Locked, Registered
  <2>4. RegisteredIsSaved'
    BY DEF Types, Table, RegisteredIsSaved
  <2>5. Calls'
    BY DEF Types, Calls
  <2>6. Restoring'
    BY <2>1 DEF Types, Restoring, Registered
  <2> QED
    BY <1>0, <2>2, <2>3, <2>4, <2>5, <2>6
<1>5. CASE Start(c)
  <2> USE <1>5 DEF Start
  <2>1. Types'
    BY DEF Types, Registered
  <2>2. Table' /\ Locked' /\ RegisteredIsSaved'
    BY DEF Types, Table, Locked, RegisteredIsSaved, Registered
  <2>3. Calls'
    BY DEF Types, Calls
  <2>4. Restoring'
    BY DEF Types, Restoring, Registered
  <2> QED
    BY <1>0, <2>1, <2>2, <2>3, <2>4
<1> QED
  BY <1>1, <1>2, <1>3, <1>4, <1>5 DEF AddStep

LEMMA RemoveIInv ==
  ASSUME IInv, RemoveFromStore \/ \E id \in WorkerIds : RemoveWorker(id)
  PROVE  IInv'
<1> USE RegistryAssumption DEF IInv, callVars, mainVars
<1>1. ASSUME NEW id \in WorkerIds, RemoveWorker(id) PROVE IInv'
  <2> USE <1>1 DEF RemoveWorker
  <2>1. Types'
    BY DEF Types
  <2>2. ASSUME NEW i \in WorkerIds, workers'[i] # Nil
        PROVE  i # id /\ workers'[i] = workers[i]
    BY <2>2, Zenon DEF Types
  <2>3. ASSUME NEW i \in WorkerIds, i # id, workers[i] # Nil
        PROVE  workers[i] # workers[id]
    BY <2>3, Zenon DEF Types, Table
  <2>4. Table' /\ RegisteredIsSaved'
    BY <2>2, <2>3, Zenon DEF Types, Table, RegisteredIsSaved
  <2>5. Calls'
    BY Zenon DEF Types, Table, Calls, Registered
  <2>6. Locked' /\ Starting' /\ Restoring'
    BY ZenonT(60) DEF Types, Locked, Starting, Restoring
  <2> QED
    BY <2>1, <2>4, <2>5, <2>6, Zenon
<1>2. CASE RemoveFromStore
  BY <1>2, Zenon DEF RemoveFromStore, Types, Table, Calls, Locked, RegisteredIsSaved, Starting, Restoring
<1> QED
  BY <1>1, <1>2

(* A restart forgets the table. *)
LEMMA RestartIInv == ASSUME IInv, Restart PROVE IInv'
<1> USE RegistryAssumption DEF IInv, Restart, FreshProcess
<1>1. Types'
  BY Zenon DEF Types
<1>2. Table' /\ Calls' /\ Locked' /\ RegisteredIsSaved' /\ Starting' /\ Restoring'
  BY Zenon DEF Table, Calls, Locked, RegisteredIsSaved, Starting, Restoring, Registered
<1> QED
  BY <1>1, <1>2, Zenon

(* The variables the invariant reads. *)
held == <<workers, store, removing, idOf, add, closed, saved, phase, pending>>

LEMMA HeldIInv == ASSUME IInv, UNCHANGED held PROVE IInv'
  BY Zenon DEF held, IInv, Types, Table, Calls, Locked, RegisteredIsSaved, Starting, Restoring

LEMMA NextIInv == ASSUME IInv, [Next]_vars PROVE IInv'
<1>1. ASSUME NEW c \in Conns, NEW id \in WorkerIds, AddWorker(c, id) PROVE IInv'
  <2>1. pending \in SUBSET WorkerIds
    BY DEF IInv, Types
  <2> QED
    BY <1>1, <2>1, DialIInv DEF AddWorker, mainVars
<1>2. ASSUME NEW c \in Conns, NEW id \in WorkerIds, RestoreNext(c, id) PROVE IInv'
  <2>1. pending \in SUBSET WorkerIds
    BY DEF IInv, Types
  <2> QED
    BY <1>2, <2>1, DialIInv DEF RestoreNext
<1>3. ASSUME NEW c \in Conns, LoopStep(c) \/ StreamEnds(c) PROVE IInv'
  <2>1. UNCHANGED held
    BY <1>3, Zenon DEF LoopStep, Subscribes, SubscribeFails, Delay, StreamEnds, LoopGoes, held, callVars, mainVars
  <2> QED
    BY <2>1, HeldIInv
<1>4. CASE RestoreLists
  <2> USE <1>4 DEF RestoreLists, callVars, IInv
  <2>1. Types'
    BY Zenon DEF Types
  <2>2. Table' /\ Calls' /\ Locked' /\ RegisteredIsSaved' /\ Starting'
    BY SMT DEF Table, Calls, Locked, RegisteredIsSaved, Starting
  <2>3. Restoring'
    BY SMT DEF Starting, Restoring, Registered
  <2> QED
    BY <2>1, <2>2, <2>3, Zenon
<1>5. CASE RestoreEnds
  BY <1>5, RegistryAssumption, Zenon
     DEF RestoreEnds, callVars, IInv, Types, Table, Calls, Locked, RegisteredIsSaved, Starting, Restoring
<1>6. CASE Shutdown \/ (\E id \in WorkerIds : WorkerToggles(id)) \/ UNCHANGED vars
  <2>1. UNCHANGED held
    BY <1>6, Zenon DEF Shutdown, WorkerToggles, vars, held, callVars, mainVars
  <2> QED
    BY <2>1, HeldIInv
<1> QED
  BY <1>1, <1>2, <1>3, <1>4, <1>5, <1>6, AddStepIInv, RemoveIInv, RestartIInv DEF Next

-----------------------------------------------------------------------------
LEMMA Invariant == Spec => []IInv
<1>1. IInv /\ [Next]_vars => IInv'
  BY NextIInv
<1> QED
  BY InitIInv, <1>1, PTL DEF Spec

(* A save that succeeded lasts as long as the worker stays registered, however
   AddWorker, RemoveWorker, failures of the store and restarts of the main node
   interleave (manager.go:82-90, 106-119). *)
THEOREM RegisteredIsSavedSafe == Spec => []RegisteredIsSaved
<1>1. IInv => RegisteredIsSaved
  BY DEF IInv
<1> QED
  BY <1>1, Invariant, PTL

(* The table holds open connections only, each under its own id, and a failed
   AddWorker leaves its connection closed (manager.go:76-84, 109-114). *)
THEOREM TableHoldsOpenConnsSafe == Spec => []TableHoldsOpenConns
<1>1. IInv => TableHoldsOpenConns
  BY Zenon DEF IInv, Table, Calls, TableHoldsOpenConns
<1> QED
  BY <1>1, Invariant, PTL

(* When RestoreWorkers has listed the store, every saved worker is registered or has
   failed its health check by the time main serves; and until then no saved worker is
   lost, whatever fails (manager.go:131-147). *)
THEOREM RestoreTriesAllSafe == Spec => RestoreTriesAll
<1> DEFINE Tried ==
      phase = "restoring" /\ phase' = "serving" =>
        \A id \in store :
          workers[id] # Nil \/ \E c \in Conns : idOf[c] = id /\ add[c] = "failed"
<1>1. ASSUME IInv, [Next]_vars PROVE Tried
  <2> SUFFICES ASSUME phase = "restoring", phase' = "serving" PROVE Tried
    BY Zenon
  <2>1. RestoreEnds
    BY <1>1, Zenon
       DEF Next, AddWorker, RestoreNext, Dial, AddStep, HealthFails, HealthSucceeds, Register,
           Upsert, Start, LoopStep, Subscribes, SubscribeFails, Delay, StreamEnds, LoopGoes,
           RemoveWorker, WorkerToggles, RemoveFromStore, RestoreLists, Shutdown, Restart, vars,
           mainVars
  <2> QED
    BY <1>1, <2>1, SMTT(60) DEF RestoreEnds, IInv, Restoring, Pending, InProgress
<1>2. ASSUME IInv, [Next]_vars, phase # "serving" PROVE store \subseteq store'
  <2>1. removing = Nil
    BY <1>2, Zenon DEF IInv, Types, Starting, Restoring
  <2>2. UNCHANGED store \/ \E c \in Conns : Upsert(c)
    BY <1>2, <2>1, Zenon
       DEF Next, AddWorker, RestoreNext, Dial, AddStep, HealthFails, HealthSucceeds, Register,
           Start, LoopStep, Subscribes, SubscribeFails, Delay, StreamEnds, LoopGoes,
           RemoveWorker, WorkerToggles, RemoveFromStore, RestoreLists, RestoreEnds, Shutdown,
           Restart, vars
  <2> QED
    BY <2>2 DEF Upsert
<1>3. IInv /\ [Next]_vars => [Tried /\ (phase # "serving" => store \subseteq store')]_vars
  BY <1>1, <1>2, Zenon
<1> QED
  BY <1>3, Invariant, PTL DEF Spec, RestoreTriesAll
=============================================================================
