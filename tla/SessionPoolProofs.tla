-------------------------- MODULE SessionPoolProofs --------------------------
(***************************************************************************)
(* Proofs, for any set of ids and entries, of the safety properties of the *)
(* session pool.  The inductive invariant IInv adds to them what the code  *)
(* keeps true between its lock sections: the id of an add in progress is   *)
(* free, and an entry in the pool has been allocated and not cancelled.    *)
(***************************************************************************)
EXTENDS SessionPool, FiniteSetTheorems, TLAPS

(* What relates entries, the map and the add in progress: an add holds a free id, a
   held entry is born and not cancelled by Remove, a born entry has an id. *)
Structure ==
  /\ \A a \in adding : sessions[a[1]] = Nil
  /\ \A id \in Ids : sessions[id] # Nil =>
       Born(sessions[id]) /\ sessions[id] \notin cancelled
  /\ \A e \in Entries : Born(e) => idOf[e] \in Ids
  /\ \A e \in cancelled : Born(e)

(* The inductive invariant. *)
IInv == TypeOK /\ Structure /\ NoOrphanLoop /\ StatusMatchesLoop

Gauges == [Types -> [Statuses -> Int]]

-----------------------------------------------------------------------------
(* The hook callbacks keep the gauges a table of integers. *)
LEMMA HookTypes ==
  ASSUME NEW g \in Gauges, NEW t \in Types, NEW old \in Statuses, NEW new \in Statuses
  PROVE  /\ OnStatusChanged(g, t, old, new) \in Gauges
         /\ OnAdded(g, t) \in Gauges
         /\ OnRemoved(g, t, old) \in Gauges
BY DEF Gauges, OnStatusChanged, OnAdded, OnRemoved, Statuses

(* Every step of the pool keeps the types. *)
LEMMA TypeStep == TypeOK /\ [Next]_vars => TypeOK'
<1> SUFFICES ASSUME TypeOK, [Next]_vars PROVE TypeOK'
  OBVIOUS
<1> USE DEF TypeOK, LoopStates
<1>1. ASSUME NEW id \in Ids, NEW t \in Types, AddBegin(id, t) PROVE TypeOK'
  BY <1>1 DEF AddBegin, entries, metrics
<1>2. ASSUME NEW id \in Ids, NEW t \in Types, AddFails(id, t) PROVE TypeOK'
  BY <1>2 DEF AddFails, entries
<1>3. ASSUME NEW id \in Ids, NEW t \in Types, NEW e \in Entries, AddSucceeds(id, t, e)
      PROVE TypeOK'
  <2>1. gauge' \in Gauges
    BY <1>3, HookTypes, Zenon DEF AddSucceeds, Statuses, Gauges
  <2> QED BY <1>3, <2>1 DEF AddSucceeds, Statuses, Gauges
<1>4. ASSUME NEW id \in Ids, Remove(id) PROVE TypeOK'
  <2>0. PICK e \in Entries : e = sessions[id]
    BY <1>4 DEF Remove
  <2>1. gauge' \in Gauges
    <3>1. gauge \in Gauges /\ typeOf[e] \in Types /\ status[e] \in Statuses
      BY DEF Gauges
    <3>2. gauge' = OnRemoved(gauge, typeOf[e], status[e])
      BY <1>4, <2>0 DEF Remove
    <3> QED BY <3>1, <3>2, HookTypes
  <2> QED BY <1>4, <2>1, Zenon DEF Remove, Gauges
<1>5. ASSUME NEW e \in Entries, CallbackBegin(e) \/ CallbackEnd(e) \/ EventLoopReturns(e)
      PROVE TypeOK'
  BY <1>5, Zenon DEF CallbackBegin, CallbackEnd, EventLoopReturns, LoopGoes, metrics
<1>6. ASSUME NEW e \in Entries, RunLoopTail(e) PROVE TypeOK'
  <2>1. gauge' \in Gauges
    <3>1. /\ gauge \in Gauges /\ typeOf[e] \in Types
          /\ status[e] \in Statuses /\ "disconnected" \in Statuses
      BY Zenon DEF Gauges, Statuses
    <3>2. \/ gauge' = OnStatusChanged(gauge, typeOf[e], status[e], "disconnected")
          \/ gauge' = gauge
      BY <1>6, Zenon DEF RunLoopTail
    <3> QED BY <3>1, <3>2, HookTypes
  <2> QED BY <1>6, <2>1, Zenon DEF RunLoopTail, Statuses, Gauges
<1>7. CASE CancelContext
  BY <1>7, Zenon DEF CancelContext, entries, metrics
<1>8. CASE UNCHANGED vars
  BY <1>8, Zenon DEF vars, entries, metrics
<1> QED BY <1>1, <1>2, <1>3, <1>4, <1>5, <1>6, <1>7, <1>8, Zenon DEF Next, LoopStep

(* A new pool is well typed (pool.go:54-65). *)
LEMMA TypeInit == NewPool => TypeOK
<1> SUFFICES ASSUME NewPool PROVE TypeOK
  OBVIOUS
<1>1. ctxDone \in BOOLEAN
  BY Zenon DEF NewPool
<1> QED BY <1>1 DEF NewPool, TypeOK, LoopStates, Types, Statuses

(* The pool's variables keep their types (pool.go:39-52). *)
THEOREM TypeCorrect == Spec => []TypeOK
BY TypeInit, TypeStep, PTL DEF Spec

-----------------------------------------------------------------------------
(* The structure of the pool and the two invariants about event loops are
   inductive together. *)
LEMMA IInvInit == NewPool => IInv
<1> SUFFICES ASSUME NewPool PROVE IInv
  OBVIOUS
<1>1. TypeOK
  BY TypeInit
<1>2. Structure /\ NoOrphanLoop /\ StatusMatchesLoop
  BY NilAssumption, Zenon DEF NewPool, Structure, Born, NoOrphanLoop, StatusMatchesLoop
<1> QED BY <1>1, <1>2 DEF IInv

(* Every step of the pool keeps the inductive invariant. *)
LEMMA IInvStep == IInv /\ [Next]_vars => IInv'
<1> SUFFICES ASSUME IInv, [Next]_vars PROVE IInv'
  OBVIOUS
<1>0. TypeOK /\ TypeOK'
  BY TypeStep DEF IInv
<1> SUFFICES Structure' /\ NoOrphanLoop' /\ StatusMatchesLoop'
  BY <1>0 DEF IInv
<1> USE <1>0, NilAssumption
        DEF IInv, TypeOK, Structure, NoOrphanLoop, StatusMatchesLoop, Born
<1>1. ASSUME NEW id \in Ids, NEW t \in Types, AddBegin(id, t)
      PROVE  Structure' /\ NoOrphanLoop' /\ StatusMatchesLoop'
  BY <1>1 DEF AddBegin, entries, metrics
<1>2. ASSUME NEW id \in Ids, NEW t \in Types, AddFails(id, t)
      PROVE  Structure' /\ NoOrphanLoop' /\ StatusMatchesLoop'
  BY <1>2, Zenon DEF AddFails, entries
<1>3. ASSUME NEW id \in Ids, NEW t \in Types, NEW e \in Entries, AddSucceeds(id, t, e)
      PROVE  Structure' /\ NoOrphanLoop' /\ StatusMatchesLoop'
  <2>1. sessions[id] = Nil /\ loop[e] = "unborn" /\ \A i \in Ids : sessions[i] # e
    BY <1>3 DEF AddSucceeds
  <2>2. e \notin cancelled
    BY <1>3, Zenon DEF AddSucceeds
  <2> QED BY <1>3, <2>1, <2>2 DEF AddSucceeds
<1>4. ASSUME NEW id \in Ids, Remove(id)
      PROVE  Structure' /\ NoOrphanLoop' /\ StatusMatchesLoop'
  BY <1>4 DEF Remove
<1>5. ASSUME NEW e \in Entries, CallbackBegin(e) \/ CallbackEnd(e) \/ EventLoopReturns(e)
      PROVE  Structure' /\ NoOrphanLoop' /\ StatusMatchesLoop'
  BY <1>5 DEF CallbackBegin, CallbackEnd, EventLoopReturns, LoopGoes, metrics
<1>6. ASSUME NEW e \in Entries, RunLoopTail(e)
      PROVE  Structure' /\ NoOrphanLoop' /\ StatusMatchesLoop'
  BY <1>6 DEF RunLoopTail
<1>7. CASE CancelContext
  BY <1>7, Zenon DEF CancelContext, entries, metrics
<1>8. CASE UNCHANGED vars
  BY <1>8, Zenon DEF vars, entries, metrics
<1> QED BY <1>1, <1>2, <1>3, <1>4, <1>5, <1>6, <1>7, <1>8, Zenon DEF Next, LoopStep

(* No event loop leaks: a goroutine that has not finished belongs to a session
   in the pool or has been cancelled by Remove (pool.go:105-108, 127-129). *)
THEOREM NoOrphanLoopSafe == Spec => []NoOrphanLoop
<1>1. IInv => NoOrphanLoop
  BY DEF IInv
<1> QED BY <1>1, IInvInit, IInvStep, PTL DEF Spec

(* A session in the pool is ready exactly until its own event loop is over,
   whatever late loops of removed sessions do (pool.go:222-229). *)
THEOREM StatusMatchesLoopSafe == Spec => []StatusMatchesLoop
<1>1. IInv => StatusMatchesLoop
  BY DEF IInv
<1> QED BY <1>1, IInvInit, IInvStep, PTL DEF Spec

(* The status reported to OnRemoved is the entry's last one, and an entry never
   comes back to the pool (pool.go:124-131, 224). *)
THEOREM RemovedStatusFrozenSafe == Spec => RemovedStatusFrozen
<1>1. IInv /\ [Next]_vars =>
        [\A e \in Entries : Born(e) /\ ~Held(e) => status'[e] = status[e] /\ ~Held(e)']_vars
  <2> SUFFICES ASSUME IInv, [Next]_vars, NEW f \in Entries, Born(f), ~Held(f)
               PROVE  status'[f] = status[f] /\ ~Held(f)'
    BY Zenon
  <2> USE DEF IInv, TypeOK, Structure, NoOrphanLoop, Held, Born
  <2>1. ASSUME NEW id \in Ids, NEW t \in Types, AddBegin(id, t) \/ AddFails(id, t)
        PROVE  status'[f] = status[f] /\ ~Held(f)'
    BY <2>1, Zenon DEF AddBegin, AddFails, entries
  <2>2. ASSUME NEW id \in Ids, NEW t \in Types, NEW e \in Entries, AddSucceeds(id, t, e)
        PROVE  status'[f] = status[f] /\ ~Held(f)'
    BY <2>2, ZenonT(60) DEF AddSucceeds
  <2>3. ASSUME NEW id \in Ids, Remove(id)
        PROVE  status'[f] = status[f] /\ ~Held(f)'
    BY <2>3, NilAssumption, ZenonT(60) DEF Remove
  <2>4. ASSUME NEW e \in Entries, LoopStep(e)
        PROVE  status'[f] = status[f] /\ ~Held(f)'
    BY <2>4, ZenonT(60) DEF LoopStep, CallbackBegin, CallbackEnd, EventLoopReturns, LoopGoes, RunLoopTail
  <2>5. CASE CancelContext \/ UNCHANGED vars
    BY <2>5, Zenon DEF CancelContext, vars, entries
  <2> QED BY <2>1, <2>2, <2>3, <2>4, <2>5, Zenon DEF Next
<1> QED BY <1>1, IInvInit, IInvStep, PTL DEF Spec, RemovedStatusFrozen

-----------------------------------------------------------------------------
(* What the hook callbacks add to each gauge. *)
LEMMA HookValues ==
  ASSUME NEW g \in Gauges, NEW t \in Types, NEW u \in Types, NEW s \in Statuses
  PROVE  /\ OnStatusChanged(OnAdded(g, t), t, "authorizing", "ready")[u][s]
              = IF u = t /\ s = "ready" THEN g[u][s] + 1 ELSE g[u][s]
         /\ OnStatusChanged(g, t, "ready", "disconnected")[u][s]
              = IF u = t /\ s = "ready" THEN g[u][s] - 1
                ELSE IF u = t /\ s = "disconnected" THEN g[u][s] + 1 ELSE g[u][s]
         /\ \A final \in Statuses : OnRemoved(g, t, final)[u][s]
              = IF u = t /\ s = final THEN g[u][s] - 1 ELSE g[u][s]
BY DEF Gauges, OnStatusChanged, OnAdded, OnRemoved, Statuses

(* One more, or one fewer, session of a type and status. *)
LEMMA CountChanges ==
  ASSUME NEW S \in SUBSET Ids, NEW id \in Ids
  PROVE  /\ Cardinality(S) \in Nat
         /\ id \notin S => Cardinality(S \cup {id}) = Cardinality(S) + 1
         /\ id \in S => Cardinality(S \ {id}) = Cardinality(S) - 1
<1>1. IsFiniteSet(S)
  BY IdsAssumption, FS_Subset
<1> QED BY <1>1, FS_CardinalityType, FS_AddElement, FS_RemoveElement, Zenon

(* The gauges follow the pool through every step. *)
LEMMA GaugeStep == IInv /\ GaugeMatchesPool /\ [Next]_vars => GaugeMatchesPool'
<1> SUFFICES ASSUME IInv, GaugeMatchesPool, [Next]_vars,
                    NEW u \in Types, NEW s \in Statuses
             PROVE  gauge'[u][s] = Cardinality(InPool(u, s)')
  BY Zenon DEF GaugeMatchesPool
<1>0. gauge \in Gauges /\ gauge[u][s] = Cardinality(InPool(u, s)) /\ InPool(u, s) \in SUBSET Ids
  BY Zenon DEF IInv, TypeOK, Gauges, GaugeMatchesPool, InPool
<1>1. ASSUME InPool(u, s)' = InPool(u, s), gauge' = gauge
      PROVE  gauge'[u][s] = Cardinality(InPool(u, s)')
  BY <1>0, <1>1, Zenon
<1>2. ASSUME NEW id \in Ids, NEW t \in Types, AddBegin(id, t) \/ AddFails(id, t)
      PROVE  gauge'[u][s] = Cardinality(InPool(u, s)')
  <2>1. InPool(u, s)' = InPool(u, s) /\ gauge' = gauge
    BY <1>2, Zenon DEF AddBegin, AddFails, InPool, entries, metrics
  <2> QED BY <2>1, <1>1, Zenon
<1>3. ASSUME NEW id \in Ids, NEW t \in Types, NEW e \in Entries, AddSucceeds(id, t, e)
      PROVE  gauge'[u][s] = Cardinality(InPool(u, s)')
  <2>1. sessions[id] = Nil /\ e # Nil /\ \A i \in Ids : sessions[i] # e
    BY <1>3, NilAssumption, Zenon DEF AddSucceeds, IInv, TypeOK, Structure, Born
  <2>2. InPool(u, s)' = IF u = t /\ s = "ready" THEN InPool(u, s) \cup {id} ELSE InPool(u, s)
    BY <1>3, <2>1, ZenonT(60) DEF AddSucceeds, InPool, IInv, TypeOK
  <2>3. id \notin InPool(u, s)
    BY <2>1, Zenon DEF InPool
  <2>4. gauge'[u][s] = IF u = t /\ s = "ready" THEN gauge[u][s] + 1 ELSE gauge[u][s]
    BY <1>0, <1>3, HookValues DEF AddSucceeds
  <2> QED BY <1>0, <2>2, <2>3, <2>4, CountChanges, Zenon
<1>4. ASSUME NEW id \in Ids, Remove(id)
      PROVE  gauge'[u][s] = Cardinality(InPool(u, s)')
  <2> DEFINE e == sessions[id]
             here == u = typeOf[e] /\ s = status[e]
  <2>1. e \in Entries /\ e # Nil /\ typeOf[e] \in Types /\ status[e] \in Statuses
    BY <1>4, Zenon DEF Remove, IInv, TypeOK
  <2>2. InPool(u, s)' = IF here THEN InPool(u, s) \ {id} ELSE InPool(u, s)
    BY <1>4, <2>1, Zenon DEF Remove, InPool, IInv, TypeOK
  <2>3. here => id \in InPool(u, s)
    BY <2>1, Zenon DEF InPool
  <2>4. gauge' = OnRemoved(gauge, typeOf[e], status[e])
    BY <1>4, Zenon DEF Remove
  <2>5. gauge'[u][s] = IF here THEN gauge[u][s] - 1 ELSE gauge[u][s]
    BY <1>0, <2>1, <2>4, HookValues
  <2> HIDE DEF here
  <2> QED BY <1>0, <2>2, <2>3, <2>5, CountChanges, Zenon
<1>5. ASSUME NEW e \in Entries, CallbackBegin(e) \/ CallbackEnd(e) \/ EventLoopReturns(e)
      PROVE  gauge'[u][s] = Cardinality(InPool(u, s)')
  <2>1. InPool(u, s)' = InPool(u, s) /\ gauge' = gauge
    BY <1>5, Zenon DEF CallbackBegin, CallbackEnd, EventLoopReturns, LoopGoes, InPool, metrics
  <2> QED BY <2>1, <1>1, Zenon
<1>6. ASSUME NEW e \in Entries, RunLoopTail(e)
      PROVE  gauge'[u][s] = Cardinality(InPool(u, s)')
  <2>1. CASE sessions[idOf[e]] # e
    <3>1. InPool(u, s)' = InPool(u, s) /\ gauge' = gauge
      BY <1>6, <2>1, Zenon DEF RunLoopTail, InPool
    <3> QED BY <3>1, <1>1
  <2>2. CASE sessions[idOf[e]] = e
    <3>1. PICK id \in Ids : id = idOf[e]
      BY <1>6, Zenon DEF RunLoopTail, IInv, Structure, Born
    <3>2. /\ sessions[id] = e /\ e # Nil
          /\ \A i \in Ids : sessions[i] = e => i = id
          /\ status[e] = "ready" /\ typeOf[e] \in Types
      BY <1>6, <2>2, <3>1, NilAssumption
         DEF RunLoopTail, IInv, TypeOK, NoOrphanLoop, StatusMatchesLoop
    <3>3. status' = [status EXCEPT ![e] = "disconnected"] /\ UNCHANGED <<sessions, typeOf>>
      BY <1>6, <2>2, Zenon DEF RunLoopTail
    <3>4. InPool(u, s)' = IF u = typeOf[e] /\ s = "ready" THEN InPool(u, s) \ {id}
                          ELSE IF u = typeOf[e] /\ s = "disconnected" THEN InPool(u, s) \cup {id}
                          ELSE InPool(u, s)
      BY <3>2, <3>3, ZenonT(60) DEF InPool, IInv, TypeOK
    <3>5. id \in InPool(u, s) <=> u = typeOf[e] /\ s = "ready"
      BY <3>2, Zenon DEF InPool
    <3>6. gauge' = OnStatusChanged(gauge, typeOf[e], "ready", "disconnected")
      BY <1>6, <2>2, <3>2, Zenon DEF RunLoopTail
    <3>7. gauge'[u][s] = IF u = typeOf[e] /\ s = "ready" THEN gauge[u][s] - 1
                ELSE IF u = typeOf[e] /\ s = "disconnected" THEN gauge[u][s] + 1 ELSE gauge[u][s]
      BY <1>0, <3>2, <3>6, HookValues
    <3> QED BY <1>0, <3>4, <3>5, <3>7, CountChanges, Zenon
  <2> QED BY <2>1, <2>2, Zenon
<1>7. CASE CancelContext \/ UNCHANGED vars
  <2>1. InPool(u, s)' = InPool(u, s) /\ gauge' = gauge
    BY <1>7, Zenon DEF CancelContext, vars, InPool, entries, metrics
  <2> QED BY <2>1, <1>1, Zenon
<1> QED BY <1>2, <1>3, <1>4, <1>5, <1>6, <1>7, Zenon DEF Next, LoopStep

(* SessionsActive always equals the contents of the pool, by type and status:
   the hook calls of add, Remove and late runLoop tails balance exactly
   (metrics.go:13, session_hook.go:10-25, pool.go:98-103, 131, 224-228). *)
THEOREM GaugeMatchesPoolSafe == Spec => []GaugeMatchesPool
<1>1. NewPool => GaugeMatchesPool
  <2> SUFFICES ASSUME NewPool, NEW t \in Types, NEW s \in Statuses
               PROVE  gauge[t][s] = Cardinality(InPool(t, s))
    BY Zenon DEF GaugeMatchesPool
  <2>1. InPool(t, s) = {} /\ gauge[t][s] = 0
    BY Zenon DEF NewPool, InPool
  <2> QED BY <2>1, FS_EmptySet, Zenon
<1> QED BY <1>1, IInvInit, IInvStep, GaugeStep, PTL DEF Spec

-----------------------------------------------------------------------------
(* The pool holds an entry at most under the entry's own id. *)
LEMMA HeldById ==
  ASSUME IInv, NEW e \in Entries, NEW i \in Ids, sessions[i] = e
  PROVE  idOf[e] = i
<1>1. sessions[i] # Nil
  BY NilAssumption
<1> QED BY <1>1, Zenon DEF IInv, NoOrphanLoop

(* Every step of the pool is a step of the registry or invisible to it. *)
LEMMA RegistryStep == IInv /\ IInv' /\ [Next]_vars => [Registry!Next]_(Registry!vars)
<1> SUFFICES ASSUME IInv, IInv', [Next]_vars
             PROVE  Registry!Next \/ UNCHANGED <<TableOf, LiveOf, ctxDone>>
  BY DEF Registry!vars
<1> USE NilAssumption DEF IInv, TypeOK, TableOf, LiveOf
<1>1. ASSUME NEW id \in Ids, NEW t \in Types, AddBegin(id, t) \/ AddFails(id, t)
      PROVE  UNCHANGED <<TableOf, LiveOf, ctxDone>>
  BY <1>1 DEF AddBegin, AddFails, entries, metrics
<1>2. ASSUME NEW id \in Ids, NEW t \in Types, NEW e \in Entries, AddSucceeds(id, t, e)
      PROVE  Registry!Register(id)
  <2>1. sessions[id] = Nil /\ e # Nil /\ \A i \in Ids : sessions[i] # e
    BY <1>2, SMTT(60) DEF AddSucceeds, Structure, Born
  <2>2. TableOf[id] = "absent" /\ ctxDone' = ctxDone
    BY <1>2, <2>1, Zenon DEF AddSucceeds
  <2>3. TableOf' = [TableOf EXCEPT ![id] = "ready"]
    BY <1>2, <2>1, Zenon DEF AddSucceeds
  <2>4. LiveOf' = LiveOf \cup {id}
    BY <1>2, <2>1, SMTT(60) DEF AddSucceeds
  <2> QED BY <2>2, <2>3, <2>4, Zenon DEF Registry!Register
<1>3. ASSUME NEW id \in Ids, Remove(id) PROVE Registry!Unregister(id)
  <2>1. TableOf[id] # "absent" /\ ctxDone' = ctxDone
    BY <1>3, Zenon DEF Remove, StatusMatchesLoop
  <2>2. TableOf' = [TableOf EXCEPT ![id] = "absent"]
    BY <1>3, Zenon DEF Remove
  <2>3. LiveOf' = LiveOf \ {id}
    BY <1>3, Zenon DEF Remove
  <2> QED BY <2>1, <2>2, <2>3, Zenon DEF Registry!Unregister
<1>4. ASSUME NEW e \in Entries, CallbackBegin(e) \/ CallbackEnd(e)
      PROVE  UNCHANGED <<TableOf, LiveOf, ctxDone>>
  BY <1>4 DEF CallbackBegin, CallbackEnd, LoopGoes
<1>5. ASSUME NEW e \in Entries, EventLoopReturns(e)
      PROVE  Registry!Next \/ UNCHANGED <<TableOf, LiveOf, ctxDone>>
  <2>1. CASE sessions[idOf[e]] = e
    <3>1. PICK id \in Ids : id = idOf[e]
      BY <1>5, Zenon DEF EventLoopReturns, LoopGoes, Structure, Born
    <3>2. \A i \in Ids : sessions[i] = e <=> i = id
      BY <2>1, <3>1, HeldById, Zenon
    <3>3. id \in LiveOf /\ LiveOf' = LiveOf \ {id} /\ TableOf' = TableOf /\ ctxDone' = ctxDone
      BY <1>5, <3>2 DEF EventLoopReturns, LoopGoes
    <3> QED BY <3>3, Zenon DEF Registry!Next, Registry!LoopEnds
  <2>2. CASE sessions[idOf[e]] # e
    <3>1. \A i \in Ids : sessions[i] # e
      BY <2>2, HeldById, Zenon
    <3> QED BY <1>5, <3>1, Zenon DEF EventLoopReturns, LoopGoes
  <2> QED BY <2>1, <2>2, Zenon
<1>6. ASSUME NEW e \in Entries, RunLoopTail(e)
      PROVE  Registry!Next \/ UNCHANGED <<TableOf, LiveOf, ctxDone>>
  <2>1. CASE sessions[idOf[e]] = e
    <3>1. PICK id \in Ids : id = idOf[e]
      BY <1>6, Zenon DEF RunLoopTail, Structure, Born
    <3>2. \A i \in Ids : sessions[i] = e <=> i = id
      BY <2>1, <3>1, HeldById
    <3>3. TableOf[id] = "ready" /\ id \notin LiveOf
      BY <1>6, <3>2 DEF RunLoopTail, StatusMatchesLoop
    <3>4. TableOf' = [TableOf EXCEPT ![id] = "disconnected"]
      <4>1. status' = [status EXCEPT ![e] = "disconnected"] /\ sessions' = sessions
        BY <1>6, <2>1, Zenon DEF RunLoopTail
      <4>2. \A i \in Ids : TableOf'[i] = IF i = id THEN "disconnected" ELSE TableOf[i]
        BY <3>2, <4>1
      <4> QED BY <4>2, Zenon
    <3>5. LiveOf' = LiveOf /\ ctxDone' = ctxDone
      BY <1>6, <3>2, Zenon DEF RunLoopTail
    <3> QED BY <3>3, <3>4, <3>5, Zenon DEF Registry!Next, Registry!Disconnect
  <2>2. CASE sessions[idOf[e]] # e
    <3>1. \A i \in Ids : sessions[i] # e
      BY <2>2, HeldById
    <3> QED BY <1>6, <2>2, <3>1, Zenon DEF RunLoopTail
  <2> QED BY <2>1, <2>2, SMTT(60)
<1>7. CASE CancelContext
  BY <1>7, Zenon DEF CancelContext, entries, metrics, Registry!Next, Registry!Stop
<1>8. CASE UNCHANGED vars
  BY <1>8, Zenon DEF vars, entries, metrics
<1> QED BY <1>1, <1>2, <1>3, <1>4, <1>5, <1>6, <1>7, <1>8, Zenon DEF Next, LoopStep, Registry!Next

(* The pool implements the registry its callers rely on: in particular a session
   is reported disconnected only after its own event loop has ended, although
   loops of removed sessions with the same id may end later (pool.go:68-135,
   209-232). *)
THEOREM PoolImplementsRegistry == Spec => ImplementsRegistry
<1>1. NewPool => Registry!Init
  <2> SUFFICES ASSUME NewPool PROVE Registry!Init
    OBVIOUS
  <2>1. TableOf = [id \in Ids |-> "absent"] /\ LiveOf = {}
    BY Zenon DEF NewPool, TableOf, LiveOf
  <2>2. ctxDone = FALSE
    BY Zenon DEF NewPool
  <2> QED BY <2>1, <2>2 DEF Registry!Init
<1> QED BY <1>1, IInvInit, IInvStep, RegistryStep, PTL DEF Spec, ImplementsRegistry, Registry!Safety
==============================================================================
