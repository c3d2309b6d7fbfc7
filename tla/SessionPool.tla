----------------------------- MODULE SessionPool -----------------------------
(***************************************************************************)
(* The pool of TDLib sessions of one process (internal/session/pool.go)    *)
(* with the metrics hook it notifies (internal/metrics/session_hook.go).   *)
(*                                                                         *)
(* A session in the pool is an `entry' (pointer identity matters: runLoop  *)
(* compares entries, not ids) driven by a goroutine, runLoop, that may     *)
(* outlive the entry's stay in the pool.  p.mu is held over a whole add,   *)
(* the call of the client factory included, so an add is two steps with    *)
(* the lock held in between and every other lock section is one step.      *)
(***************************************************************************)
EXTENDS Integers, FiniteSets

CONSTANTS Ids,        \* session ids
          Entries,    \* identities of the *entry values ever allocated
          Nil,        \* no entry
          MaxErrors   \* bound: failed factory calls counted per type

ASSUME NilAssumption == Nil \notin Entries /\ Nil \notin Ids
ASSUME IdsAssumption == IsFiniteSet(Ids)
ASSUME MaxErrorsAssumption == MaxErrors \in Nat

Types == {"account", "bot"}
Statuses == {"pending", "authorizing", "ready", "disconnected", "error"}

VARIABLES
  sessions,   \* Pool.sessions: id -> entry, Nil where the map has no key
  idOf,       \* Session.ID of each entry (Nil before the entry is allocated)
  typeOf,     \* Session.Type
  status,     \* Session.Status
  cancelled,  \* the entries whose cancel func has been called
  loop,       \* where the entry's runLoop goroutine is
  adding,     \* the add that holds p.mu during the factory call ({} when p.mu is free)
  ctxDone,    \* the context given to add has been cancelled
  gauge,      \* metrics.SessionsActive, by type and status
  total,      \* metrics.SessionsTotal, by type
  errors      \* metrics.SessionErrors, by type

entries == <<idOf, typeOf, status, cancelled, loop>>
metrics == <<gauge, total, errors>>
vars == <<sessions, entries, adding, ctxDone, metrics>>

LoopStates == {"unborn", "running", "delivering", "returned", "done"}

Born(e) == loop[e] # "unborn"
Held(e) == \E id \in Ids : sessions[id] = e
Cancelled(e) == e \in cancelled \/ ctxDone
MutexFree == adding = {}

NewPool ==
  /\ sessions = [id \in Ids |-> Nil]
  /\ idOf = [e \in Entries |-> Nil]
  /\ typeOf = [e \in Entries |-> "account"]
  /\ status = [e \in Entries |-> "pending"]
  /\ cancelled = {}
  /\ loop = [e \in Entries |-> "unborn"]
  /\ adding = {}
  /\ ctxDone = FALSE
  /\ gauge = [t \in Types |-> [s \in Statuses |-> 0]]
  /\ total = [t \in Types |-> 0]
  /\ errors = [t \in Types |-> 0]

-----------------------------------------------------------------------------
(* The hook's callbacks, as functions of the gauges. *)

OnStatusChanged(g, t, old, new) ==
  LET dec == [g EXCEPT ![t][old] = @ - 1]
  IN  [dec EXCEPT ![t][new] = @ + 1]

OnAdded(g, t) == [g EXCEPT ![t]["authorizing"] = @ + 1]

OnRemoved(g, t, final) == [g EXCEPT ![t][final] = @ - 1]

-----------------------------------------------------------------------------
(* Mutant: add does not lock p.mu. *)
AddBegin_Unlocked(id, t) ==
  /\ sessions[id] = Nil
  /\ \E e \in Entries : ~Born(e)
  /\ adding' = adding \cup {<<id, t>>}
  /\ UNCHANGED <<sessions, entries, ctxDone, metrics>>

(* add, up to the factory call: the id must be free; p.mu stays locked. *)
AddBegin(id, t) ==
  /\ MutexFree
  /\ sessions[id] = Nil
  /\ \E e \in Entries : ~Born(e)           \* bound: entries left to allocate
  /\ adding' = {<<id, t>>}
  /\ UNCHANGED <<sessions, entries, ctxDone, metrics>>

(* add, the factory has failed: the session is dropped, OnError is told. *)
AddFails(id, t) ==
  /\ <<id, t>> \in adding
  /\ errors[t] < MaxErrors
  /\ errors' = [errors EXCEPT ![t] = @ + 1]
  /\ adding' = {}
  /\ UNCHANGED <<sessions, entries, ctxDone, gauge, total>>

(* add, the factory has returned a client: the entry becomes ready, the hook
   is told, the entry is stored and its event loop started. *)
AddSucceeds(id, t, e) ==
  /\ <<id, t>> \in adding
  /\ ~Born(e)
  /\ idOf' = [idOf EXCEPT ![e] = id]
  /\ typeOf' = [typeOf EXCEPT ![e] = t]
  /\ status' = [status EXCEPT ![e] = "ready"]
  /\ total' = [total EXCEPT ![t] = @ + 1]
  /\ gauge' = OnStatusChanged(OnAdded(gauge, t), t, "authorizing", "ready")
  /\ sessions' = [sessions EXCEPT ![id] = e]
  /\ loop' = [loop EXCEPT ![e] = "running"]
  /\ adding' = {}
  /\ UNCHANGED <<cancelled, ctxDone, errors>>

(* Mutant: Remove forgets to cancel the session's context. *)
Remove_NoCancel(id) ==
  LET e == sessions[id]
  IN  /\ MutexFree
      /\ e # Nil
      /\ sessions' = [sessions EXCEPT ![id] = Nil]
      /\ gauge' = OnRemoved(gauge, typeOf[e], status[e])
      /\ UNCHANGED <<entries, adding, ctxDone, total, errors>>

(* Remove: cancel the entry's context, close its client, forget it, tell the hook. *)
Remove(id) ==
  LET e == sessions[id]
  IN  /\ MutexFree
      /\ e # Nil
      /\ cancelled' = cancelled \cup {e}
      /\ sessions' = [sessions EXCEPT ![id] = Nil]
      /\ gauge' = OnRemoved(gauge, typeOf[e], status[e])
      /\ UNCHANGED <<idOf, typeOf, status, loop, adding, ctxDone, total, errors>>

(* A step of the goroutine of e that touches nothing but its position. *)
LoopGoes(e, from, to) ==
  /\ loop[e] = from
  /\ loop' = [loop EXCEPT ![e] = to]
  /\ UNCHANGED <<sessions, idOf, typeOf, status, cancelled, adding, ctxDone, metrics>>

(* The update callback of runLoop reads p.onUpdate under p.mu and calls the
   handler after the unlock. *)
CallbackBegin(e) == MutexFree /\ LoopGoes(e, "running", "delivering")
CallbackEnd(e) == LoopGoes(e, "delivering", "running")

(* Mutant: RunEventLoop does not watch its context. *)
EventLoopReturns_IgnoresContext(e) == ~Cancelled(e) /\ LoopGoes(e, "running", "returned")

(* RunEventLoop returns: the context was cancelled, or the client failed to
   authorize or closed its listener (which may happen at any time). *)
EventLoopReturns(e) == LoopGoes(e, "running", "returned")

(* Mutant: the tail of runLoop tests that the id is present, not that the entry
   is its own. *)
RunLoopTail_NoIdentityTest(e) ==
  /\ loop[e] = "returned"
  /\ MutexFree
  /\ loop' = [loop EXCEPT ![e] = "done"]
  /\ \/ /\ sessions[idOf[e]] # Nil
        /\ status' = [status EXCEPT ![e] = "disconnected"]
        /\ gauge' = OnStatusChanged(gauge, typeOf[e], status[e], "disconnected")
     \/ sessions[idOf[e]] = Nil /\ UNCHANGED <<status, gauge>>
  /\ UNCHANGED <<sessions, idOf, typeOf, cancelled, adding, ctxDone, total, errors>>

(* Mutant: the tail of runLoop marks whatever session now has the id. *)
RunLoopTail_MarksById(e) ==
  LET cur == sessions[idOf[e]]
  IN  /\ loop[e] = "returned"
      /\ MutexFree
      /\ loop' = [loop EXCEPT ![e] = "done"]
      /\ \/ /\ cur # Nil
            /\ status' = [status EXCEPT ![cur] = "disconnected"]
            /\ gauge' = OnStatusChanged(gauge, typeOf[cur], status[cur], "disconnected")
         \/ cur = Nil /\ UNCHANGED <<status, gauge>>
      /\ UNCHANGED <<sessions, idOf, typeOf, cancelled, adding, ctxDone, total, errors>>

(* Mutant: the tail of runLoop is missing. *)
RunLoopTail_NoMark(e) == MutexFree /\ LoopGoes(e, "returned", "done")

(* The tail of runLoop: mark the session disconnected if the pool still holds
   this very entry under the session's id. *)
RunLoopTail(e) ==
  /\ loop[e] = "returned"
  /\ MutexFree
  /\ loop' = [loop EXCEPT ![e] = "done"]
  /\ \/ /\ sessions[idOf[e]] = e
        /\ status' = [status EXCEPT ![e] = "disconnected"]
        /\ gauge' = OnStatusChanged(gauge, typeOf[e], status[e], "disconnected")
     \/ sessions[idOf[e]] # e /\ UNCHANGED <<status, gauge>>
  /\ UNCHANGED <<sessions, idOf, typeOf, cancelled, adding, ctxDone, total, errors>>

(* The process shuts down: the context every session derives from is cancelled. *)
CancelContext ==
  /\ ~ctxDone
  /\ ctxDone' = TRUE
  /\ UNCHANGED <<sessions, entries, adding, metrics>>

LoopStep(e) == CallbackBegin(e) \/ CallbackEnd(e) \/ EventLoopReturns(e) \/ RunLoopTail(e)

Next ==
  \/ \E id \in Ids : Remove(id)
  \/ \E id \in Ids, t \in Types : AddBegin(id, t) \/ AddFails(id, t)
  \/ \E id \in Ids, t \in Types, e \in Entries : AddSucceeds(id, t, e)
  \/ \E e \in Entries : LoopStep(e)
  \/ CancelContext

Spec == NewPool /\ [][Next]_vars

(* The Go scheduler runs every goroutine that can run: a handler call ends (the
   handler, dispatch, never blocks), an event loop whose context is done returns
   (strong: its select may first take pending updates), the tail of runLoop gets
   p.mu (strong: sync.RWMutex does not starve a writer).  Factory calls end. *)
Fairness ==
  /\ \A e \in Entries :
       /\ WF_vars(CallbackEnd(e))
       /\ SF_vars(Cancelled(e) /\ EventLoopReturns(e))
       /\ SF_vars(RunLoopTail(e))
  /\ WF_vars(\E id \in Ids, t \in Types :
               AddFails(id, t) \/ \E e \in Entries : AddSucceeds(id, t, e))

FairSpec == Spec /\ Fairness
-----------------------------------------------------------------------------
(* Every variable has the shape the code gives it, and at most one add holds p.mu
   (pool.go:39-52, session.go:12-37). *)
TypeOK ==
  /\ sessions \in [Ids -> Entries \cup {Nil}]
  /\ idOf \in [Entries -> Ids \cup {Nil}]
  /\ typeOf \in [Entries -> Types]
  /\ status \in [Entries -> Statuses]
  /\ cancelled \in SUBSET Entries
  /\ loop \in [Entries -> LoopStates]
  /\ adding \in SUBSET (Ids \X Types)
  /\ \A a, b \in adding : a = b
  /\ ctxDone \in BOOLEAN
  /\ gauge \in [Types -> [Statuses -> Int]]
  /\ total \in [Types -> Nat]
  /\ errors \in [Types -> Nat]

(* The ids whose session has type t and status s. *)
InPool(t, s) ==
  {id \in Ids : sessions[id] # Nil /\ typeOf[sessions[id]] = t
                                  /\ status[sessions[id]] = s}

(* SessionsActive "tracks currently active sessions by type and status"
   (metrics.go:13): whatever the order of adds, removes and late event-loop
   exits, each gauge is the number of such sessions in the pool. *)
GaugeMatchesPool ==
  \A t \in Types, s \in Statuses : gauge[t][s] = Cardinality(InPool(t, s))

(* An entry is stored under its own id, and no goroutine leaks: an event loop
   that has not finished is either that of a session in the pool or has been
   told to stop by Remove (pool.go:105-108, 127-129). *)
NoOrphanLoop ==
  /\ \A id \in Ids : sessions[id] # Nil => idOf[sessions[id]] = id
  /\ \A e \in Entries :
       loop[e] \in {"running", "delivering", "returned"}
         => e \in cancelled \/ sessions[idOf[e]] = e

(* What List reports is what the goroutine does: a session in the pool is ready
   until its own event loop is over and disconnected from then on, even when an
   event loop of a removed session with the same id ends late (pool.go:222-229). *)
StatusMatchesLoop ==
  \A id \in Ids :
    LET e == sessions[id]
    IN  e # Nil => /\ status[e] = "ready" <=> loop[e] # "done"
                   /\ status[e] \in {"ready", "disconnected"}

(* The final status Remove gives to OnRemoved is final: nothing changes the
   status of an entry the pool no longer holds (pool.go:124, 224). *)
RemovedStatusFrozen ==
  [][\A e \in Entries : Born(e) /\ ~Held(e) => status'[e] = status[e]
                                              /\ ~Held(e)']_vars

(* Every event loop that has been told to stop, by Remove or by the shutdown
   of the process, ends (pool.go:127, 209-232). *)
CancelledLoopsEnd ==
  \A e \in Entries : (Born(e) /\ Cancelled(e)) ~> (loop[e] = "done")

-----------------------------------------------------------------------------
(* The table callers see, computed from the pool. *)
TableOf == [id \in Ids |-> IF sessions[id] = Nil THEN "absent"
                                               ELSE status[sessions[id]]]
LiveOf == {id \in Ids : sessions[id] # Nil
                        /\ loop[sessions[id]] \in {"running", "delivering"}}

Registry == INSTANCE SessionRegistry WITH table <- TableOf, live <- LiveOf,
                                          stopped <- ctxDone

(* The pool implements the table of sessions its callers rely on: a session is
   disconnected only after its own loop has ended, never by another entry's
   loop (pool.go:68-135, 209-232). *)
ImplementsRegistry == Registry!Safety

(* ... and after the context is cancelled it disconnects every session left. *)
ImplementsFairRegistry == Registry!Spec
==============================================================================
