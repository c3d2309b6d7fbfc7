----------------------- MODULE SessionPlacementProofs -----------------------
(***************************************************************************)
(* Theorems about SessionPlacement, for any sessions and workers and any   *)
(* number of requests and restarts.                                        *)
(***************************************************************************)
EXTENDS SessionPlacement, TLAPS

Types ==
  /\ table \in SUBSET Workers
  /\ running \in [Workers -> SUBSET Sessions]
  /\ rowWorker \in [Sessions -> Workers \cup {Nil}]
  /\ create \in [Sessions -> {"new", "row", "picked", "assigned", "done", "failed"}]
  /\ dest \in [Sessions -> Workers \cup {Nil}]
  /\ remove \in [Sessions -> Workers \cup {Nil, NoRemove}]
  /\ drain \in [Workers -> {"idle", "open", "closed"}]
  /\ todo \in [Workers -> SUBSET Sessions]
  /\ move \in [Workers -> (Sessions \X Workers) \cup {NoMove}]
  /\ failed \in [Workers -> SUBSET Sessions]
  /\ restore \in [Workers -> SUBSET Sessions]
  /\ drained \in SUBSET (Sessions \X Workers)

(* Drains apart, all that ties the session to a worker: the worker runs it, was picked
   for it, is named by its row, or is about to be told to stop or to start it. *)
Tied(s, w) ==
  \/ s \in running[w] /\ ~ByDrain(s, w)
  \/ dest[s] = w
  \/ rowWorker[s] = w
  \/ remove[s] = w /\ remove[s] # NoRemove
  \/ s \in restore[w]

(* A session is tied to one worker at most, and to none before one is picked. *)
OneTie ==
  \A s \in Sessions :
    /\ \A v, w \in Workers : Tied(s, v) /\ Tied(s, w) => v = w
    /\ create[s] \in {"new", "row"} => \A w \in Workers : ~Tied(s, w)

(* A session that a drain has listed is waiting, being moved or reported as failed,
   one at a time. *)
Drains ==
  \A w \in Workers :
    /\ drain[w] = "idle" => todo[w] = {} /\ failed[w] = {} /\ move[w] = NoMove
    /\ failed[w] \cap todo[w] = {}
    /\ move[w] # NoMove =>
         /\ move[w] \in drained /\ move[w][2] # w
         /\ move[w][1] \notin failed[w] \cup todo[w]

IInv == Types /\ OneTie /\ Drains

-----------------------------------------------------------------------------
LEMMA LeastLoadedIsCandidate == \A cands : LeastLoaded(cands) \subseteq cands
  BY DEF LeastLoaded

LEMMA InitIInv == Init => IInv
<1> SUFFICES ASSUME Init PROVE IInv
  OBVIOUS
<1>1. Types
  BY DEF Init, Types
<1>2. OneTie
  BY PlacementAssumption DEF Init, OneTie, Tied
<1>3. Drains
  BY DEF Init, Drains
<1> QED
  BY <1>1, <1>2, <1>3 DEF IInv

(* A step that ties no session to a worker and takes no create call back keeps
   OneTie. *)
LEMMA NoNewTie ==
  ASSUME OneTie,
         \A s \in Sessions : create'[s] \in {"new", "row"} => create[s] \in {"new", "row"},
         \A s \in Sessions, w \in Workers : Tied(s, w)' => Tied(s, w)
  PROVE  OneTie'
  BY DEF OneTie

(* The steps that leave the drains alone. *)
LEMMA DrainsKept == ASSUME Drains, UNCHANGED drainVars PROVE Drains'
  BY DEF Drains, drainVars

-----------------------------------------------------------------------------
(* The create call. *)
LEMMA CreateIInv ==
  ASSUME NEW s \in Sessions, IInv,
         CreateRow(s) \/ Pick(s) \/ AssignSucceeds(s) \/ AssignFails(s) \/ Record(s)
  PROVE  IInv'
<1> USE PlacementAssumption DEF IInv, CreateGoes, rowVars, readyVars
<1>1. UNCHANGED drainVars
  BY DEF CreateRow, Pick, AssignSucceeds, AssignFails, Record
<1>2. Drains'
  BY <1>1, DrainsKept
<1>3. CASE CreateRow(s)
  <2> USE <1>3 DEF CreateRow
  <2>1. Types'
    BY DEF Types, drainVars
  <2>2. OneTie'
    BY NoNewTie DEF Tied, ByDrain, drainVars, Types
  <2> QED
    BY <1>2, <2>1, <2>2
<1>4. CASE Pick(s)
  <2> USE <1>4 DEF Pick
  <2>1. Types'
    BY LeastLoadedIsCandidate, SMTT(60) DEF Types, drainVars
  <2>2. CASE dest' = dest
    <3>1. OneTie'
      BY <2>2, NoNewTie DEF Tied, ByDrain, drainVars, Types
    <3> QED
      BY <1>2, <2>1, <3>1
  <2>3. CASE dest' # dest
    <3>1. PICK p \in Workers : create[s] = "row" /\ create' = [create EXCEPT ![s] = "picked"]
                               /\ dest' = [dest EXCEPT ![s] = p]
      BY <2>3, LeastLoadedIsCandidate DEF Types
    <3>2. \A w \in Workers : ~Tied(s, w)
      BY <3>1 DEF OneTie
    <3>3. \A w \in Workers : Tied(s, w)' => w = p
      BY <3>1, <3>2, ZenonT(60) DEF Tied, ByDrain, drainVars, Types
    <3>4. \A t \in Sessions \ {s}, w \in Workers : Tied(t, w)' => Tied(t, w)
      BY <3>1 DEF Tied, ByDrain, drainVars, Types
    <3>5. \A t \in Sessions \ {s} : create'[t] = create[t]
      BY <3>1, ZenonT(60) DEF Types
    <3>6. create'[s] = "picked"
      BY <3>1, Zenon DEF Types
    <3>7. OneTie'
      BY <3>3, <3>4, <3>5, <3>6, Zenon DEF OneTie
    <3> QED
      BY <1>2, <2>1, <3>7
  <2> QED
    BY <2>2, <2>3
<1>5. CASE AssignSucceeds(s)
  <2> USE <1>5 DEF AssignSucceeds, Starts
  <2>1. Types'
    BY DEF Types, drainVars
  <2>2. \A t \in Sessions : create'[t] \in {"new", "row"} => create[t] \in {"new", "row"}
    BY Zenon DEF Types
  <2>3. \A t \in Sessions, w \in Workers : Tied(t, w)' => Tied(t, w)
    BY DEF Tied, ByDrain, drainVars, Types
  <2>4. OneTie'
    BY <2>2, <2>3, NoNewTie, Zenon
  <2> QED
    BY <1>2, <2>1, <2>4
<1>6. CASE AssignFails(s)
  <2> USE <1>6 DEF AssignFails, Starts
  <2>1. Types'
    BY SMTT(60) DEF Types, drainVars
  <2>2. \A t \in Sessions : create'[t] \in {"new", "row"} => create[t] \in {"new", "row"}
    BY Zenon DEF Types
  <2>3. \A t \in Sessions, w \in Workers : Tied(t, w)' => Tied(t, w)
    BY DEF Tied, ByDrain, drainVars, Types
  <2>4. OneTie'
    BY <2>2, <2>3, NoNewTie, Zenon
  <2> QED
    BY <1>2, <2>1, <2>4, Zenon
<1>7. CASE Record(s)
  <2> USE <1>7 DEF Record
  <2>1. Types'
    BY Zenon DEF Types, drainVars
  <2>2. \A t \in Sessions : create'[t] \in {"new", "row"} => create[t] \in {"new", "row"}
    BY Zenon DEF Types
  <2>3. \A t \in Sessions, w \in Workers : Tied(t, w)' => Tied(t, w)
    BY DEF Tied, ByDrain, drainVars, Types
  <2>4. OneTie'
    BY <2>2, <2>3, NoNewTie, Zenon
  <2> QED
    BY <1>2, <2>1, <2>4, Zenon
<1> QED
  BY <1>3, <1>4, <1>5, <1>6, <1>7

(* Deleting the row, and the items of RemoveSessions. *)
LEMMA RemoveIInv ==
  ASSUME NEW s \in Sessions, IInv,
         DeleteRow(s) \/ RemoveResolves(s) \/ RemoveOK(s) \/ RemoveFails(s)
  PROVE  IInv'
<1> USE PlacementAssumption DEF IInv, rowVars, createVars, readyVars, RemoveItemEnds
<1>1. UNCHANGED <<drainVars, create>>
  BY Zenon DEF DeleteRow, RemoveResolves, RemoveOK, RemoveFails
<1>2. Drains'
  BY <1>1, DrainsKept
<1>3. Types'
  BY SMTT(60) DEF DeleteRow, RemoveResolves, RemoveOK, RemoveFails, Types, drainVars
<1>4. \A t \in Sessions, w \in Workers : Tied(t, w)' => Tied(t, w)
  <2>1. CASE DeleteRow(s) \/ RemoveResolves(s)
    BY <2>1 DEF DeleteRow, RemoveResolves, Tied, ByDrain, drainVars, Types
  <2>2. CASE RemoveOK(s) \/ RemoveFails(s)
    BY <2>2, SMTT(60) DEF RemoveOK, RemoveFails, Tied, ByDrain, drainVars, Types
  <2> QED
    BY <2>1, <2>2
<1>5. OneTie'
  BY <1>1, <1>4, NoNewTie
<1> QED
  BY <1>2, <1>3, <1>5

(* DrainWorker handles a session it has listed. *)
LEMMA DrainHandlesIInv ==
  ASSUME NEW s \in Sessions, NEW w \in Workers, IInv, DrainFails(w, s) \/ DrainAdds(w, s)
  PROVE  IInv'
<1> USE PlacementAssumption DEF IInv, DrainTakes, rowVars, createVars, readyVars
<1>1. /\ s \in todo[w] /\ move[w] = NoMove /\ todo' = [todo EXCEPT ![w] = @ \ {s}]
      /\ UNCHANGED <<table, rowWorker, create, dest, remove, restore, drain>>
  BY Zenon DEF DrainFails, DrainAdds
<1>2. \/ UNCHANGED <<running, drained>>
      \/ \E v \in Workers \ {w} : HandsOver(s, v)
  BY LeastLoadedIsCandidate, Zenon DEF DrainFails, DrainAdds, Types
<1>3. \/ failed' = [failed EXCEPT ![w] = @ \cup {s}] /\ UNCHANGED move
      \/ \E v \in Workers \ {w} : /\ move' = [move EXCEPT ![w] = <<s, v>>]
                                  /\ <<s, v>> \in drained' /\ UNCHANGED failed
  BY LeastLoadedIsCandidate, Zenon DEF DrainFails, DrainAdds, HandsOver, Types
<1>4. Types'
  <2>1. running' \in [Workers -> SUBSET Sessions] /\ drained' \in SUBSET (Sessions \X Workers)
    BY <1>2 DEF Types, HandsOver, Starts
  <2>2. /\ move' \in [Workers -> (Sessions \X Workers) \cup {NoMove}]
        /\ failed' \in [Workers -> SUBSET Sessions]
    <3>1. CASE failed' = [failed EXCEPT ![w] = @ \cup {s}] /\ UNCHANGED move
      BY <3>1, ZenonT(60) DEF Types
    <3>2. ASSUME NEW v \in Workers, move' = [move EXCEPT ![w] = <<s, v>>], UNCHANGED failed
          PROVE  /\ move' \in [Workers -> (Sessions \X Workers) \cup {NoMove}]
                 /\ failed' \in [Workers -> SUBSET Sessions]
      <4>1. <<s, v>> \in Sessions \X Workers
        OBVIOUS
      <4>2. \A e \in Sessions \X Workers :
              [move EXCEPT ![w] = e] \in [Workers -> (Sessions \X Workers) \cup {NoMove}]
        BY Zenon DEF Types
      <4> QED
        BY <3>2, <4>1, <4>2, Zenon DEF Types
    <3> QED
      BY <1>3, <3>1, <3>2, ZenonT(60)
  <2>3. todo' \in [Workers -> SUBSET Sessions]
    BY <1>1, Zenon DEF Types
  <2> QED
    BY <1>1, <2>1, <2>2, <2>3, Zenon DEF Types
<1>5. OneTie'
  <2>1. \A t \in Sessions, v \in Workers : t \in running'[v] => t \in running[v] \/ ByDrain(t, v)'
    BY <1>2, SMTT(60) DEF HandsOver, Starts, ByDrain, Types
  <2>2. drained \subseteq drained'
    BY <1>2 DEF HandsOver
  <2>3. \A t \in Sessions, v \in Workers : Tied(t, v)' => Tied(t, v)
    BY <1>1, <2>1, <2>2, Zenon DEF Tied, ByDrain
  <2> QED
    BY <1>1, <2>3, NoNewTie, Zenon
<1>6. Drains'
  <2>1. drained \subseteq drained'
    BY <1>2 DEF HandsOver
  <2>2. drain[w] # "idle" /\ s \notin failed[w]
    BY <1>1, Zenon DEF Drains
  <2>3. ASSUME NEW v \in Workers, v # w
        PROVE  todo'[v] = todo[v] /\ move'[v] = move[v] /\ failed'[v] = failed[v]
    BY <1>1, <1>3, <2>3, ZenonT(60) DEF Types
  <2>4. /\ drain'[w] # "idle" /\ failed'[w] \cap todo'[w] = {}
        /\ move'[w] # NoMove =>
             /\ move'[w] \in drained' /\ move'[w][2] # w
             /\ move'[w][1] \notin failed'[w] \cup todo'[w]
    <3>1. todo'[w] = todo[w] \ {s}
      BY <1>1, Zenon DEF Types
    <3>2. CASE failed' = [failed EXCEPT ![w] = @ \cup {s}] /\ UNCHANGED move
      BY <1>1, <2>2, <3>1, <3>2 DEF Types, Drains
    <3>3. ASSUME NEW v \in Workers \ {w}, move' = [move EXCEPT ![w] = <<s, v>>],
                 <<s, v>> \in drained', UNCHANGED failed
          PROVE  /\ drain'[w] # "idle" /\ failed'[w] \cap todo'[w] = {}
                 /\ move'[w] \in drained' /\ move'[w][2] # w
                 /\ move'[w][1] \notin failed'[w] \cup todo'[w]
      <4>1. move'[w] = <<s, v>>
        BY <3>3, Zenon DEF Types
      <4> QED
        BY <1>1, <2>2, <3>1, <3>3, <4>1, SMTT(60) DEF Drains
    <3> QED
      BY <1>3, <3>2, <3>3, ZenonT(60)
  <2> QED
    BY <1>1, <2>1, <2>3, <2>4, SMTT(60) DEF Drains
<1> QED
  BY <1>4, <1>5, <1>6

(* The other steps of a drain and of the worker table. *)
LEMMA WorkerIInv ==
  ASSUME NEW w \in Workers, IInv,
         DrainBegins(w) \/ DrainRemoves(w) \/ DrainEnds(w) \/ RemoveWorker(w)
  PROVE  IInv'
<1> USE PlacementAssumption DEF IInv, Unregister, rowVars, createVars, readyVars
<1>1. create' = create
  BY Zenon DEF DrainBegins, DrainRemoves, DrainEnds, RemoveWorker
<1>2. CASE DrainBegins(w)
  <2> USE <1>2 DEF DrainBegins, ListSessions
  <2>1. Types'
    BY Zenon DEF Types
  <2>2. OneTie'
    BY <1>1, NoNewTie, Zenon DEF Tied, ByDrain
  <2>3. Drains'
    BY DEF Types, Drains
  <2> QED
    BY <2>1, <2>2, <2>3, Zenon
<1>3. CASE DrainRemoves(w)
  <2> USE <1>3 DEF DrainRemoves
  <2>1. Types'
    BY SMTT(60) DEF Types
  <2>2. \A t \in Sessions, v \in Workers : Tied(t, v)' => Tied(t, v)
    BY SMTT(60) DEF Tied, ByDrain, Types
  <2>3. OneTie'
    BY <1>1, <2>2, NoNewTie, Zenon
  <2>4. Drains'
    BY SMTT(60) DEF Types, Drains
  <2> QED
    BY <2>1, <2>3, <2>4, Zenon
<1>4. CASE DrainEnds(w) \/ RemoveWorker(w)
  <2> USE <1>4 DEF DrainEnds, RemoveWorker
  <2>1. Types'
    <3>1. table' \in SUBSET Workers /\ dest' \in [Sessions -> Workers \cup {Nil}]
      BY SMTT(60) DEF Types
    <3>2. /\ drain' \in [Workers -> {"idle", "open", "closed"}]
          /\ failed' \in [Workers -> SUBSET Sessions]
      BY SMTT(60) DEF Types
    <3> QED
      BY <1>1, <3>1, <3>2, SMTT(60) DEF Types
  <2>2. \A t \in Sessions, v \in Workers : Tied(t, v)' => Tied(t, v)
    BY SMTT(60) DEF Tied, ByDrain, Types
  <2>3. OneTie'
    BY <1>1, <2>2, NoNewTie, ZenonT(60)
  <2>4. Drains'
    BY SMTT(60) DEF Types, Drains
  <2> QED
    BY <2>1, <2>3, <2>4, Zenon
<1> QED
  BY <1>2, <1>3, <1>4, Zenon

(* A worker registers, and its callback lists and starts the sessions of its rows. *)
LEMMA ReadyIInv ==
  ASSUME NEW w \in Workers, IInv,
         AddWorker(w) \/ ReadyLists(w) \/ (\E s \in Sessions : ReadyAssigns(w, s)) \/ WorkerRestarts(w)
  PROVE  IInv'
<1> USE PlacementAssumption DEF IInv, rowVars, createVars, readyVars
<1>1. UNCHANGED <<drainVars, create>>
  BY Zenon DEF AddWorker, ReadyLists, ReadyAssigns, WorkerRestarts
<1>2. Drains'
  BY <1>1, DrainsKept
<1>3. Types'
  BY SMTT(60) DEF AddWorker, ReadyLists, RowsOf, ReadyAssigns, Starts, WorkerRestarts, Types, drainVars
<1>4. \A t \in Sessions, v \in Workers : Tied(t, v)' => Tied(t, v)
  <2>1. CASE AddWorker(w) \/ WorkerRestarts(w)
    BY <2>1, SMTT(60) DEF AddWorker, WorkerRestarts, Tied, ByDrain, drainVars, Types
  <2>2. CASE ReadyLists(w)
    BY <2>2, SMTT(60) DEF ReadyLists, RowsOf, Tied, ByDrain, drainVars, Types
  <2>3. ASSUME NEW s \in Sessions, ReadyAssigns(w, s)
        PROVE  \A t \in Sessions, v \in Workers : Tied(t, v)' => Tied(t, v)
    BY <2>3, SMTT(60) DEF ReadyAssigns, Starts, Tied, ByDrain, drainVars, Types
  <2> QED
    BY <2>1, <2>2, <2>3, Zenon
<1>5. OneTie'
  BY <1>1, <1>4, NoNewTie, Zenon
<1> QED
  BY <1>2, <1>3, <1>5

LEMMA MainRestartsIInv == ASSUME IInv, MainRestarts PROVE IInv'
<1> USE PlacementAssumption DEF IInv, MainRestarts, rowVars
<1>1. Types'
  BY Zenon DEF Types
<1>2. OneTie'
  BY NoNewTie, Zenon DEF Tied, ByDrain, Types
<1>3. Drains'
  BY Zenon DEF Drains
<1> QED
  BY <1>1, <1>2, <1>3, Zenon

LEMMA NextIInv == ASSUME IInv, [Next]_vars PROVE IInv'
<1>1. ASSUME NEW s \in Sessions, Step(s) \/ DeleteRow(s) \/ RemoveResolves(s) PROVE IInv'
  BY <1>1, CreateIInv, RemoveIInv, DrainHandlesIInv, ReadyIInv, Zenon DEF Step
<1>2. ASSUME NEW w \in Workers, WorkerStep(w) \/ WorkerEvent(w) PROVE IInv'
  BY <1>2, WorkerIInv, ReadyIInv DEF WorkerStep, WorkerEvent
<1>3. CASE UNCHANGED vars
  BY <1>3, SMTT(60) DEF vars, rowVars, createVars, drainVars, readyVars, IInv, Types, OneTie, Tied, ByDrain,
              Drains
<1> QED
  BY <1>1, <1>2, <1>3, MainRestartsIInv DEF Next

-----------------------------------------------------------------------------
LEMMA Invariant == Spec => []IInv
<1>1. IInv /\ [Next]_vars => IInv'
  BY NextIInv
<1> QED
  BY InitIInv, <1>1, PTL DEF Spec

(* Drains apart, a session never runs on two workers, whatever is lost, restarted,
   removed or restored in between (manager.go:276-332, main.go:116-146). *)
THEOREM OneRunnerSafe == Spec => []OneRunner
<1>1. IInv => OneRunner
  BY Zenon DEF IInv, OneTie, Tied, OneRunner
<1> QED
  BY <1>1, Invariant, PTL

(* Codes, passwords and removals, sent to the worker the row names, reach the session
   wherever it runs, unless a drain has started it elsewhere (account.go:147-156,
   bulk/service.go:114-120, manager.go:200-222). *)
THEOREM RouteFollowsSessionSafe == Spec => []RouteFollowsSession
<1>1. IInv => RouteFollowsSession
  BY Zenon DEF IInv, Types, OneTie, Tied, RouteFollowsSession
<1> QED
  BY <1>1, Invariant, PTL

(* A drain takes away only a session that another worker has started for it, and none
   that it reports as failed (manager.go:200-221). *)
THEOREM DrainHandsOverSafe == Spec => DrainHandsOver
<1> DEFINE HandedOver ==
      \A w \in Workers : DrainRemoves(w) =>
        \A s \in running[w] \ running'[w] :
          s \notin failed[w] /\ move[w] \in drained /\ move[w][2] # w
<1>1. IInv => HandedOver
  <2> SUFFICES ASSUME IInv, NEW w \in Workers, DrainRemoves(w), NEW s \in running[w] \ running'[w]
               PROVE  s \notin failed[w] /\ move[w] \in drained /\ move[w][2] # w
    BY Zenon
  <2>1. move[w] # NoMove /\ s = move[w][1]
    BY DEF DrainRemoves, IInv, Types
  <2> QED
    BY <2>1, Zenon DEF IInv, Drains
<1> QED
  BY <1>1, Invariant, PTL DEF Spec, DrainHandsOver

(* When RemoveSessions answers OK for a session whose row named a worker, no worker
   runs the session any more, unless a drain has started it there
   (bulk/service.go:107-128). *)
THEOREM RemoveOKStopsSafe == Spec => RemoveOKStops
<1> DEFINE Stopped ==
      \A s \in Sessions : RemoveOK(s) /\ remove[s] # Nil =>
        \A w \in Workers : s \in running'[w] => ByDrain(s, w)
<1>1. IInv => Stopped
  <2> SUFFICES ASSUME IInv, NEW s \in Sessions, RemoveOK(s), remove[s] # Nil,
                      NEW w \in Workers, s \in running'[w], ~ByDrain(s, w)
               PROVE  FALSE
    BY Zenon
  <2>1. remove[s] \in Workers /\ remove[s] # NoRemove
    BY Zenon DEF RemoveOK, RemoveItemEnds, IInv, Types
  <2>2. w # remove[s] /\ s \in running[w]
    BY <2>1, Zenon DEF RemoveOK, IInv, Types
  <2> QED
    BY <2>1, <2>2, Zenon DEF IInv, OneTie, Tied
<1> QED
  BY <1>1, Invariant, PTL DEF Spec, RemoveOKStops
=============================================================================
