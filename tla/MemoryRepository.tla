--------------------------- MODULE MemoryRepository ---------------------------
(***************************************************************************)
(* The in-memory repository of the tests (internal/bot/memory_repo.go;     *)
(* internal/account/memory_repo.go is the same with a phone number for the *)
(* token): rows by id, and two indexes that every operation has to keep in *)
(* step.  One mutex makes each operation atomic.                           *)
(*                                                                         *)
(* A row is its unique value (phone or stored token), its session and its  *)
(* worker.  Sessions are numbered in the order of their creation.          *)
(***************************************************************************)
EXTENDS Integers, FiniteSets

CONSTANTS Workers, NoWorker,
          MaxIds      \* bound: rows ever created

Ids == 1 .. MaxIds

VARIABLES
  store,      \* the rows, as records with their id
  byToken,    \* pairs of a unique value and an id
  bySession,  \* pairs of a session and an id
  seq         \* the last id given

memVars == <<store, byToken, bySession, seq>>

NewMemoryRepository == store = {} /\ byToken = {} /\ bySession = {} /\ seq = 0

(* Create answers with an error for a value the index has. *)
MemCreateOK(value) == ~\E e \in byToken : e[1] = value

MemCreate(value, session) ==
  IF MemCreateOK(value)
  THEN /\ seq' = seq + 1
       /\ store' = store \cup
            {[id |-> seq', value |-> value, session |-> session, worker |-> NoWorker]}
       /\ byToken' = byToken \cup {<<value, seq'>>}
       /\ bySession' = bySession \cup {<<session, seq'>>}
  ELSE UNCHANGED memVars

(* GetByID: the row, if there is one. *)
MemGetByID(id) == {r \in store : r.id = id}

(* GetBySessionID, through the index. *)
MemGetBySessionID(session) ==
  {r \in store : \E e \in bySession : e = <<session, r.id>>}

(* UpdateWorkerID; ErrNoRows for an unknown session. *)
MemUpdateWorkerID(session, w) ==
  LET found == MemGetBySessionID(session)
  IN  /\ store' = (store \ found) \cup {[r EXCEPT !.worker = w] : r \in found}
      /\ UNCHANGED <<byToken, bySession, seq>>

(* ListByWorkerID. *)
MemListByWorkerID(w) == {r \in store : r.worker = w}

(* Mutant: the index of the unique values keeps the row. *)
MemDelete_KeepsIndex(id) ==
  LET found == MemGetByID(id)
  IN  /\ store' = store \ found
      /\ byToken' = byToken
      /\ bySession' = {e \in bySession : \A r \in found : e[1] # r.session}
      /\ UNCHANGED seq

(* Delete; ErrNoRows for an unknown id. *)
MemDelete(id) ==
  LET found == MemGetByID(id)
  IN  /\ store' = store \ found
      /\ byToken' = {e \in byToken : \A r \in found : e[1] # r.value}
      /\ bySession' = {e \in bySession : \A r \in found : e[1] # r.session}
      /\ UNCHANGED seq
==============================================================================
