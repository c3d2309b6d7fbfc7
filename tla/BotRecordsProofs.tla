-------------------------- MODULE BotRecordsProofs --------------------------
(***************************************************************************)
(* Theorems about BotRecords and MemoryRepository, for any tokens, keys,   *)
(* workers, number of bots and page size: the two repositories agree, a    *)
(* token is given out as it was added, and a client that pages through the *)
(* bots neither repeats nor misses one.                                    *)
(*                                                                         *)
(* The agreement rests on each row of the memory having its row in the     *)
(* table and its entries in both indexes (Mirror); the pages on counting   *)
(* the rows before an id (WalkInv).                                        *)
(***************************************************************************)
EXTENDS BotRecords, FiniteSetTheorems, WellFoundedInduction, TLAPS

Stored == [secret : Secrets \cup {NoSecret}, token : Tokens, nonce : Nat]
Inserts == [id : Ids, token : Stored]
Rows == [id : Ids, token : Stored, worker : Workers \cup {NoWorker}]
MemRows == [id : Nat, value : Stored, session : Ids, worker : Workers \cup {NoWorker}]

(* Ids are given out once, and stored tokens are unique. *)
Table ==
  /\ secret \in Secrets \cup {NoSecret}
  /\ lastId \in 0 .. MaxIds
  /\ adding \in SUBSET Inserts /\ table \in SUBSET Rows
  /\ IsFiniteSet(table)
  /\ \A a \in adding : a.id <= lastId /\ \A r \in table : a.id # r.id
  /\ \A a, b \in adding : a.id = b.id => a = b
  /\ \A r \in table : r.id <= lastId
  /\ \A r, q \in table : r.id = q.id \/ r.token = q.token => r = q

(* The row of the table for a row of the memory. *)
RowOf(s) == [id |-> s.session, token |-> s.value, worker |-> s.worker]

(* While both repositories get the same operations, the rows of the memory are those
   of the table, and its indexes are those of its rows. *)
Mirror ==
  mirror =>
    /\ agree
    /\ store \in SUBSET MemRows /\ seq \in Nat
    /\ \A s \in store : s.id <= seq /\ RowOf(s) \in table
    /\ \A r \in table : \E s \in store : RowOf(s) = r
    /\ \A s, u \in store : s.id = u.id \/ s.session = u.session => s = u
    /\ byToken = {<<s.value, s.id>> : s \in store}
    /\ bySession = {<<s.session, s.id>> : s \in store}

IInv == Table /\ Mirror

-----------------------------------------------------------------------------
LEMMA RowOfFields ==
  ASSUME NEW s \in MemRows
  PROVE  RowOf(s) \in Rows /\ RowOf(s).id = s.session /\ RowOf(s).token = s.value
         /\ RowOf(s).worker = s.worker
  BY Zenon DEF RowOf, MemRows, Rows

LEMMA InitIInv == Init => IInv
<1> SUFFICES ASSUME Init PROVE IInv
  OBVIOUS
<1>1. IsFiniteSet({})
  BY FS_EmptySet
<1>2. Table
  BY <1>1, RecordsAssumption DEF Init, Table
<1>3. Mirror
  BY DEF Init, NewMemoryRepository, Mirror
<1> QED
  BY <1>2, <1>3 DEF IInv

(* Values are unique in the memory as stored tokens are in the table. *)
LEMMA ValuesUnique ==
  ASSUME IInv, mirror, NEW s \in store, NEW u \in store, s.value = u.value
  PROVE  s = u
<1>1. s \in MemRows /\ u \in MemRows /\ RowOf(s) \in table /\ RowOf(u) \in table
  BY DEF IInv, Mirror
<1>2. RowOf(s) = RowOf(u)
  BY <1>1, RowOfFields DEF IInv, Table
<1>3. s.session = u.session
  BY <1>1, <1>2, RowOfFields
<1> QED
  BY <1>3 DEF IInv, Mirror

(* Both repositories accept the same values. *)
LEMMA SameAnswer == ASSUME IInv, mirror, NEW x PROVE Unique(x) <=> MemCreateOK(x)
<1>1. ASSUME NEW r \in table, r.token = x PROVE \E e \in byToken : e[1] = x
  <2>1. PICK s \in store : RowOf(s) = r
    BY <1>1 DEF IInv, Mirror
  <2>2. s.value = x /\ <<s.value, s.id>> \in byToken
    BY <1>1, <2>1, RowOfFields DEF IInv, Mirror
  <2> QED
    BY <2>2
<1>2. ASSUME NEW e \in byToken, e[1] = x PROVE \E r \in table : r.token = x
  <2>1. PICK s \in store : e = <<s.value, s.id>>
    BY <1>2 DEF IInv, Mirror
  <2> QED
    BY <1>2, <2>1, RowOfFields DEF IInv, Mirror
<1> QED
  BY <1>1, <1>2 DEF Unique, MemCreateOK

(* The index by session finds the row of the session. *)
LEMMA FoundBySession ==
  ASSUME IInv, mirror, NEW r \in table
  PROVE  \E s \in store : MemGetBySessionID(r.id) = {s} /\ RowOf(s) = r /\ s.session = r.id
<1>1. PICK s \in store : RowOf(s) = r
  BY DEF IInv, Mirror
<1>2. s \in MemRows /\ s.session = r.id
  BY <1>1, RowOfFields DEF IInv, Mirror
<1>3. ASSUME NEW u \in store PROVE (\E e \in bySession : e = <<r.id, u.id>>) <=> u = s
  <2>1. ASSUME NEW e \in bySession, e = <<r.id, u.id>> PROVE u = s
    <3>1. PICK v \in store : e = <<v.session, v.id>>
      BY <2>1 DEF IInv, Mirror
    <3> QED
      BY <1>2, <2>1, <3>1 DEF IInv, Mirror
  <2>2. <<s.session, s.id>> \in bySession
    BY DEF IInv, Mirror
  <2> QED
    BY <1>2, <2>1, <2>2
<1> QED
  BY <1>1, <1>2, <1>3 DEF MemGetBySessionID

-----------------------------------------------------------------------------
(* The steps that leave both repositories alone. *)
LEMMA OtherSteps ==
  ASSUME IInv, UNCHANGED <<memVars, secret, pgVars, mirror, agree>>
  PROVE  IInv'
BY Zenon DEF IInv, Table, Mirror, memVars, pgVars

LEMMA RestartStep == ASSUME IInv, NEW s \in Secrets \cup {NoSecret}, Restart(s) PROVE IInv'
BY Zenon DEF IInv, Table, Mirror, Restart

LEMMA AddBeginsStep == ASSUME IInv, NEW t \in Tokens, AddBegins(t) PROVE IInv'
<1> DEFINE a == [id |-> lastId + 1, token |-> Encrypt(t, lastId + 1)]
<1>1. adding' = adding \cup {a} /\ lastId' = lastId + 1 /\ lastId < MaxIds
      /\ UNCHANGED <<store, byToken, bySession, seq, secret, table, mirror, agree>>
  BY DEF AddBegins, memVars
<1>2. lastId + 1 \in Ids /\ lastId \in Nat
  BY <1>1, RecordsAssumption DEF IInv, Table, Ids
<1>3. Encrypt(t, lastId + 1) \in Stored
  BY <1>2 DEF Encrypt, Stored, IInv, Table
<1>4. a \in Inserts /\ a.id = lastId + 1
  BY <1>2, <1>3 DEF Inserts
<1> HIDE DEF a
<1>5. (\A b \in adding : b.id \in Ids) /\ \A r \in table : r.id \in Ids
  BY DEF IInv, Table, Inserts, Rows
<1>6. (\A b \in adding : b.id # lastId + 1) /\ \A r \in table : r.id # lastId + 1
  BY <1>2, <1>5 DEF IInv, Table, Ids
<1>7. lastId' \in 0 .. MaxIds
  BY <1>1, <1>2, RecordsAssumption
<1>8. \A n \in Ids : n <= lastId => n <= lastId + 1
  BY <1>2 DEF Ids
<1>9. Table'
  BY <1>1, <1>2, <1>4, <1>5, <1>6, <1>7, <1>8 DEF IInv, Table
<1>10. Mirror'
  BY <1>1, Zenon DEF IInv, Mirror
<1> QED
  BY <1>9, <1>10 DEF IInv

(* An INSERT that fails leaves both repositories alone. *)
LEMMA AddFailsStep == ASSUME IInv, NEW a \in adding, AddFails(a) PROVE IInv'
<1>1. adding' \in SUBSET adding
      /\ UNCHANGED <<store, byToken, bySession, seq, secret, lastId, table, mirror, agree>>
  BY DEF AddFails, memVars
<1>2. Table'
  BY <1>1, Zenon DEF IInv, Table
<1>3. Mirror'
  BY <1>1, Zenon DEF IInv, Mirror
<1> QED
  BY <1>2, <1>3 DEF IInv

(* A Create that both repositories accept. *)
LEMMA AddEndsStep == ASSUME IInv, NEW a \in adding, AddEnds(a) PROVE IInv'
<1> DEFINE row == [id |-> a.id, token |-> a.token, worker |-> NoWorker]
           mem == [id |-> seq + 1, value |-> a.token, session |-> a.id, worker |-> NoWorker]
<1>1. a.id \in Ids /\ a.token \in Stored /\ a.id <= lastId
  BY DEF IInv, Table, Inserts
<1>2. adding' = adding \ {a} /\ UNCHANGED <<secret, lastId, mirror>>
  BY DEF AddEnds
<1>3. row \in Rows /\ row.id = a.id /\ row.token = a.token
  BY <1>1 DEF Rows
<1>4. \/ Unique(a.token) /\ table' = table \cup {row}
      \/ ~Unique(a.token) /\ table' = table
  BY DEF AddEnds
<1>5. IsFiniteSet(table')
  <2> HIDE DEF row
  <2>1. IsFiniteSet(table)
    BY DEF IInv, Table
  <2>2. IsFiniteSet(table \cup {row})
    BY <2>1, FS_AddElement
  <2> QED
    BY <1>4, <2>1, <2>2
<1>6. \A r \in table : r.id # a.id
  BY DEF IInv, Table
<1> HIDE DEF row
<1>7. Table'
  <2>1. CASE table' = table
    BY <1>2, <2>1, Zenon DEF IInv, Table
  <2>2. CASE Unique(a.token) /\ table' = table \cup {row}
    BY <1>1, <1>2, <1>3, <1>5, <1>6, <2>2 DEF IInv, Table, Unique
  <2> QED
    BY <1>4, <2>1, <2>2
<1>8. Mirror'
  <2> SUFFICES ASSUME mirror PROVE Mirror'
    BY <1>2 DEF Mirror
  <2>1. MemCreate(a.token, a.id) /\ agree' = TRUE /\ (Unique(a.token) <=> MemCreateOK(a.token))
    <3>1. MemCreate(a.token, a.id) /\ agree' = (Unique(a.token) = MemCreateOK(a.token))
      BY DEF AddEnds
    <3>2. Unique(a.token) \in BOOLEAN /\ MemCreateOK(a.token) \in BOOLEAN
      BY DEF Unique, MemCreateOK
    <3> QED
      BY <3>1, <3>2, SameAnswer, ZenonT(60)
  <2>2. CASE ~Unique(a.token)
    <3>1. UNCHANGED <<store, byToken, bySession, seq, table>>
      BY <1>4, <2>1, <2>2, Zenon DEF MemCreate, memVars
    <3> QED
      BY <1>2, <2>1, <3>1, Zenon DEF IInv, Mirror
  <2>3. CASE Unique(a.token)
    <3>1. /\ table' = table \cup {row} /\ seq' = seq + 1 /\ store' = store \cup {mem}
          /\ byToken' = byToken \cup {<<a.token, seq + 1>>}
          /\ bySession' = bySession \cup {<<a.id, seq + 1>>}
      BY <1>4, <2>1, <2>3, Zenon DEF MemCreate
    <3>2. mem \in MemRows /\ mem.id = seq + 1 /\ mem.value = a.token /\ mem.session = a.id
          /\ RowOf(mem) = row /\ seq \in Nat
      BY <1>1 DEF MemRows, IInv, Mirror, RowOf, row
    <3> HIDE DEF mem
    <3>3. ASSUME NEW s \in store PROVE s.id <= seq + 1 /\ s.id # seq + 1 /\ s.session # a.id
      <4>1. s \in MemRows /\ s.id <= seq /\ RowOf(s) \in table
        BY Zenon DEF IInv, Mirror
      <4>2. s.session # a.id
        BY <4>1, <1>6, RowOfFields
      <4> QED
        BY <3>2, <4>1, <4>2 DEF MemRows
    <3>4. byToken' = {<<s.value, s.id>> : s \in store'}
      BY <3>1, <3>2, Zenon DEF IInv, Mirror
    <3>5. bySession' = {<<s.session, s.id>> : s \in store'}
      BY <3>1, <3>2, Zenon DEF IInv, Mirror
    <3>6. store' \in SUBSET MemRows /\ seq' \in Nat
          /\ \A s \in store' : s.id <= seq' /\ RowOf(s) \in table'
      BY <3>1, <3>2, <3>3 DEF IInv, Mirror
    <3>7. \A r \in table' : \E s \in store' : RowOf(s) = r
      BY <3>1, <3>2, Zenon DEF IInv, Mirror
    <3>8. \A s, u \in store' : s.id = u.id \/ s.session = u.session => s = u
      BY <3>1, <3>2, <3>3 DEF IInv, Mirror
    <3> QED
      BY <2>1, <3>4, <3>5, <3>6, <3>7, <3>8, Zenon DEF Mirror
  <2> QED
    BY <2>2, <2>3
<1> QED
  BY <1>7, <1>8 DEF IInv

LEMMA UpdateWorkerIDStep ==
  ASSUME IInv, NEW r \in table, NEW w \in Workers, UpdateWorkerID(r, w)
  PROVE  IInv'
<1> DEFINE row == [r EXCEPT !.worker = w]
<1>1. table' = (table \ {r}) \cup {row}
      /\ UNCHANGED <<secret, lastId, adding, mirror, agree>>
  BY DEF UpdateWorkerID
<1>2. r \in Rows /\ row \in Rows /\ row.id = r.id /\ row.token = r.token /\ row.worker = w
  BY DEF IInv, Table, Rows
<1> HIDE DEF row
<1>3. IsFiniteSet(table')
  <2>1. IsFiniteSet(table \ {r})
    BY FS_RemoveElement DEF IInv, Table
  <2> QED
    BY <1>1, <2>1, FS_AddElement
<1>4. Table'
  BY <1>1, <1>2, <1>3 DEF IInv, Table
<1>5. Mirror'
  <2> SUFFICES ASSUME mirror PROVE Mirror'
    BY <1>1, Zenon DEF Mirror
  <2>1. PICK s \in store : MemGetBySessionID(r.id) = {s} /\ RowOf(s) = r /\ s.session = r.id
    BY FoundBySession, Zenon
  <2> DEFINE mem == [s EXCEPT !.worker = w]
  <2>2. store' = (store \ {s}) \cup {mem} /\ UNCHANGED <<byToken, bySession, seq>>
    BY <2>1 DEF UpdateWorkerID, MemUpdateWorkerID
  <2>3. s \in MemRows /\ mem \in MemRows
    BY DEF IInv, Mirror, MemRows
  <2>4. mem.id = s.id /\ mem.value = s.value /\ mem.session = s.session /\ mem.worker = w
    BY <2>3 DEF MemRows
  <2>5. RowOf(mem) = row
    BY <2>1, <2>3, <2>4, <1>2 DEF RowOf, row
  <2> HIDE DEF mem
  <2>6. ASSUME NEW u \in store, u # s PROVE RowOf(u) \in table \ {r}
    <3>1. u \in MemRows /\ RowOf(u) \in table /\ u.session # s.session
      BY <2>6, Zenon DEF IInv, Mirror
    <3> QED
      BY <2>1, <3>1, RowOfFields, Zenon
  <2>7. store' \in SUBSET MemRows /\ \A u \in store' : u.id <= seq /\ RowOf(u) \in table'
    BY <1>1, <2>2, <2>3, <2>4, <2>5, <2>6, Zenon DEF IInv, Mirror
  <2>8. \A q \in table' : \E u \in store' : RowOf(u) = q
    BY <1>1, <2>1, <2>2, <2>5, Zenon DEF IInv, Mirror
  <2>9. \A u, v \in store' : u.id = v.id \/ u.session = v.session => u = v
    BY <2>2, <2>4 DEF IInv, Mirror
  <2>10. byToken = {<<u.value, u.id>> : u \in store'}
         /\ bySession = {<<u.session, u.id>> : u \in store'}
    BY <2>2, <2>4 DEF IInv, Mirror
  <2> QED
    BY <1>1, <2>2, <2>7, <2>8, <2>9, <2>10, Zenon DEF IInv, Mirror
<1> QED
  BY <1>4, <1>5 DEF IInv

LEMMA RemoveBotStep == ASSUME IInv, NEW r \in table, RemoveBot(r) PROVE IInv'
<1>1. table' = table \ {r} /\ UNCHANGED <<secret, lastId, adding, mirror, agree>>
  BY DEF RemoveBot
<1>2. IsFiniteSet(table')
  BY <1>1, FS_RemoveElement, Zenon DEF IInv, Table
<1>3. Table'
  BY <1>1, <1>2, Zenon DEF IInv, Table
<1>4. Mirror'
  <2> SUFFICES ASSUME mirror PROVE Mirror'
    BY <1>1, Zenon DEF Mirror
  <2>1. PICK s \in store : MemGetBySessionID(r.id) = {s} /\ RowOf(s) = r /\ s.session = r.id
    BY FoundBySession, Zenon
  <2>2. MemGetByID(s.id) = {s}
    BY Zenon DEF MemGetByID, IInv, Mirror
  <2>3. MemDelete(s.id)
    BY <2>1 DEF RemoveBot
  <2>4. /\ store' = store \ {s} /\ seq' = seq
        /\ byToken' = {e \in byToken : e[1] # s.value}
        /\ bySession' = {e \in bySession : e[1] # s.session}
    BY <2>2, <2>3 DEF MemDelete
  <2>5. ASSUME NEW u \in store, u # s
        PROVE  RowOf(u) \in table \ {r} /\ u.value # s.value /\ u.session # s.session
    <3>1. u \in MemRows /\ RowOf(u) \in table /\ u.session # s.session
      BY <2>5, Zenon DEF IInv, Mirror
    <3> QED
      BY <2>1, <2>5, <3>1, RowOfFields, ValuesUnique, Zenon
  <2>6. byToken' = {<<u.value, u.id>> : u \in store'}
    BY <2>4, <2>5 DEF IInv, Mirror
  <2>7. bySession' = {<<u.session, u.id>> : u \in store'}
    BY <2>4, <2>5 DEF IInv, Mirror
  <2>8. \A q \in table' : \E u \in store' : RowOf(u) = q
    BY <1>1, <2>1, <2>4, Zenon DEF IInv, Mirror
  <2> QED
    BY <1>1, <2>4, <2>5, <2>6, <2>7, <2>8, Zenon DEF IInv, Mirror
<1> QED
  BY <1>3, <1>4 DEF IInv

LEMMA NextIInv == IInv /\ [Next]_vars => IInv'
<1> SUFFICES ASSUME IInv, [Next]_vars PROVE IInv'
  OBVIOUS
<1>1. CASE \E t \in Tokens : AddBegins(t)
  BY <1>1, AddBeginsStep
<1>2. CASE \E a \in adding : AddEnds(a)
  BY <1>2, AddEndsStep
<1>11. CASE \E a \in adding : AddFails(a)
  BY <1>11, AddFailsStep
<1>3. CASE \E r \in table : GetBot(r)
  BY <1>3, OtherSteps, Zenon DEF GetBot
<1>4. CASE \E r \in table : RemoveBot(r)
  BY <1>4, RemoveBotStep
<1>5. CASE \E r \in table, w \in Workers : UpdateWorkerID(r, w)
  BY <1>5, UpdateWorkerIDStep
<1>6. CASE WalkBegins
  BY <1>6, OtherSteps DEF WalkBegins
<1>7. CASE WalkPage
  BY <1>7, OtherSteps DEF WalkPage
<1>8. CASE \E w \in Workers : Restore(w)
  BY <1>8, OtherSteps DEF Restore
<1>9. CASE \E s \in Secrets \cup {NoSecret} : Restart(s)
  BY <1>9, RestartStep
<1>10. CASE UNCHANGED vars
  BY <1>10, OtherSteps, Zenon DEF vars
<1> QED
  BY <1>1, <1>2, <1>3, <1>4, <1>5, <1>6, <1>7, <1>8, <1>9, <1>10, <1>11, Zenon DEF Next

(* Both hold from the start on. *)
LEMMA RecordsInv == Spec => []IInv
BY InitIInv, NextIInv, PTL DEF Spec

-----------------------------------------------------------------------------
(* A worker has as many rows in the memory as in the table: the rows of the table
   are sent to theirs in the memory one to one. *)
LEMMA SameNumber ==
  ASSUME IInv, mirror, NEW w
  PROVE  Cardinality(MemListByWorkerID(w)) = Cardinality({r \in table : r.worker = w})
<1> DEFINE A == MemListByWorkerID(w)
           B == {r \in table : r.worker = w}
           f == [r \in B |-> CHOOSE s \in A : RowOf(s) = r]
<1>1. ASSUME NEW s \in A PROVE s \in store /\ s \in MemRows /\ s.worker = w /\ RowOf(s) \in B
  <2>1. s \in store /\ s.worker = w
    BY <1>1 DEF MemListByWorkerID
  <2>2. s \in MemRows /\ RowOf(s) \in table
    BY <2>1, Zenon DEF IInv, Mirror
  <2> QED
    BY <2>1, <2>2, RowOfFields, Zenon
<1>2. ASSUME NEW s \in A, NEW u \in A, RowOf(s) = RowOf(u) PROVE s = u
  <2>1. s.session = u.session
    BY <1>1, <1>2, RowOfFields, Zenon
  <2> QED
    BY <1>1, <2>1, Zenon DEF IInv, Mirror
<1>3. ASSUME NEW r \in B PROVE \E s \in A : RowOf(s) = r
  <2>1. PICK s \in store : RowOf(s) = r
    BY <1>3, Zenon DEF IInv, Mirror
  <2>2. s \in MemRows
    BY Zenon DEF IInv, Mirror
  <2>3. s.worker = w
    BY <2>1, <2>2, RowOfFields, Zenon
  <2> QED
    BY <2>1, <2>3, Zenon DEF MemListByWorkerID
<1>4. IsFiniteSet(B)
  BY FS_Subset, Zenon DEF IInv, Table
<1> HIDE DEF A, B
<1>5. ASSUME NEW r \in B PROVE f[r] \in A /\ RowOf(f[r]) = r
  BY <1>3, Zenon
<1>6. \A s \in A : RowOf(s) \in B /\ f[RowOf(s)] = s
  BY <1>1, <1>2, <1>5, Zenon
<1>7. f \in [B -> A]
  BY <1>5, Zenon
<1> HIDE DEF f
<1>8. f \in Bijection(B, A)
  BY <1>5, <1>6, <1>7, ZenonT(60) DEF Bijection, Injection, Surjection, IsInjective
<1>9. Cardinality(A) = Cardinality(B)
  BY <1>4, <1>8, FS_Bijection DEF ExistsBijection
<1> QED
  BY <1>9 DEF A, B

(* memory_repo.go answers like the table: as long as both get the same operations,
   the in-memory repository holds the records the table holds, finds them by session
   and by worker, and accepts the same creations. *)
THEOREM RepositoriesAgreeSafe == Spec => []RepositoriesAgree
<1>1. IInv => RepositoriesAgree
  <2> SUFFICES ASSUME IInv, mirror PROVE RepositoriesAgree
    BY Zenon DEF RepositoriesAgree
  <2>1. agree
    BY Zenon DEF IInv, Mirror
  <2>2. ASSUME NEW s \in store
        PROVE  \E r \in table : <<s.session, s.value, s.worker>> = <<r.id, r.token, r.worker>>
    BY RowOfFields, Zenon DEF IInv, Mirror
  <2>3. ASSUME NEW r \in table
        PROVE  \E s \in store : <<s.session, s.value, s.worker>> = <<r.id, r.token, r.worker>>
    BY RowOfFields DEF IInv, Mirror
  <2>4. Content(store) = {<<r.id, r.token, r.worker>> : r \in table}
    BY <2>2, <2>3 DEF Content
  <2>5. ASSUME NEW r \in table PROVE Cardinality(MemGetBySessionID(r.id)) = 1
    BY FoundBySession, FS_Singleton, ZenonT(60)
  <2> QED
    BY <2>1, <2>4, <2>5, SameNumber, Zenon DEF RepositoriesAgree
<1> QED
  BY <1>1, RecordsInv, PTL

-----------------------------------------------------------------------------
Given == DOMAIN given = Ids

LEMMA NextGiven == Given /\ [Next]_vars => Given'
BY ZenonT(60) DEF Given, Next, vars, AddBegins, AddEnds, AddFails, GetBot, RemoveBot,
       UpdateWorkerID, WalkBegins, WalkPage, Restore, Restart, GiveOut

(* Rows that can all be decrypted with a key were sealed with it. *)
LEMMA GiveOutIntact ==
  ASSUME IInv, NEW rows \in SUBSET table, GiveOut(rows), secret # NoSecret, NEW r \in table
  PROVE  given'[r.id] \in {given[r.id], r.token.token}
<1>1. r.id \in Ids
  BY Zenon DEF IInv, Table, Rows
<1>2. CASE r.id \notin IdsOf(rows)
  BY <1>1, <1>2, Zenon DEF GiveOut
<1>3. CASE r.id \in IdsOf(rows)
  <2>1. PICK q \in rows : q.id = r.id
    BY <1>3, Zenon DEF IdsOf
  <2>2. (CHOOSE v \in rows : v.id = r.id) \in rows
        /\ (CHOOSE v \in rows : v.id = r.id).id = r.id
    BY <2>1, Zenon
  <2>3. (CHOOSE v \in rows : v.id = r.id) = r /\ r \in rows
    BY <2>2, Zenon DEF IInv, Table
  <2>4. given'[r.id] = Decrypt(r.token)
    BY <1>1, <1>3, <2>3, Zenon DEF GiveOut
  <2>5. Decrypt(r.token) # NoToken
    BY <2>3, Zenon DEF GiveOut, Readable
  <2> QED
    BY <2>4, <2>5, Zenon DEF Decrypt
<1> QED
  BY <1>2, <1>3, Zenon

(* service.go and token.go: while encryption is on, main only ever gives out the
   token a bot was added with, whatever key its row was stored under. *)
THEOREM TokenIntactSafe == Spec => TokenIntact
<1> DEFINE Intact == secret # NoSecret =>
       \A r \in table : given'[r.id] \in {given[r.id], r.token.token, NoToken}
<1>1. IInv /\ Given /\ [Next]_vars => [Intact]_vars
  <2> SUFFICES ASSUME IInv, Given, Next, secret # NoSecret, NEW r \in table
               PROVE  given'[r.id] \in {given[r.id], r.token.token, NoToken}
    BY Zenon
  <2>1. r.id \in Ids
    BY Zenon DEF IInv, Table, Rows
  <2>2. CASE given' = given
    BY <2>2
  <2>3. CASE \E a \in adding : AddEnds(a)
    <3>1. PICK a \in adding : AddEnds(a)
      BY <2>3
    <3>2. a.id # r.id
      BY Zenon DEF IInv, Table
    <3> QED
      BY <2>1, <3>1, <3>2, Zenon DEF AddEnds, Given
  <2>4. CASE \E q \in table : RemoveBot(q)
    BY <2>1, <2>4 DEF RemoveBot, Given
  <2>5. CASE \E rows \in SUBSET table : GiveOut(rows)
    BY <2>5, GiveOutIntact, Zenon
  <2>6. ASSUME WalkPage PROVE given' = given \/ \E rows \in SUBSET table : GiveOut(rows)
    BY <2>6 DEF WalkPage
  <2>7. ASSUME \E q \in table : GetBot(q) PROVE \E rows \in SUBSET table : GiveOut(rows)
    BY <2>7 DEF GetBot
  <2>8. ASSUME \E w \in Workers : Restore(w) PROVE \E rows \in SUBSET table : GiveOut(rows)
    BY <2>8 DEF Restore
  <2>9. ASSUME \/ \E t \in Tokens : AddBegins(t)
               \/ \E a \in adding : AddFails(a)
               \/ \E q \in table, w \in Workers : UpdateWorkerID(q, w)
               \/ WalkBegins \/ \E s \in Secrets \cup {NoSecret} : Restart(s)
        PROVE  given' = given
    BY <2>9 DEF AddBegins, AddFails, UpdateWorkerID, WalkBegins, Restart
  <2> QED
    BY <2>2, <2>3, <2>4, <2>5, <2>6, <2>7, <2>8, <2>9, Zenon DEF Next
<1>2. Init => Given
  BY DEF Init, Given
<1>3. Spec => [][Intact]_vars
  BY <1>1, <1>2, NextGiven, RecordsInv, PTL DEF Spec
<1> QED
  BY <1>3, Zenon DEF TokenIntact

-----------------------------------------------------------------------------
Under(S, n) == {m \in S : m < n}
UpTo(S, n) == {m \in S : m <= n}

Walks == [on : BOOLEAN, offset : Nat, got : Seq(SUBSET Ids), base : SUBSET Ids,
          late : BOOLEAN, cut : BOOLEAN]

(* Pages come in the order of the ids. *)
Ascending(got) ==
  \A i, j \in DOMAIN got : i < j => \A m \in got[i], n \in got[j] : m < n

(* Unless a smaller id came late, no more rows than the offset are at or before a bot
   seen, so the next page lies after all of them; unless a bot was removed, a bot
   still to be seen has as many rows before it as the offset. *)
WalkInv ==
  /\ walk \in Walks
  /\ \A n \in Seen : n <= lastId /\ \A a \in adding : a.id # n
  /\ ~walk.late =>
       /\ Ascending(walk.got)
       /\ \A n \in Seen : Cardinality(UpTo(IdsOf(table), n)) <= walk.offset
  /\ walk.on /\ ~walk.cut =>
       /\ walk.base \subseteq IdsOf(table)
       /\ \A n \in walk.base \ Seen : walk.offset <= Rank(n)
  /\ ~walk.on /\ walk.offset > 0 /\ ~walk.cut => walk.base \subseteq Seen

LEMMA IdsAreNatural == MaxIds \in Nat /\ \A n \in Ids : n \in Nat /\ n <= MaxIds
BY RecordsAssumption DEF Ids

(* Ids are finite in number, and so are the sets counted. *)
LEMMA FiniteIds ==
  ASSUME NEW S \in SUBSET Ids, NEW n
  PROVE  /\ IsFiniteSet(S) /\ IsFiniteSet(Under(S, n)) /\ IsFiniteSet(UpTo(S, n))
         /\ Cardinality(Under(S, n)) \in Nat /\ Cardinality(UpTo(S, n)) \in Nat
<1>1. IsFiniteSet(Ids)
  BY FS_Interval, RecordsAssumption DEF Ids
<1>2. Under(S, n) \in SUBSET Ids /\ UpTo(S, n) \in SUBSET Ids
  BY DEF Under, UpTo
<1>3. \A T \in SUBSET Ids : IsFiniteSet(T)
  BY <1>1, FS_Subset, Zenon
<1>4. IsFiniteSet(S) /\ IsFiniteSet(Under(S, n)) /\ IsFiniteSet(UpTo(S, n))
  BY <1>2, <1>3, Zenon
<1> QED
  BY <1>4, FS_CardinalityType, Zenon

LEMMA CountGrows ==
  ASSUME NEW S \in SUBSET Ids, NEW T \in SUBSET S, NEW n
  PROVE  /\ Cardinality(Under(T, n)) <= Cardinality(Under(S, n))
         /\ Cardinality(UpTo(T, n)) <= Cardinality(UpTo(S, n))
<1>1. Under(T, n) \in SUBSET Under(S, n) /\ UpTo(T, n) \in SUBSET UpTo(S, n)
  BY DEF Under, UpTo
<1> QED
  BY <1>1, FiniteIds, FS_Subset, Zenon

(* The row itself is one more than the rows before it. *)
LEMMA CountSelf ==
  ASSUME NEW S \in SUBSET Ids, NEW n \in S
  PROVE  Cardinality(UpTo(S, n)) = Cardinality(Under(S, n)) + 1
<1>1. UpTo(S, n) = Under(S, n) \cup {n} /\ n \notin Under(S, n)
  <2>1. n \in Nat /\ \A m \in S : m \in Nat
    BY IdsAreNatural
  <2>2. \A m \in S : m <= n <=> m < n \/ m = n
    BY <2>1
  <2>3. ~(n < n)
    BY <2>1
  <2> QED
    BY <2>2, <2>3 DEF UpTo, Under
<1> QED
  BY <1>1, FiniteIds, FS_AddElement, Zenon

LEMMA CountBelow ==
  ASSUME NEW S \in SUBSET Ids, NEW n \in S, NEW k \in Ids, n <= k
  PROVE  Cardinality(UpTo(S, n)) <= Cardinality(UpTo(S, k))
<1>1. UpTo(S, n) \in SUBSET UpTo(S, k)
  <2>1. n \in Nat /\ k \in Nat /\ \A m \in S : m \in Nat
    BY IdsAreNatural
  <2>2. \A m \in S : m <= n => m <= k
    BY <2>1
  <2> QED
    BY <2>2 DEF UpTo
<1> QED
  BY <1>1, FiniteIds, FS_Subset, Zenon

LEMMA Least == ASSUME NEW S \in SUBSET Nat, S # {} PROVE \E m \in S : \A n \in S : m <= n
<1> DEFINE R == OpToRel(<, Nat)
<1>1. \A m, n \in Nat : m < n => <<m, n>> \in R
  BY DEF OpToRel
<1>2. IsWellFoundedOn(R, Nat)
  BY NatLessThanWellFounded
<1> HIDE DEF R
<1>3. PICK m \in S : \A n \in S : ~(<<n, m>> \in R)
  BY <1>2, WFMin, ZenonT(60)
<1>4. \A n \in S : ~(n < m)
  BY <1>1, <1>3, ZenonT(60)
<1>5. \A n \in S : m <= n
  <2> TAKE n \in S
  <2>1. m \in Nat /\ n \in Nat /\ ~(n < m)
    BY <1>4
  <2> QED
    BY <2>1
<1> QED
  BY <1>5

LEMMA Greatest == ASSUME NEW S \in SUBSET Ids, S # {} PROVE \E m \in S : \A n \in S : n <= m
<1> DEFINE T == {MaxIds - n : n \in S}
<1>1. T \in SUBSET Nat /\ T # {}
  <2>1. \A n \in S : MaxIds - n \in Nat
    BY IdsAreNatural
  <2> QED
    BY <2>1
<1>2. PICK k \in T : \A n \in T : k <= n
  BY <1>1, Least, ZenonT(60)
<1>3. PICK m \in S : k = MaxIds - m
  OBVIOUS
<1>4. \A n \in S : n <= m
  <2> TAKE n \in S
  <2>1. n \in Nat /\ m \in Nat /\ MaxIds \in Nat
    BY IdsAreNatural
  <2>2. MaxIds - m <= MaxIds - n
    BY <1>2, <1>3
  <2> QED
    BY <2>1, <2>2
<1> QED
  BY <1>4

(* A page is empty only when no row has the offset or more rows before it. *)
LEMMA RankReached ==
  ASSUME NEW S \in SUBSET Ids, NEW n \in S, NEW k \in Nat, k <= Cardinality(Under(S, n))
  PROVE  \E p \in S : Cardinality(Under(S, p)) = k
<1> DEFINE T == {m \in S : k <= Cardinality(Under(S, m))}
<1>1. T \in SUBSET Nat /\ T # {}
  <2>1. \A m \in S : m \in Nat
    BY IdsAreNatural
  <2> QED
    BY <2>1
<1>2. PICK p \in T : \A m \in T : p <= m
  BY <1>1, Least, ZenonT(60)
<1>3. CASE Cardinality(Under(S, p)) = k
  BY <1>3, Zenon
<1>4. CASE Cardinality(Under(S, p)) # k
  <2>1. Under(S, p) \in SUBSET Ids /\ Under(S, p) # {} /\ Cardinality(Under(S, p)) > k
    <3>1. Under(S, p) \in SUBSET Ids
      BY Zenon DEF Under
    <3>2. IsFiniteSet(Under(S, p)) /\ Cardinality(Under(S, p)) \in Nat
      BY FiniteIds, Zenon
    <3>3. Cardinality(Under(S, p)) > k
      BY <1>4, <3>2
    <3>4. Cardinality(Under(S, p)) # 0
      BY <3>2, <3>3
    <3>5. Under(S, p) # {}
      BY <3>4, FS_EmptySet, Zenon
    <3> QED
      BY <3>1, <3>3, <3>5, Zenon
  <2>2. PICK q \in Under(S, p) : \A m \in Under(S, p) : m <= q
    BY <2>1, Greatest, Zenon
  <2>3. UpTo(S, q) = Under(S, p) /\ q \in S /\ q < p
    <3>1. q \in S /\ q < p /\ p \in S
      BY Zenon DEF Under
    <3>2. q \in Nat /\ p \in Nat /\ \A m \in S : m \in Nat
      BY <3>1, IdsAreNatural, Zenon
    <3>3. \A m \in S : m < p => m <= q
      BY <2>2, Zenon DEF Under
    <3>4. \A m \in S : m <= q => m < p
      BY <3>1, <3>2
    <3> QED
      BY <3>1, <3>3, <3>4, Zenon DEF UpTo, Under
  <2>4. Cardinality(Under(S, p)) = Cardinality(Under(S, q)) + 1
    BY <2>3, CountSelf, Zenon
  <2>5. k <= Cardinality(Under(S, q))
    BY <2>1, <2>4, FiniteIds
  <2>6. q \in T
    BY <2>3, <2>5, Zenon
  <2>7. p <= q /\ p \in Nat /\ q \in Nat
    BY <1>2, <2>6, <2>3, IdsAreNatural, Zenon
  <2> QED
    BY <2>3, <2>7
<1> QED
  BY <1>3, <1>4, Zenon

LEMMA SeenAppend ==
  ASSUME NEW got \in Seq(SUBSET Ids), NEW page \in SUBSET Ids
  PROVE  UNION Range(Append(got, page)) = (UNION Range(got)) \cup page
<1>1. /\ DOMAIN got = 1 .. Len(got) /\ Len(got) \in Nat
      /\ DOMAIN Append(got, page) = 1 .. Len(got) + 1
      /\ Append(got, page)[Len(got) + 1] = page
      /\ \A i \in 1 .. Len(got) : Append(got, page)[i] = got[i]
  BY SMTT(60)
<1>2. \A i : i \in 1 .. Len(got) + 1 <=> i \in 1 .. Len(got) \/ i = Len(got) + 1
  BY <1>1
<1>3. Range(Append(got, page)) = Range(got) \cup {page}
  BY <1>1, <1>2, Zenon DEF Range
<1> QED
  BY <1>3

LEMMA SeenTypes == ASSUME walk \in Walks PROVE Seen \in SUBSET Ids
<1>1. walk.got \in Seq(SUBSET Ids)
  BY DEF Walks
<1>2. \A i \in DOMAIN walk.got : walk.got[i] \in SUBSET Ids
  BY <1>1
<1> QED
  BY <1>2 DEF Seen, Range

LEMMA IdsOfTable == ASSUME Table PROVE IdsOf(table) \in SUBSET Ids /\ IdsOf(table) \in SUBSET (1 .. lastId)
BY DEF Table, IdsOf, Rows, Ids

LEMMA NoWalkInv == walk = NoWalk => WalkInv
<1> SUFFICES ASSUME walk = NoWalk PROVE WalkInv
  OBVIOUS
<1>1. walk.got = <<>> /\ DOMAIN walk.got = {}
  BY DEF NoWalk
<1>2. Seen = {}
  BY <1>1 DEF Seen, Range
<1>3. walk \in Walks
  BY DEF NoWalk, Walks
<1> QED
  BY <1>1, <1>2, <1>3, Zenon DEF WalkInv, NoWalk, Ascending

LEMMA NextNoWalk == (walk = NoWalk => WalkInv)'
BY NoWalkInv, PTL

(* The steps that change no id of the table and no page. *)
LEMMA WalkStays ==
  ASSUME WalkInv, UNCHANGED walk, IdsOf(table)' = IdsOf(table), lastId' = lastId,
         adding' = adding
  PROVE  WalkInv'
<1>1. Seen' = Seen /\ \A n : Rank(n)' = Rank(n)
  BY Zenon DEF Seen, Rank
<1> QED
  BY <1>1, Zenon DEF WalkInv

LEMMA AddBeginsWalk == ASSUME IInv, WalkInv, NEW t \in Tokens, AddBegins(t) PROVE WalkInv'
<1>1. UNCHANGED <<walk, table>> /\ lastId' = lastId + 1 /\ lastId \in Nat
      /\ \A a \in adding' : a \in adding \/ a.id = lastId + 1
  <2>1. lastId \in Nat
    BY RecordsAssumption DEF IInv, Table
  <2> QED
    BY <2>1 DEF AddBegins
<1>2. Seen' = Seen /\ IdsOf(table)' = IdsOf(table) /\ \A n : Rank(n)' = Rank(n)
  BY <1>1, Zenon DEF Seen, IdsOf, Rank
<1>3. \A n \in Seen : n \in Nat
  BY SeenTypes, IdsAreNatural, Zenon DEF WalkInv
<1>4. \A n \in Seen' : n <= lastId' /\ \A a \in adding' : a.id # n
  BY <1>1, <1>2, <1>3 DEF WalkInv
<1> QED
  BY <1>1, <1>2, <1>4, Zenon DEF WalkInv

LEMMA AddFailsWalk == ASSUME WalkInv, NEW a \in adding, AddFails(a) PROVE WalkInv'
<1>1. adding' \in SUBSET adding /\ UNCHANGED <<walk, table, lastId>>
  BY DEF AddFails
<1>2. Seen' = Seen /\ IdsOf(table)' = IdsOf(table) /\ \A n : Rank(n)' = Rank(n)
  BY <1>1, Zenon DEF Seen, IdsOf, Rank
<1> QED
  BY <1>1, <1>2, Zenon DEF WalkInv

LEMMA AddEndsWalk == ASSUME IInv, WalkInv, NEW a \in adding, AddEnds(a) PROVE WalkInv'
<1>1. adding' = adding \ {a} /\ lastId' = lastId
  BY DEF AddEnds
<1>2. CASE ~Unique(a.token)
  <2>1. UNCHANGED <<table, walk>>
    BY <1>2 DEF AddEnds
  <2>2. Seen' = Seen /\ IdsOf(table)' = IdsOf(table) /\ \A n : Rank(n)' = Rank(n)
    BY <2>1, Zenon DEF Seen, IdsOf, Rank
  <2> QED
    BY <1>1, <2>1, <2>2, Zenon DEF WalkInv
<1>3. CASE Unique(a.token)
  <2> DEFINE S == IdsOf(table)
             late == walk.late \/ \E n \in Seen : a.id < n
  <2>1. walk' = [walk EXCEPT !.late = late]
        /\ table' = table \cup {[id |-> a.id, token |-> a.token, worker |-> NoWorker]}
    BY <1>3 DEF AddEnds
  <2>2. IdsOf(table)' = S \cup {a.id} /\ a.id \in Ids
    <3> DEFINE row == [id |-> a.id, token |-> a.token, worker |-> NoWorker]
    <3>1. row.id = a.id /\ table' = table \cup {row}
      BY <2>1
    <3> HIDE DEF row
    <3>2. {r.id : r \in table \cup {row}} = {r.id : r \in table} \cup {a.id}
      BY <3>1, Zenon
    <3>3. a.id \in Ids
      BY Zenon DEF IInv, Table, Inserts
    <3> QED
      BY <3>1, <3>2, <3>3, Zenon DEF IdsOf
  <2>3. walk' \in Walks /\ walk'.late = late
        /\ walk'.got = walk.got /\ walk'.offset = walk.offset /\ walk'.on = walk.on
        /\ walk'.cut = walk.cut /\ walk'.base = walk.base
    BY <2>1, ZenonT(60) DEF WalkInv, Walks
  <2>4. Seen' = Seen /\ Seen \in SUBSET Ids /\ S \in SUBSET Ids
    BY <2>3, SeenTypes, IdsOfTable, Zenon DEF Seen, WalkInv, IInv
  <2> HIDE DEF S
  <2>5. ASSUME ~late, NEW n \in Seen PROVE UpTo(S \cup {a.id}, n) = UpTo(S, n)
    <3>1. a.id # n /\ ~(a.id < n) /\ a.id \in Nat /\ n \in Nat
      BY <2>2, <2>4, <2>5, IdsAreNatural, Zenon DEF WalkInv
    <3>2. ~(a.id <= n)
      BY <3>1
    <3> QED
      BY <3>2, Zenon DEF UpTo
  <2>6. \A n : Rank(n) = Cardinality(Under(S, n)) /\ Rank(n)' = Cardinality(Under(S \cup {a.id}, n))
    BY <2>2, Zenon DEF Rank, Under, S
  <2>7. ASSUME NEW n, walk.offset <= Rank(n) PROVE walk.offset <= Rank(n)'
    <3>1. S \cup {a.id} \in SUBSET Ids /\ S \in SUBSET (S \cup {a.id})
      BY <2>2, <2>4, Zenon
    <3>2. Cardinality(Under(S, n)) <= Cardinality(Under(S \cup {a.id}, n))
      BY <3>1, CountGrows, Zenon
    <3>3. Cardinality(Under(S, n)) \in Nat /\ Cardinality(Under(S \cup {a.id}, n)) \in Nat
          /\ walk.offset \in Nat
      BY <3>1, <2>4, FiniteIds, ZenonT(60) DEF WalkInv, Walks
    <3> QED
      BY <2>6, <2>7, <3>2, <3>3
  <2>8. \A n \in Seen' : n <= lastId' /\ \A b \in adding' : b.id # n
    BY <1>1, <2>4, Zenon DEF WalkInv
  <2>9. ~walk'.late =>
         /\ Ascending(walk'.got)
         /\ \A n \in Seen' : Cardinality(UpTo(IdsOf(table)', n)) <= walk'.offset
    BY <2>2, <2>3, <2>4, <2>5, Zenon DEF WalkInv, S
  <2>10. walk'.on /\ ~walk'.cut =>
         /\ walk'.base \subseteq IdsOf(table)'
         /\ \A n \in walk'.base \ Seen' : walk'.offset <= Rank(n)'
    BY <2>2, <2>3, <2>4, <2>7, Zenon DEF WalkInv, S
  <2>11. ~walk'.on /\ walk'.offset > 0 /\ ~walk'.cut => walk'.base \subseteq Seen'
    BY <2>3, <2>4, Zenon DEF WalkInv
  <2> QED
    BY <2>3, <2>8, <2>9, <2>10, <2>11, Zenon DEF WalkInv
<1> QED
  BY <1>2, <1>3

LEMMA RemoveBotWalk == ASSUME IInv, WalkInv, NEW r \in table, RemoveBot(r) PROVE WalkInv'
<1>1. UNCHANGED <<adding, lastId>> /\ table' = table \ {r}
      /\ walk' = [walk EXCEPT !.cut = walk.cut \/ walk.on]
  BY DEF RemoveBot
<1>2. walk' \in Walks /\ walk'.cut = (walk.cut \/ walk.on) /\ walk'.got = walk.got
      /\ walk'.offset = walk.offset /\ walk'.on = walk.on /\ walk'.late = walk.late
      /\ walk'.base = walk.base
  BY <1>1, Zenon DEF WalkInv, Walks
<1>3. Seen' = Seen
  BY <1>2, Zenon DEF Seen
<1>4. ASSUME NEW n \in Seen, Cardinality(UpTo(IdsOf(table), n)) <= walk.offset
      PROVE  Cardinality(UpTo(IdsOf(table)', n)) <= walk.offset
  <2>1. IdsOf(table) \in SUBSET Ids /\ IdsOf(table)' \in SUBSET IdsOf(table)
    BY <1>1, IdsOfTable DEF IInv, IdsOf
  <2>2. Cardinality(UpTo(IdsOf(table)', n)) <= Cardinality(UpTo(IdsOf(table), n))
    BY <2>1, CountGrows, Zenon
  <2>3. /\ Cardinality(UpTo(IdsOf(table)', n)) \in Nat
        /\ Cardinality(UpTo(IdsOf(table), n)) \in Nat
        /\ walk.offset \in Nat
    BY <2>1, FiniteIds, ZenonT(60) DEF WalkInv, Walks
  <2> QED
    BY <1>4, <2>2, <2>3
<1> QED
  BY <1>1, <1>2, <1>3, <1>4, ZenonT(60) DEF WalkInv

LEMMA UpdateWorkerIDWalk ==
  ASSUME IInv, WalkInv, NEW r \in table, NEW w \in Workers, UpdateWorkerID(r, w)
  PROVE  WalkInv'
<1> DEFINE row == [r EXCEPT !.worker = w]
<1>1. table' = (table \ {r}) \cup {row} /\ UNCHANGED <<walk, lastId, adding>>
  BY DEF UpdateWorkerID
<1>2. row.id = r.id
  BY DEF IInv, Table, Rows
<1> HIDE DEF row
<1>3. {q.id : q \in (table \ {r}) \cup {row}} = {q.id : q \in table}
  BY <1>2, Zenon
<1> QED
  BY <1>1, <1>3, WalkStays, Zenon DEF IdsOf

LEMMA WalkBeginsWalk == ASSUME IInv, WalkInv, WalkBegins PROVE WalkInv'
<1>1. UNCHANGED <<adding, lastId, table>>
      /\ walk' = [NoWalk EXCEPT !.on = TRUE, !.base = IdsOf(table)]
  BY DEF WalkBegins, pgVars
<1>2. walk'.on = TRUE /\ walk'.offset = 0 /\ walk'.got = <<>> /\ walk'.cut = FALSE
      /\ walk'.late = FALSE /\ walk'.base = IdsOf(table)
  BY <1>1 DEF NoWalk
<1>3. IdsOf(table) \in SUBSET Ids
  BY IdsOfTable DEF IInv
<1>4. walk' \in Walks
  <2>1. walk' = [on |-> TRUE, offset |-> 0, got |-> <<>>, base |-> IdsOf(table),
                 late |-> FALSE, cut |-> FALSE]
    BY <1>1, ZenonT(60) DEF NoWalk
  <2>2. <<>> \in Seq(SUBSET Ids)
    OBVIOUS
  <2> QED
    BY <1>3, <2>1, <2>2, Zenon DEF Walks
<1>5. DOMAIN walk'.got = {} /\ Seen' = {}
  BY <1>2 DEF Seen, Range
<1>6. \A n : 0 <= Rank(n)'
  <2> TAKE n
  <2>1. Cardinality(Under(IdsOf(table), n)) \in Nat
    BY <1>3, FiniteIds, Zenon
  <2>2. Rank(n)' = Cardinality(Under(IdsOf(table), n))
    BY <1>1 DEF Rank, Under, IdsOf
  <2> QED
    BY <2>1, <2>2
<1>7. IdsOf(table)' = IdsOf(table)
  BY <1>1 DEF IdsOf
<1> QED
  BY <1>2, <1>4, <1>5, <1>6, <1>7, Zenon DEF WalkInv, Ascending

LEMMA WalkPageWalk == ASSUME IInv, WalkInv, WalkPage PROVE WalkInv'
<1> DEFINE S == IdsOf(table)
           page == List(walk.offset)
<1>1. walk.on /\ UNCHANGED <<adding, lastId, table>>
  BY DEF WalkPage, pgVars
<1>2. CASE walk' = NoWalk
  BY <1>2, NextNoWalk
<1>3. CASE walk' = [walk EXCEPT !.offset = walk.offset + Limit, !.got = Append(walk.got, page),
                                !.on = page # {}]
  <2>1. S \in SUBSET Ids /\ S \in SUBSET (1 .. lastId) /\ page \in SUBSET S
    BY IdsOfTable, Zenon DEF IInv, List
  <2>2. walk.got \in Seq(SUBSET Ids) /\ walk.offset \in Nat /\ Limit \in Nat \ {0}
        /\ lastId \in Nat
    BY RecordsAssumption, SMTT(60) DEF WalkInv, Walks, IInv, Table
  <2>3. IdsOf(table)' = S /\ \A n : Rank(n)' = Rank(n) /\ Rank(n) = Cardinality(Under(S, n))
                                  /\ Rank(n) \in Nat
    <3>1. IdsOf(table)' = S /\ \A n : Rank(n)' = Rank(n) /\ Rank(n) = Cardinality(Under(S, n))
      BY <1>1, Zenon DEF IdsOf, Rank, Under
    <3> QED
      BY <2>1, <3>1, FiniteIds, Zenon
  <2>4. \A n \in S : n \in page <=> walk.offset <= Rank(n) /\ Rank(n) < walk.offset + Limit
    BY <2>2, <2>3 DEF List
  <2> HIDE DEF S, page
  <2>5. walk'.offset = walk.offset + Limit /\ walk'.got = Append(walk.got, page)
        /\ walk'.on = (page # {}) /\ walk'.late = walk.late /\ walk'.cut = walk.cut
        /\ walk'.base = walk.base /\ walk' \in Walks
    <3>1. Append(walk.got, page) \in Seq(SUBSET Ids) /\ walk.offset + Limit \in Nat
      BY <2>1, <2>2
    <3> QED
      BY <1>3, <3>1, Zenon DEF WalkInv, Walks
  <2>6. Seen' = Seen \cup page /\ Seen \in SUBSET Ids
    BY <2>1, <2>2, <2>5, SeenAppend, SeenTypes, ZenonT(60) DEF Seen, WalkInv
  <2>7. \A n \in Seen' : n <= lastId' /\ \A a \in adding' : a.id # n
    <3>1. \A n \in page : n <= lastId /\ \A a \in adding : a.id # n
      BY <2>1, <2>2 DEF S, IdsOf, IInv, Table
    <3> QED
      BY <1>1, <2>6, <3>1, Zenon DEF WalkInv
  <2>8. ASSUME ~walk.late
        PROVE  /\ Ascending(walk'.got)
               /\ \A n \in Seen' : Cardinality(UpTo(S, n)) <= walk'.offset
    <3>1. ASSUME NEW n \in page, NEW k \in Seen PROVE k < n
      <4>1. n \in S /\ n \in Nat /\ k \in Nat /\ walk.offset <= Rank(n)
            /\ Cardinality(UpTo(S, k)) <= walk.offset
        BY <2>1, <2>4, <2>6, <2>8, IdsAreNatural, Zenon DEF WalkInv, S
      <4>2. Cardinality(UpTo(S, n)) = Rank(n) + 1
        BY <2>1, <2>3, <4>1, CountSelf, Zenon
      <4>3. n <= k => Cardinality(UpTo(S, n)) <= Cardinality(UpTo(S, k))
        BY <2>1, <2>6, <4>1, CountBelow, Zenon
      <4>4. Cardinality(UpTo(S, k)) \in Nat /\ Rank(n) \in Nat
        BY <2>1, <2>3, FiniteIds, Zenon
      <4> QED
        BY <2>2, <4>1, <4>2, <4>3, <4>4
    <3>2. ASSUME NEW n \in Seen' PROVE Cardinality(UpTo(S, n)) <= walk'.offset
      <4>1. CASE n \in page
        <5>1. n \in S /\ Rank(n) < walk.offset + Limit /\ Cardinality(UpTo(S, n)) = Rank(n) + 1
          BY <2>1, <2>3, <2>4, <4>1, CountSelf, Zenon
        <5> QED
          BY <2>2, <2>3, <2>5, <5>1, SMTT(60)
      <4>2. CASE n \in Seen
        <5>1. Cardinality(UpTo(S, n)) <= walk.offset /\ Cardinality(UpTo(S, n)) \in Nat
          BY <2>1, <2>8, <4>2, FiniteIds, Zenon DEF WalkInv, S
        <5> QED
          BY <2>2, <2>5, <5>1
      <4> QED
        BY <2>6, <3>2, <4>1, <4>2, Zenon
    <3>3. Ascending(Append(walk.got, page))
      <4> DEFINE g == walk.got
                 h == Append(walk.got, page)
      <4>1. Len(g) \in Nat /\ DOMAIN g = 1 .. Len(g) /\ DOMAIN h = 1 .. Len(g) + 1
            /\ h[Len(g) + 1] = page /\ \A i \in 1 .. Len(g) : h[i] = g[i]
        BY <2>1, <2>2
      <4>2. \A i \in 1 .. Len(g) : g[i] \subseteq Seen
        BY <4>1, Zenon DEF Seen, Range
      <4>3. Ascending(g)
        BY <2>8, Zenon DEF WalkInv
      <4> HIDE DEF g, h
      <4>4. ASSUME NEW i \in DOMAIN h, NEW j \in DOMAIN h, i < j,
                   NEW m \in h[i], NEW n \in h[j]
            PROVE  m < n
        <5>1. i \in 1 .. Len(g) /\ (j \in 1 .. Len(g) \/ j = Len(g) + 1)
          BY <4>1, <4>4
        <5>2. CASE j \in 1 .. Len(g)
          BY <4>1, <4>3, <4>4, <5>1, <5>2, Zenon DEF Ascending
        <5>3. CASE j = Len(g) + 1
          BY <3>1, <4>1, <4>2, <4>4, <5>1, <5>3, Zenon
        <5> QED
          BY <5>1, <5>2, <5>3, Zenon
      <4>5. Ascending(h)
        BY <4>4, Zenon DEF Ascending
      <4> QED
        BY <4>5 DEF h
    <3> QED
      BY <2>5, <3>2, <3>3, Zenon
  <2>9. ASSUME ~walk.cut
        PROVE  /\ walk.base \subseteq S
               /\ \A n \in walk.base \ Seen' : walk'.offset <= Rank(n)
               /\ page = {} => walk.base \subseteq Seen
    <3>1. walk.base \subseteq S /\ \A n \in walk.base \ Seen : walk.offset <= Rank(n)
      BY <1>1, <2>9, Zenon DEF WalkInv, S
    <3>2. ASSUME NEW n \in walk.base \ Seen' PROVE walk'.offset <= Rank(n)
      <4>1. n \in S /\ n \notin page /\ walk.offset <= Rank(n)
        BY <2>6, <3>1, <3>2, Zenon
      <4>2. ~(Rank(n) < walk.offset + Limit)
        BY <2>4, <4>1, Zenon
      <4> QED
        BY <2>2, <2>3, <2>5, <4>2, SMTT(60)
    <3>3. ASSUME NEW n \in walk.base \ Seen PROVE page # {}
      <4>1. n \in S /\ walk.offset <= Cardinality(Under(S, n))
        BY <2>3, <3>1, <3>3, Zenon
      <4>2. PICK p \in S : Cardinality(Under(S, p)) = walk.offset
        BY <2>1, <2>2, <4>1, RankReached, Zenon
      <4>3. Rank(p) = walk.offset
        BY <2>3, <4>2, Zenon
      <4>4. walk.offset <= walk.offset /\ walk.offset < walk.offset + Limit
        BY <2>2
      <4> QED
        BY <2>4, <4>3, <4>4, Zenon
    <3> QED
      BY <3>1, <3>2, <3>3, Zenon
  <2> QED
    BY <2>3, <2>5, <2>6, <2>7, <2>8, <2>9, Zenon DEF WalkInv
<1> QED
  BY <1>2, <1>3 DEF WalkPage

LEMMA NextWalkInv == IInv /\ WalkInv /\ [Next]_vars => WalkInv'
<1> SUFFICES ASSUME IInv, WalkInv, [Next]_vars PROVE WalkInv'
  OBVIOUS
<1>1. CASE \E t \in Tokens : AddBegins(t)
  BY <1>1, AddBeginsWalk, Zenon
<1>2. CASE \E a \in adding : AddEnds(a)
  BY <1>2, AddEndsWalk, Zenon
<1>9. CASE \E a \in adding : AddFails(a)
  BY <1>9, AddFailsWalk, Zenon
<1>3. CASE \E r \in table : RemoveBot(r)
  BY <1>3, RemoveBotWalk
<1>4. CASE \E r \in table, w \in Workers : UpdateWorkerID(r, w)
  BY <1>4, UpdateWorkerIDWalk, Zenon
<1>5. CASE WalkBegins
  BY <1>5, WalkBeginsWalk
<1>6. CASE WalkPage
  BY <1>6, WalkPageWalk
<1>7. CASE (\E r \in table : GetBot(r)) \/ (\E w \in Workers : Restore(w)) \/ UNCHANGED vars
  <2>1. UNCHANGED <<walk, table, lastId, adding>>
    BY <1>7, Zenon DEF GetBot, Restore, vars, pgVars
  <2> QED
    BY <2>1, WalkStays, Zenon DEF IdsOf
<1>8. CASE \E s \in Secrets \cup {NoSecret} : Restart(s)
  BY <1>8, NextNoWalk, Zenon DEF Restart
<1> QED
  BY <1>1, <1>2, <1>3, <1>4, <1>5, <1>6, <1>7, <1>8, <1>9, Zenon DEF Next

(* postgres.go:50-76, ORDER BY id LIMIT OFFSET: for any number of bots and any page
   size, a client that reads page after page sees no bot twice, unless an INSERT with
   a smaller id commits meanwhile, and misses none that was there all the time, unless
   a bot is removed meanwhile. *)
THEOREM WalkIsSoundSafe == Spec => []WalkIsSound
<1>1. Init => WalkInv
  BY NoWalkInv, Zenon DEF Init
<1>2. WalkInv => WalkIsSound
  BY Zenon DEF WalkInv, WalkIsSound, Ascending
<1> QED
  BY <1>1, <1>2, NextWalkInv, RecordsInv, PTL DEF Spec
=============================================================================
