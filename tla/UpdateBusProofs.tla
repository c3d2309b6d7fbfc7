-------------------------- MODULE UpdateBusProofs --------------------------
(***************************************************************************)
(* Theorems about UpdateBus, for any sessions, streams, filters, capacity  *)
(* of the channels and number of updates.                                  *)
(***************************************************************************)
EXTENDS UpdateBus, TLAPS

Updates == Publishers \X Nat

Types ==
  /\ subscribers \in [SubIds -> Streams \cup {NoStream}]
  /\ subID \in [Streams -> SubIds]
  /\ stream \in [Streams -> {"new", "open", "leaving", "left", "gone"}]
  /\ queue \in [Streams -> Seq(Updates)]
  /\ got \in [Streams -> [Publishers -> Nat]]
  /\ disp \in [Publishers -> {"idle", "sending"}]
  /\ todo \in [Publishers -> SUBSET SubIds]
  /\ count \in [Publishers -> Nat]

(* An id in the map is that of its stream, whose channel is open. *)
Map ==
  \A i \in SubIds : subscribers[i] # NoStream =>
    subID[subscribers[i]] = i /\ stream[subscribers[i]] \in {"open", "leaving"}

(* The map a dispatch iterates over does not change under it. *)
Readers ==
  \A p \in Publishers :
    /\ disp[p] = "idle" => todo[p] = {}
    /\ \A i \in todo[p] : subscribers[i] # NoStream

(* For one stream, its channel q and what it has sent, g: SessionOrderKept. *)
Ordered(q, g) ==
  \A k \in 1 .. Len(q) :
    /\ q[k][2] > g[q[k][1]]
    /\ \A j \in 1 .. k - 1 : q[j][1] = q[k][1] => q[j][2] < q[k][2]

(* The updates of p it has sent or holds have numbers below n. *)
Below(q, g, p, n) ==
  g[p] < n /\ \A k \in 1 .. Len(q) : q[k][1] = p => q[k][2] < n

(* A stream knows of no update later than the session's last one, and not of that
   one while the dispatch has still to serve it. *)
Numbers ==
  \A p \in Publishers :
    /\ \A s \in Streams : Below(queue[s], got[s], p, count[p] + 1)
    /\ \A i \in todo[p] : Below(queue[subscribers[i]], got[subscribers[i]], p, count[p])

IInv == Types /\ Map /\ Readers /\ Numbers /\ SessionOrderKept

-----------------------------------------------------------------------------
(* SessionOrderKept is Ordered, stream by stream. *)
LEMMA OrderIsOrdered == SessionOrderKept <=> \A s \in Streams : Ordered(queue[s], got[s])
  BY Zenon DEF SessionOrderKept, Ordered

(* The send of dispatch: an update later than all those of its session. *)
LEMMA AppendOrdered ==
  ASSUME NEW q \in Seq(Updates), NEW g \in [Publishers -> Nat], NEW p \in Publishers, NEW n \in Nat,
         Ordered(q, g), Below(q, g, p, n)
  PROVE  Ordered(Append(q, <<p, n>>), g)
<1> DEFINE r == Append(q, <<p, n>>)
<1>1. /\ Len(q) \in Nat /\ Len(r) = Len(q) + 1 /\ r[Len(q) + 1] = <<p, n>>
      /\ \A k \in 1 .. Len(q) : r[k] = q[k]
  OBVIOUS
<1> HIDE DEF r
<1> SUFFICES ASSUME NEW k \in 1 .. Len(r)
             PROVE  /\ r[k][2] > g[r[k][1]]
                    /\ \A j \in 1 .. k - 1 : r[j][1] = r[k][1] => r[j][2] < r[k][2]
  BY Zenon DEF Ordered, r
<1>2. CASE k \in 1 .. Len(q)
  <2>1. (\A j \in 1 .. k - 1 : r[j] = q[j]) /\ r[k] = q[k]
    BY <1>1, <1>2
  <2>2. /\ q[k][2] > g[q[k][1]]
        /\ \A j \in 1 .. k - 1 : q[j][1] = q[k][1] => q[j][2] < q[k][2]
    BY <1>2, Zenon DEF Ordered
  <2> QED
    BY <2>1, <2>2, Zenon
<1>3. CASE k = Len(q) + 1
  <2>1. r[k][1] = p /\ r[k][2] = n
    BY <1>1, <1>3
  <2>2. \A j \in 1 .. k - 1 : r[j] = q[j] /\ j \in 1 .. Len(q)
    BY <1>1, <1>3
  <2> QED
    BY <2>1, <2>2, Zenon DEF Below
<1> QED
  BY <1>1, <1>2, <1>3

LEMMA AppendBelow ==
  ASSUME NEW q \in Seq(Updates), NEW g, NEW p \in Publishers, NEW n \in Nat,
         NEW o \in Publishers, NEW m \in Nat,
         Below(q, g, p, n), o = p => m < n
  PROVE  Below(Append(q, <<o, m>>), g, p, n)
<1> DEFINE r == Append(q, <<o, m>>)
<1>1. /\ Len(q) \in Nat /\ Len(r) = Len(q) + 1 /\ r[Len(q) + 1] = <<o, m>>
      /\ \A k \in 1 .. Len(q) : r[k] = q[k]
  OBVIOUS
<1> HIDE DEF r
<1> SUFFICES ASSUME NEW k \in 1 .. Len(r), r[k][1] = p PROVE r[k][2] < n
  BY DEF Below, r
<1>2. CASE k \in 1 .. Len(q)
  BY <1>1, <1>2 DEF Below
<1>3. CASE k = Len(q) + 1
  BY <1>1, <1>3
<1> QED
  BY <1>1, <1>2, <1>3

(* The receive of Subscribe, filtered out or sent on. *)
LEMMA TailFacts ==
  ASSUME NEW q \in Seq(Updates), q # <<>>
  PROVE  /\ Tail(q) \in Seq(Updates) /\ Len(Tail(q)) = Len(q) - 1 /\ Len(q) \in Nat \ {0}
         /\ \A k \in 1 .. Len(Tail(q)) : Tail(q)[k] = q[k + 1]
         /\ Head(q) = q[1] /\ q[1] \in Updates
  OBVIOUS

LEMMA TailOrdered ==
  ASSUME NEW q \in Seq(Updates), q # <<>>, NEW g \in [Publishers -> Nat], Ordered(q, g)
  PROVE  /\ Ordered(Tail(q), g)
         /\ Ordered(Tail(q), [g EXCEPT ![Head(q)[1]] = Head(q)[2]])
<1> DEFINE r == Tail(q)
           h == [g EXCEPT ![q[1][1]] = q[1][2]]
<1>1. Len(r) = Len(q) - 1 /\ Len(q) \in Nat \ {0} /\ \A k \in 1 .. Len(r) : r[k] = q[k + 1]
  BY TailFacts
<1>2. Head(q) = q[1] /\ q[1] \in Updates
  BY TailFacts
<1> HIDE DEF r
<1>3. ASSUME NEW k \in 1 .. Len(r)
      PROVE  /\ r[k][2] > g[r[k][1]] /\ r[k][2] > h[r[k][1]]
             /\ \A j \in 1 .. k - 1 : r[j][1] = r[k][1] => r[j][2] < r[k][2]
  <2>1. k + 1 \in 1 .. Len(q) /\ 1 \in 1 .. k + 1 - 1 /\ r[k] = q[k + 1]
    BY <1>1, <1>3
  <2>2. r[k][2] > g[r[k][1]] /\ (q[1][1] = r[k][1] => q[1][2] < r[k][2])
    BY <2>1 DEF Ordered
  <2>3. r[k] \in Updates /\ q[1][2] \in Nat
    <3>1. q[k + 1] \in Updates
      BY <2>1
    <3>2. q[1][2] \in Nat
      BY <1>2, Zenon DEF Updates
    <3> QED
      BY <2>1, <3>1, <3>2
  <2>4. r[k][2] > h[r[k][1]]
    <3>1. CASE r[k][1] = q[1][1]
      <4>1. h[r[k][1]] = q[1][2]
        BY <2>3, <3>1, Zenon DEF Updates
      <4> QED
        BY <2>2, <2>3, <3>1, <4>1 DEF Updates
    <3>2. CASE r[k][1] # q[1][1]
      <4>1. h[r[k][1]] = g[r[k][1]]
        BY <2>3, <3>2 DEF Updates
      <4> QED
        BY <2>2, <4>1
    <3> QED
      BY <3>1, <3>2
  <2>5. ASSUME NEW j \in 1 .. k - 1 PROVE r[j][1] = r[k][1] => r[j][2] < r[k][2]
    <3>1. j + 1 \in 1 .. (k + 1) - 1 /\ r[j] = q[j + 1]
      BY <1>1, <2>5, SMTT(60)
    <3> QED
      BY <2>1, <3>1 DEF Ordered
  <2> QED
    BY <2>2, <2>4, <2>5
<1> QED
  BY <1>2, <1>3, Zenon DEF Ordered, r

LEMMA TailBelow ==
  ASSUME NEW q \in Seq(Updates), q # <<>>, NEW g \in [Publishers -> Nat],
         NEW p \in Publishers, NEW n \in Nat, Below(q, g, p, n)
  PROVE  /\ Below(Tail(q), g, p, n)
         /\ Below(Tail(q), [g EXCEPT ![Head(q)[1]] = Head(q)[2]], p, n)
<1> DEFINE r == Tail(q)
           h == [g EXCEPT ![Head(q)[1]] = Head(q)[2]]
<1>1. Len(r) = Len(q) - 1 /\ Len(q) \in Nat \ {0} /\ \A k \in 1 .. Len(r) : r[k] = q[k + 1]
  BY TailFacts
<1>2. Head(q) = q[1] /\ q[1] \in Updates /\ 1 \in 1 .. Len(q)
  BY TailFacts, <1>1
<1>3. h[p] < n
  BY <1>2, Zenon DEF Below, Updates
<1> HIDE DEF r, h
<1>4. ASSUME NEW k \in 1 .. Len(r), r[k][1] = p PROVE r[k][2] < n
  <2>1. k + 1 \in 1 .. Len(q)
    BY <1>1, <1>4
  <2> QED
    BY <1>1, <1>4, <2>1, Zenon DEF Below
<1>5. Below(r, g, p, n) /\ Below(r, h, p, n)
  BY <1>3, <1>4 DEF Below
<1> QED
  BY <1>5 DEF r, h

-----------------------------------------------------------------------------
LEMMA InitIInv == Init => IInv
<1> SUFFICES ASSUME Init PROVE IInv
  OBVIOUS
<1>1. Types
  BY DEF Init, Types
<1>2. Map /\ Readers
  BY DEF Init, Map, Readers
<1>3. \A s \in Streams : Len(queue[s]) = 0 /\ got[s] = [p \in Publishers |-> 0]
  BY DEF Init
<1>4. Numbers /\ SessionOrderKept
  BY <1>3 DEF Init, Numbers, Below, SessionOrderKept
<1> QED
  BY <1>1, <1>2, <1>4 DEF IInv

(* dispatch up to the read lock: its update is later than all others. *)
LEMMA StartsIInv ==
  ASSUME NEW p \in Publishers, IInv, DispatchUnmarshalable(p) \/ DispatchBegin(p)
  PROVE  IInv'
<1> USE DEF IInv, subVars
<1>1. /\ disp[p] = "idle" /\ count' = [count EXCEPT ![p] = @ + 1]
      /\ UNCHANGED <<subscribers, subID, stream, queue, got>>
      /\ todo' = todo \/ todo' = [todo EXCEPT ![p] = {i \in SubIds : subscribers[i] # NoStream}]
  BY DEF DispatchUnmarshalable, DispatchBegin
<1>2. Types'
  <2>1. count' \in [Publishers -> Nat]
    BY <1>1 DEF Types
  <2>2. todo' \in [Publishers -> SUBSET SubIds]
    BY <1>1, ZenonT(60) DEF Types
  <2>3. disp' \in [Publishers -> {"idle", "sending"}]
    BY Zenon DEF DispatchUnmarshalable, DispatchBegin, Types
  <2> QED
    BY <1>1, <2>1, <2>2, <2>3 DEF Types
<1>3. Map' /\ SessionOrderKept'
  BY <1>1, Zenon DEF Map, SessionOrderKept
<1>4. Readers'
  <2>1. CASE DispatchUnmarshalable(p)
    BY <2>1 DEF DispatchUnmarshalable, Readers
  <2>2. CASE DispatchBegin(p)
    BY <2>2 DEF DispatchBegin, Readers, Types
  <2> QED
    BY <2>1, <2>2
<1>5. Numbers'
  <2> SUFFICES ASSUME NEW o \in Publishers
               PROVE  /\ \A s \in Streams : Below(queue[s], got[s], o, count'[o] + 1)
                      /\ \A i \in todo'[o] :
                           Below(queue[subscribers[i]], got[subscribers[i]], o, count'[o])
    BY <1>1, Zenon DEF Numbers
  <2>1. CASE o # p
    <3>1. count'[o] = count[o] /\ todo'[o] = todo[o]
      BY <1>1, <2>1 DEF Types
    <3> QED
      BY <3>1, Zenon DEF Numbers
  <2>2. CASE o = p
    <3>1. count[p] \in Nat /\ count'[p] = count[p] + 1
      BY <1>1 DEF Types
    <3>2. ASSUME NEW s \in Streams
          PROVE  Below(queue[s], got[s], p, count'[p]) /\ Below(queue[s], got[s], p, count'[p] + 1)
      <4>1. Below(queue[s], got[s], p, count[p] + 1)
        BY DEF Numbers
      <4>2. got[s][p] \in Nat /\ \A k \in 1 .. Len(queue[s]) : queue[s][k][2] \in Nat
        <5>1. queue[s] \in Seq(Updates) /\ got[s] \in [Publishers -> Nat]
          BY DEF Types
        <5>2. \A k \in 1 .. Len(queue[s]) : queue[s][k] \in Updates
          BY <5>1
        <5>3. \A u \in Updates : u[2] \in Nat
          BY DEF Updates
        <5> QED
          BY <5>1, <5>2, <5>3
      <4> QED
        BY <3>1, <4>1, <4>2, SMTT(60) DEF Below
    <3>3. \A i \in todo'[p] : subscribers[i] \in Streams
      BY <1>1 DEF Types, Readers
    <3> QED
      BY <2>2, <3>2, <3>3
  <2> QED
    BY <2>1, <2>2, Zenon
<1> QED
  BY <1>2, <1>3, <1>4, <1>5

(* One turn of the loop of dispatch over the subscribers. *)
LEMMA SendIInv ==
  ASSUME NEW p \in Publishers, NEW i \in SubIds, IInv, DispatchSend(p, i)
  PROVE  IInv'
<1> USE DEF IInv, subVars
<1> DEFINE s == subscribers[i]
           u == <<p, count[p]>>
<1>1. /\ i \in todo[p] /\ todo' = [todo EXCEPT ![p] = @ \ {i}]
      /\ queue' = queue \/ queue' = [queue EXCEPT ![s] = Append(@, u)]
      /\ UNCHANGED <<subscribers, subID, stream, got, disp, count>>
  BY Zenon DEF DispatchSend
<1>2. s \in Streams /\ count[p] \in Nat /\ queue[s] \in Seq(Updates) /\ u \in Updates
  BY <1>1, Zenon DEF Types, Readers, Updates
<1>3. \A o \in Publishers : todo'[o] \subseteq todo[o]
  BY <1>1, Zenon DEF Types
<1>4. Types'
  <2>1. todo' \in [Publishers -> SUBSET SubIds]
    BY <1>1, Zenon DEF Types
  <2>2. queue' \in [Streams -> Seq(Updates)]
    <3>1. Append(queue[s], u) \in Seq(Updates)
      BY <1>2
    <3> QED
      BY <1>1, <3>1, ZenonT(60) DEF Types
  <2> QED
    BY <1>1, <2>1, <2>2, Zenon DEF Types
<1>5. Map' /\ Readers'
  BY <1>1, <1>3 DEF Map, Readers, Types
<1>6. CASE queue' = queue
  BY <1>1, <1>3, <1>4, <1>5, <1>6, Zenon DEF Numbers, SessionOrderKept
<1>7. CASE queue' = [queue EXCEPT ![s] = Append(@, u)]
  <2>1. queue'[s] = Append(queue[s], u) /\ \A r \in Streams \ {s} : queue'[r] = queue[r]
    BY <1>2, <1>7, Zenon DEF Types
  <2>2. got[s] \in [Publishers -> Nat] /\ Below(queue[s], got[s], p, count[p])
    BY <1>1, <1>2, Zenon DEF Types, Numbers
  <2>3. SessionOrderKept'
    <3>1. Ordered(queue[s], got[s]) /\ \A r \in Streams : Ordered(queue[r], got[r])
      BY <1>2, OrderIsOrdered
    <3>2. Ordered(Append(queue[s], u), got[s])
      BY <1>2, <2>2, <3>1, AppendOrdered, Zenon
    <3>3. \A r \in Streams : Ordered(queue'[r], got'[r])
      BY <1>1, <2>1, <3>1, <3>2, ZenonT(60)
    <3> QED
      BY <3>3, Zenon DEF SessionOrderKept, Ordered
  <2>4. ASSUME NEW o \in Publishers, NEW r \in Streams
        PROVE  Below(queue'[r], got'[r], o, count'[o] + 1)
    <3>1. Below(queue[r], got[r], o, count[o] + 1) /\ count[o] + 1 \in Nat
      BY DEF Numbers, Types
    <3>2. o = p => count[p] < count[o] + 1
      BY <1>2
    <3>3. Below(Append(queue[s], u), got[s], o, count[o] + 1) \/ r # s
      BY <1>2, <3>1, <3>2, AppendBelow, Zenon
    <3> QED
      BY <1>1, <2>1, <3>1, <3>3, ZenonT(60)
  <2>5. ASSUME NEW o \in Publishers, NEW l \in todo'[o]
        PROVE  Below(queue'[subscribers[l]], got[subscribers[l]], o, count[o])
    <3>1. l \in todo[o] /\ l \in SubIds /\ subscribers[l] \in Streams /\ count[o] \in Nat
      BY <1>3, Zenon DEF Types, Readers
    <3>2. Below(queue[subscribers[l]], got[subscribers[l]], o, count[o])
      BY <3>1, Zenon DEF Numbers
    <3>3. CASE subscribers[l] # s
      BY <2>1, <3>1, <3>2, <3>3, Zenon
    <3>4. CASE subscribers[l] = s
      <4>1. l = i
        BY <1>1, <3>1, <3>4 DEF Map, Readers
      <4>2. o # p
        BY <1>1, <2>5, <4>1, Zenon DEF Types
      <4>3. Below(Append(queue[s], u), got[s], o, count[o])
        BY <1>2, <3>1, <3>2, <3>4, <4>2, AppendBelow, Zenon
      <4> QED
        BY <2>1, <3>4, <4>3, ZenonT(60)
    <3> QED
      BY <3>3, <3>4, Zenon
  <2>6. Numbers'
    BY <1>1, <2>4, <2>5, Zenon DEF Numbers
  <2> QED
    BY <1>4, <1>5, <2>3, <2>6
<1> QED
  BY <1>1, <1>6, <1>7, Zenon

LEMMA ReturnsIInv == ASSUME NEW p \in Publishers, IInv, DispatchReturns(p) PROVE IInv'
<1>1. UNCHANGED <<subscribers, subID, stream, queue, got, todo, count>>
      /\ disp' = [disp EXCEPT ![p] = "idle"] /\ todo[p] = {}
  BY DEF DispatchReturns, subVars
<1>2. Types'
  BY <1>1, Zenon DEF IInv, Types
<1>3. Map' /\ Numbers' /\ SessionOrderKept'
  BY <1>1, Zenon DEF IInv, Map, Numbers, SessionOrderKept
<1>4. Readers'
  BY <1>1 DEF IInv, Types, Readers
<1> QED
  BY <1>2, <1>3, <1>4 DEF IInv

(* A stream registers or leaves: no dispatch is iterating over the map. *)
LEMMA WriteIInv ==
  ASSUME NEW s \in Streams, IInv, SubscribeOpen(s) \/ SubscribeLeave(s)
  PROVE  IInv'
<1> USE DEF IInv, pubVars, StreamGoes
<1>1. /\ NoReader /\ UNCHANGED <<subID, queue, got, disp, todo, count>>
      /\ subID[s] \in SubIds
  BY Zenon DEF SubscribeOpen, SubscribeLeave, Types
<1>2. \A p \in Publishers : todo[p] = {}
  BY <1>1 DEF NoReader, Readers
<1>3. Types'
  <2>1. subscribers' \in [SubIds -> Streams \cup {NoStream}]
    BY <1>1, Zenon DEF SubscribeOpen, SubscribeLeave, Types
  <2>2. stream' \in [Streams -> {"new", "open", "leaving", "left", "gone"}]
    BY ZenonT(60) DEF SubscribeOpen, SubscribeLeave, Types
  <2> QED
    BY <1>1, <2>1, <2>2, Zenon DEF Types
<1>4. Map'
  <2> SUFFICES ASSUME NEW i \in SubIds, subscribers'[i] # NoStream
               PROVE  /\ subID[subscribers'[i]] = i
                      /\ stream'[subscribers'[i]] \in {"open", "leaving"}
    BY <1>1, Zenon DEF Map
  <2>1. CASE i = subID[s]
    BY <1>1, <2>1 DEF SubscribeOpen, SubscribeLeave, Types
  <2>2. CASE i # subID[s]
    <3>1. subscribers'[i] = subscribers[i] /\ subscribers[i] # s
      BY <2>2, ZenonT(60) DEF SubscribeOpen, SubscribeLeave, Types, Map
    <3> QED
      BY <3>1 DEF SubscribeOpen, SubscribeLeave, Types, Map
  <2> QED
    BY <2>1, <2>2
<1>5. Readers' /\ Numbers' /\ SessionOrderKept'
  BY <1>1, <1>2, Zenon DEF Readers, Numbers, SessionOrderKept
<1> QED
  BY <1>3, <1>4, <1>5

(* A stream whose context is done, and one that closes its channel, which has left
   the map. *)
LEMMA EndIInv ==
  ASSUME NEW s \in Streams, IInv, SubscribeCancelled(s) \/ SubscribeClose(s)
  PROVE  IInv'
<1> USE DEF IInv, pubVars, StreamGoes, SubscribeCancelled, SubscribeClose
<1>1. Types'
  BY ZenonT(60) DEF Types
<1>2. Map'
  <2> SUFFICES ASSUME NEW i \in SubIds, subscribers[i] # NoStream
               PROVE  stream'[subscribers[i]] \in {"open", "leaving"}
    BY Zenon DEF Map
  <2>1. subscribers[i] \in Streams /\ stream[subscribers[i]] \in {"open", "leaving"}
    BY DEF Types, Map
  <2> QED
    BY <2>1, Zenon DEF Types
<1>3. Readers' /\ Numbers' /\ SessionOrderKept'
  BY Zenon DEF Readers, Numbers, SessionOrderKept
<1> QED
  BY <1>1, <1>2, <1>3

LEMMA ReceiveIInv == ASSUME NEW s \in Streams, IInv, SubscribeReceive(s) PROVE IInv'
<1> USE DEF IInv, pubVars
<1> DEFINE q == queue[s]
           g == [got[s] EXCEPT ![Head(q)[1]] = Head(q)[2]]
<1>1. /\ q # <<>> /\ queue' = [queue EXCEPT ![s] = Tail(q)]
      /\ got' = got \/ got' = [got EXCEPT ![s] = g]
      /\ stream' = stream \/ (stream[s] = "open" /\ stream' = [stream EXCEPT ![s] = "leaving"])
      /\ UNCHANGED <<subscribers, subID, disp, todo, count>>
  BY Zenon DEF SubscribeReceive, StreamGoes
<1>2. q \in Seq(Updates) /\ got[s] \in [Publishers -> Nat] /\ Head(q) \in Updates
  BY <1>1, TailFacts DEF Types
<1>3. g \in [Publishers -> Nat] /\ Tail(q) \in Seq(Updates)
  BY <1>1, <1>2, TailFacts, Zenon DEF Updates
<1>4. Types'
  BY <1>1, <1>3, ZenonT(60) DEF Types
<1>5. Map' /\ Readers'
  BY <1>1 DEF Types, Map, Readers
<1>6. queue'[s] = Tail(q) /\ got'[s] \in {got[s], g}
  BY <1>1, Zenon DEF Types
<1>7. \A r \in Streams \ {s} : queue'[r] = queue[r] /\ got'[r] = got[r]
  BY <1>1, Zenon DEF Types
<1>8. ASSUME NEW r \in Streams, NEW p \in Publishers, NEW n \in Nat, Below(queue[r], got[r], p, n)
      PROVE  Below(queue'[r], got'[r], p, n)
  <2>1. CASE r = s
    <3>1. Below(Tail(q), got[s], p, n) /\ Below(Tail(q), g, p, n)
      BY <1>1, <1>2, <1>8, <2>1, TailBelow, Zenon
    <3> QED
      BY <1>6, <2>1, <3>1, Zenon
  <2>2. CASE r # s
    BY <1>7, <1>8, <2>2, Zenon
  <2> QED
    BY <2>1, <2>2, Zenon
<1>9. Numbers'
  <2>1. ASSUME NEW p \in Publishers, NEW r \in Streams
        PROVE  Below(queue'[r], got'[r], p, count[p] + 1)
    BY <1>8 DEF Numbers, Types
  <2>2. ASSUME NEW p \in Publishers, NEW i \in todo[p]
        PROVE  Below(queue'[subscribers[i]], got'[subscribers[i]], p, count[p])
    <3>1. subscribers[i] \in Streams /\ count[p] \in Nat
      BY DEF Readers, Types
    <3> QED
      BY <1>8, <3>1, Zenon DEF Numbers
  <2> QED
    BY <1>1, <2>1, <2>2, Zenon DEF Numbers
<1>10. SessionOrderKept'
  <2>1. \A r \in Streams : Ordered(queue[r], got[r])
    BY OrderIsOrdered
  <2>2. Ordered(Tail(q), got[s]) /\ Ordered(Tail(q), g)
    BY <1>1, <1>2, <2>1, TailOrdered, Zenon
  <2>3. \A r \in Streams : Ordered(queue'[r], got'[r])
    BY <1>6, <1>7, <2>1, <2>2, Zenon
  <2> QED
    BY <2>3, Zenon DEF SessionOrderKept, Ordered
<1> QED
  BY <1>4, <1>5, <1>9, <1>10

LEMMA NextIInv == ASSUME IInv, [Next]_vars PROVE IInv'
<1>1. CASE Shutdown \/ Stopped \/ UNCHANGED vars
  <2>1. UNCHANGED <<subscribers, subID, stream, queue, got, disp, todo, count>>
    BY <1>1 DEF Shutdown, Stopped, vars, subVars, pubVars
  <2> QED
    BY <2>1, Zenon DEF IInv, Types, Map, Readers, Numbers, SessionOrderKept
<1>2. ASSUME NEW p \in Publishers, DispatchStarts(p) \/ DispatchStep(p) PROVE IInv'
  BY <1>2, StartsIInv, SendIInv, ReturnsIInv DEF DispatchStarts, DispatchStep
<1>3. ASSUME NEW s \in Streams,
             \/ SubscribeOpen(s) \/ SubscribeReceive(s) \/ SubscribeCancelled(s)
             \/ SubscribeEnds(s) \/ ChannelCloses(s)
      PROVE  IInv'
  BY <1>3, WriteIInv, EndIInv, ReceiveIInv DEF SubscribeEnds, ChannelCloses
<1> QED
  BY <1>1, <1>2, <1>3 DEF Next

LEMMA Invariant == Spec => []IInv
<1>1. IInv /\ [Next]_vars => IInv'
  BY NextIInv
<1> QED
  BY InitIInv, <1>1, PTL DEF Spec

(* No dispatch ever sends on a closed channel, however many sessions dispatch while
   streams open, leave and close (server.go:72-82, 98-104). *)
THEOREM NoSendOnClosedSafe == Spec => []NoSendOnClosed
<1>1. IInv => NoSendOnClosed
  BY Zenon DEF IInv, Types, Map, Readers, NoSendOnClosed
<1> QED
  BY <1>1, Invariant, PTL

(* A stream is sent the updates of one session in the order the session received
   them and none twice, whatever the channels drop (server.go:74-82, 118-129). *)
THEOREM SessionOrderKeptSafe == Spec => []SessionOrderKept
<1>1. IInv => SessionOrderKept
  BY DEF IInv
<1> QED
  BY <1>1, Invariant, PTL

-----------------------------------------------------------------------------
(* Another call has come with the id of s. *)
Rival(s) == \E r \in Streams \ {s} : subID[r] = subID[s] /\ stream[r] # "new"

InMap ==
  \A s \in Streams : stream[s] \in {"open", "leaving"} => subscribers[subID[s]] = s \/ Rival(s)

LEMMA NextInMap == ASSUME IInv, InMap, [Next]_vars PROVE InMap'
<1> USE DEF StreamGoes
<1>1. Types /\ Types' /\ subID' = subID
  <2>1. Types /\ Types'
    BY NextIInv DEF IInv
  <2>2. subID' = subID
    BY Zenon DEF Next, DispatchStarts, DispatchStep, DispatchUnmarshalable, DispatchBegin, DispatchSend,
           DispatchReturns, SubscribeOpen, SubscribeReceive, SubscribeCancelled, SubscribeEnds,
           SubscribeLeave, ChannelCloses, SubscribeClose, Shutdown, Stopped, vars, subVars
  <2> QED
    BY <2>1, <2>2
<1>2. ASSUME NEW r \in Streams, SubscribeOpen(r) \/ SubscribeLeave(r) PROVE InMap'
  <2> SUFFICES ASSUME NEW s \in Streams, stream'[s] \in {"open", "leaving"},
                      ~ \E t \in Streams \ {s} : subID[t] = subID[s] /\ stream'[t] # "new"
               PROVE  subscribers'[subID[s]] = s
    BY <1>1, Zenon DEF InMap, Rival
  <2>1. CASE r = s
    BY <1>1, <1>2, <2>1 DEF SubscribeOpen, SubscribeLeave, Types
  <2>2. CASE r # s
    <3>1. stream'[r] # "new" /\ subID[r] # subID[s]
      BY <1>1, <1>2, <2>2 DEF SubscribeOpen, SubscribeLeave, Types
    <3>2. stream[s] = stream'[s] /\ subscribers'[subID[s]] = subscribers[subID[s]]
      BY <1>1, <1>2, <2>2, <3>1 DEF SubscribeOpen, SubscribeLeave, Types
    <3>3. ~ Rival(s)
      BY <1>1, <1>2, <3>1 DEF Rival, SubscribeOpen, SubscribeLeave, Types
    <3> QED
      BY <3>2, <3>3 DEF InMap
  <2> QED
    BY <2>1, <2>2
<1>3. ASSUME NEW r \in Streams,
             SubscribeReceive(r) \/ SubscribeCancelled(r) \/ SubscribeClose(r)
      PROVE  InMap'
  <2>1. /\ UNCHANGED subscribers
        /\ \A s \in Streams : stream'[s] \in {"open", "leaving"} => stream[s] \in {"open", "leaving"}
        /\ \A s \in Streams : stream[s] # "new" => stream'[s] # "new"
    BY <1>1, <1>3, SMT DEF SubscribeReceive, SubscribeCancelled, SubscribeClose, Types
  <2> QED
    BY <1>1, <2>1, Zenon DEF InMap, Rival
<1>4. ASSUME UNCHANGED <<subscribers, stream>> PROVE InMap'
  BY <1>1, <1>4 DEF InMap, Rival
<1> QED
  BY <1>2, <1>3, <1>4, Zenon
     DEF Next, DispatchStarts, DispatchStep, DispatchUnmarshalable, DispatchBegin, DispatchSend,
         DispatchReturns, SubscribeEnds, ChannelCloses, Shutdown, Stopped, vars, subVars

(* Whatever streams open and leave, an open one is missing from the map dispatch
   iterates over only if another call has read the same nanosecond (server.go:30,
   90-104). *)
THEOREM CutOffOnlyBySharedIDSafe == Spec => []CutOffOnlyBySharedID
<1>1. Init => InMap
  BY DEF Init, InMap
<1>2. IInv /\ InMap /\ [Next]_vars => InMap'
  BY NextInMap
<1>3. InMap => CutOffOnlyBySharedID
  BY DEF InMap, Rival, CutOffOnlyBySharedID
<1> QED
  BY <1>1, <1>2, <1>3, Invariant, PTL DEF Spec
=============================================================================
