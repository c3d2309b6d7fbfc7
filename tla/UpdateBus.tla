------------------------------ MODULE UpdateBus ------------------------------
(***************************************************************************)
(* The update bus of a worker (internal/worker/server/server.go): dispatch, *)
(* called by the event loop of every session, fans each update out to the  *)
(* bounded channels of the open Subscribe streams without ever blocking.   *)
(*                                                                         *)
(* s.mu is a RWMutex: dispatches of different sessions run together under  *)
(* the read lock, a stream registers and leaves under the write lock.  The *)
(* channel of a stream is closed after it has left the map, outside the    *)
(* lock.                                                                   *)
(*                                                                         *)
(* At shutdown the worker cancels the sessions and calls GracefulStop,     *)
(* which refuses new streams and waits for the open ones.                  *)
(***************************************************************************)
EXTENDS Naturals, Sequences, FiniteSetsExt

CONSTANTS Publishers,   \* sessions whose event loop calls dispatch
          Streams,      \* Subscribe calls
          SubIds,       \* values of "sub-<UnixNano>"
          NoStream,     \* no channel in the map
          Cap,          \* capacity of a stream's channel (256 in the code)
          filter,       \* the sessions each stream asks for ({} is all)
          MaxUpdates    \* bound: updates of all sessions together

ASSUME BusAssumption ==
  /\ NoStream \notin Streams
  /\ Cap \in Nat \ {0} /\ MaxUpdates \in Nat /\ filter \in [Streams -> SUBSET Publishers]

VARIABLES
  subscribers,  \* s.subscribers: id -> stream owning the channel, NoStream if absent
  subID,        \* the id each stream registered under
  stream,       \* where each Subscribe call is
  queue,        \* the channel of each stream, updates <<session, number>>
  got,          \* number of the last update of each session sent on the stream
  disp,         \* where each session's dispatch call is
  todo,         \* the subscriber ids the dispatch still has to serve
  count,        \* updates each session has received so far
  server        \* the gRPC server: "serving", "stopping", or "stopped", when the process ends

subVars == <<subscribers, subID, stream>>
pubVars == <<disp, todo, count>>
vars == <<subVars, queue, got, pubVars, server>>

(* subID is the wall clock in nanoseconds: two calls may read the same value. *)
Init ==
  /\ subscribers = [i \in SubIds |-> NoStream]
  /\ subID \in [Streams -> SubIds]
  /\ stream = [s \in Streams |-> "new"]
  /\ queue = [s \in Streams |-> <<>>]
  /\ got = [s \in Streams |-> [p \in Publishers |-> 0]]
  /\ disp = [p \in Publishers |-> "idle"]
  /\ todo = [p \in Publishers |-> {}]
  /\ count = [p \in Publishers |-> 0]
  /\ server = "serving"

Received == MapThenSumSet(LAMBDA p : count[p], Publishers)
NoReader == \A p \in Publishers : disp[p] = "idle"
StreamGoes(s, from, to) == stream[s] = from /\ stream' = [stream EXCEPT ![s] = to]

-----------------------------------------------------------------------------
(* dispatch, the update cannot be marshalled: it is lost without a trace. *)
DispatchUnmarshalable(p) ==
  /\ disp[p] = "idle" /\ Received < MaxUpdates
  /\ count' = [count EXCEPT ![p] = @ + 1]
  /\ UNCHANGED <<subVars, queue, got, disp, todo>>

(* dispatch, up to the read lock. *)
DispatchBegin(p) ==
  /\ disp[p] = "idle" /\ Received < MaxUpdates
  /\ count' = [count EXCEPT ![p] = @ + 1]
  /\ disp' = [disp EXCEPT ![p] = "sending"]
  /\ todo' = [todo EXCEPT ![p] = {i \in SubIds : subscribers[i] # NoStream}]
  /\ UNCHANGED <<subVars, queue, got>>

(* Mutant: the send waits for room in the channel. *)
DispatchSend_Blocking(p, i) ==
  LET s == subscribers[i]
  IN  /\ disp[p] = "sending" /\ i \in todo[p]
      /\ Len(queue[s]) < Cap
      /\ queue' = [queue EXCEPT ![s] = Append(@, <<p, count[p]>>)]
      /\ todo' = [todo EXCEPT ![p] = @ \ {i}]
      /\ UNCHANGED <<subVars, got, disp, count>>

(* Mutant: the newest update overtakes those waiting in the channel. *)
DispatchSend_NewestFirst(p, i) ==
  LET s == subscribers[i]
  IN  /\ disp[p] = "sending" /\ i \in todo[p]
      /\ queue' = IF Len(queue[s]) < Cap
                  THEN [queue EXCEPT ![s] = <<<<p, count[p]>>>> \o @]
                  ELSE queue
      /\ todo' = [todo EXCEPT ![p] = @ \ {i}]
      /\ UNCHANGED <<subVars, got, disp, count>>

(* dispatch, one turn of the loop over the subscribers: a channel that is full
   drops the update. *)
DispatchSend(p, i) ==
  LET s == subscribers[i]
  IN  /\ disp[p] = "sending" /\ i \in todo[p]
      /\ queue' = IF Len(queue[s]) < Cap
                  THEN [queue EXCEPT ![s] = Append(@, <<p, count[p]>>)]
                  ELSE queue
      /\ todo' = [todo EXCEPT ![p] = @ \ {i}]
      /\ UNCHANGED <<subVars, got, disp, count>>

(* dispatch releases the read lock.  The counter updatesTotal, which only feeds a
   statistic, is left out. *)
DispatchReturns(p) ==
  /\ disp[p] = "sending" /\ todo[p] = {}
  /\ disp' = [disp EXCEPT ![p] = "idle"]
  /\ UNCHANGED <<subVars, queue, got, todo, count>>

-----------------------------------------------------------------------------
(* Subscribe, up to the first receive. *)
SubscribeOpen(s) ==
  /\ NoReader /\ server = "serving"
  /\ StreamGoes(s, "new", "open")
  /\ subscribers' = [subscribers EXCEPT ![subID[s]] = s]
  /\ UNCHANGED <<subID, queue, got, pubVars>>

(* Subscribe takes an update from its channel and sends it on the stream, unless
   the filter excludes it; a failed Send ends the call. *)
SubscribeReceive(s) ==
  LET p == Head(queue[s])[1]
      n == Head(queue[s])[2]
  IN  /\ stream[s] = "open" /\ queue[s] # <<>>
      /\ queue' = [queue EXCEPT ![s] = Tail(@)]
      /\ \/ /\ filter[s] # {} /\ p \notin filter[s]
            /\ UNCHANGED <<stream, got>>
         \/ /\ filter[s] = {} \/ p \in filter[s]
            /\ \/ got' = [got EXCEPT ![s][p] = n] /\ UNCHANGED stream
               \/ StreamGoes(s, "open", "leaving") /\ UNCHANGED got
      /\ UNCHANGED <<subscribers, subID, pubVars>>

(* The stream's context is done: the main node went away or cancelled. *)
SubscribeCancelled(s) ==
  /\ StreamGoes(s, "open", "leaving")
  /\ UNCHANGED <<subscribers, subID, queue, got, pubVars>>

(* Mutant: the channel is closed before the stream leaves the map. *)
SubscribeLeave_CloseFirst(s) ==
  /\ StreamGoes(s, "leaving", "gone")
  /\ UNCHANGED <<subscribers, subID, queue, got, pubVars>>

(* Mutant: the map is made anew instead of one id deleted. *)
SubscribeLeave_ClearsMap(s) ==
  /\ NoReader
  /\ StreamGoes(s, "leaving", "left")
  /\ subscribers' = [i \in SubIds |-> NoStream]
  /\ UNCHANGED <<subID, queue, got, pubVars>>

(* Mutant: a stream leaves only once its channel has been drained. *)
SubscribeLeave_WhenDrained(s) ==
  /\ NoReader /\ queue[s] = <<>>
  /\ StreamGoes(s, "leaving", "left")
  /\ subscribers' = [subscribers EXCEPT ![subID[s]] = NoStream]
  /\ UNCHANGED <<subID, queue, got, pubVars>>

(* The deferred function of Subscribe: delete the id under the lock ... *)
SubscribeLeave(s) ==
  /\ NoReader
  /\ StreamGoes(s, "leaving", "left")
  /\ subscribers' = [subscribers EXCEPT ![subID[s]] = NoStream]
  /\ UNCHANGED <<subID, queue, got, pubVars>>

(* ... and close the channel after the unlock. *)
SubscribeClose(s) ==
  /\ StreamGoes(s, "left", "gone")
  /\ UNCHANGED <<subscribers, subID, queue, got, pubVars>>

-----------------------------------------------------------------------------
(* The worker gets a signal: the sessions are cancelled and GracefulStop is called.
   Event loops that have not noticed yet still dispatch. *)
Shutdown ==
  /\ server = "serving" /\ server' = "stopping"
  /\ UNCHANGED <<subVars, queue, got, pubVars>>

(* GracefulStop returns when no call is under way, and the process ends. *)
Stopped ==
  /\ server = "stopping" /\ \A s \in Streams : stream[s] \in {"new", "gone"}
  /\ server' = "stopped"
  /\ UNCHANGED <<subVars, queue, got, pubVars>>

DispatchStep(p) ==
  /\ server # "stopped" /\ UNCHANGED server
  /\ (\E i \in SubIds : DispatchSend(p, i)) \/ DispatchReturns(p)

DispatchStarts(p) ==
  /\ server # "stopped" /\ UNCHANGED server
  /\ DispatchUnmarshalable(p) \/ DispatchBegin(p)

SubscribeEnds(s) == SubscribeLeave(s) /\ UNCHANGED server
ChannelCloses(s) == SubscribeClose(s) /\ UNCHANGED server

Next ==
  \/ \E p \in Publishers : DispatchStarts(p) \/ DispatchStep(p)
  \/ \E s \in Streams : \/ (SubscribeOpen(s) \/ SubscribeReceive(s)) /\ UNCHANGED server
                        \/ SubscribeCancelled(s) /\ UNCHANGED server
                        \/ SubscribeEnds(s) \/ ChannelCloses(s)
  \/ Shutdown \/ Stopped

Spec == Init /\ [][Next]_vars

(* A dispatch that has begun runs on: no fairness is assumed of any subscriber.
   A stream that leaves gets the write lock (strong: a waiting writer of a
   sync.RWMutex holds back new readers), and GracefulStop returns when it may. *)
Fairness ==
  /\ \A p \in Publishers : WF_vars(DispatchStep(p))
  /\ \A s \in Streams : SF_vars(SubscribeEnds(s)) /\ WF_vars(ChannelCloses(s))
  /\ WF_vars(Stopped)

FairSpec == Spec /\ Fairness

-----------------------------------------------------------------------------
(* No dispatch can send on a closed channel, which would panic the worker: an id a
   dispatch still has to serve names a stream whose channel is open, although
   streams leave and close while other dispatches run (server.go:72-82, 98-104). *)
NoSendOnClosed ==
  \A p \in Publishers : \A i \in todo[p] :
    subscribers[i] # NoStream /\ stream[subscribers[i]] \in {"open", "leaving"}

(* "updateBus fans out updates to all active Subscribe streams" (server.go:30) holds
   but for one case, which this states: an open stream is missing from the map dispatch
   iterates over only if another call has read the same nanosecond, taken its place, and
   perhaps left again and deleted the id of both (server.go:74, 90-104). *)
CutOffOnlyBySharedID ==
  \A s \in Streams :
    stream[s] = "open" =>
      \/ subscribers[subID[s]] = s
      \/ \E r \in Streams \ {s} : subID[r] = subID[s] /\ stream[r] # "new"

(* The updates of one session reach a stream in the order the session received
   them, without repetition, whatever the other sessions and drops do
   (server.go:74-82, 118-129). *)
SessionOrderKept ==
  \A s \in Streams : \A k \in 1 .. Len(queue[s]) :
    /\ queue[s][k][2] > got[s][queue[s][k][1]]
    /\ \A j \in 1 .. k - 1 : queue[s][j][1] = queue[s][k][1] => queue[s][j][2] < queue[s][k][2]

(* "drop rather than block the update bus" (server.go:79): a dispatch ends even
   if no subscriber ever reads. *)
DispatchEnds ==
  \A p \in Publishers : disp[p] = "sending" ~> (disp[p] = "idle" \/ server = "stopped")

(* A worker told to stop does stop once no stream is open, although updates may keep
   coming: every stream that ends leaves the map, closes its channel and lets
   GracefulStop return.  A stream that main keeps open holds it back
   (grpc.go:48-51, server.go:98-117). *)
StopEnds ==
  (server = "stopping" /\ \A s \in Streams : stream[s] # "open") ~> (server = "stopped")
==============================================================================
