--------------------------- MODULE RestServerProofs ---------------------------
(***************************************************************************)
(* Theorems about RateLimiter, for any keys, rate, burst and idle time of  *)
(* which LimiterAssumption holds, and about RestServer, for any keys and   *)
(* clients: the limiter keeps its promise inside the server, and a deleted *)
(* key is refused.                                                         *)
(*                                                                         *)
(* That a dropped entry was full rests on how full an entry of a given age *)
(* is at least (FullAgain), and the bound on a window on the tokens left   *)
(* being counted with the requests admitted (Window).                      *)
(***************************************************************************)
EXTENDS RestServer, TLAPS

Types ==
  /\ known \in SUBSET Keys
  /\ tokens \in [Keys -> 0 .. Burst]
  /\ idle \in [Keys -> 0 .. MaxIdle + 1]
  /\ admitted \in [Keys -> Nat]
  /\ elapsed \in Nat

(* An entry not used for n ticks has gained Rate * n tokens or is full; a key with
   no entry would get a full one. *)
FullAgain ==
  \A k \in Keys : IF k \in known THEN Smaller(Burst, Rate * idle[k]) <= tokens[k]
                                 ELSE tokens[k] = Burst

Window == \A k \in Keys : tokens[k] + admitted[k] <= Burst + Rate * elapsed

IInv == Types /\ FullAgain /\ Window

-----------------------------------------------------------------------------
LEMMA OneTickMore == \A r, n \in Nat : r * (n + 1) = r * n + r /\ r * 0 = 0 /\ r * n \in Nat
BY SMT

(* The cleanup drops full entries only. *)
LEMMA CleanupKeepsTokens == IInv /\ Cleanup => tokens' = tokens
<1> SUFFICES ASSUME IInv, Cleanup PROVE tokens' = tokens
  OBVIOUS
<1>1. ASSUME NEW k \in Keys, k \notin known' PROVE tokens[k] = Burst
  <2>1. CASE k \notin known
    BY <2>1 DEF IInv, FullAgain
  <2>2. CASE k \in known
    <3>1. idle[k] \in {MaxIdle, MaxIdle + 1}
      BY <1>1, <2>2, LimiterAssumption DEF IInv, Types, Cleanup
    <3>2. Smaller(Burst, Rate * idle[k]) = Burst
      <4>1. Rate * (MaxIdle + 1) = Rate * MaxIdle + Rate /\ Rate * MaxIdle \in Nat
        BY LimiterAssumption, OneTickMore
      <4> QED
        BY <3>1, <4>1, LimiterAssumption DEF Smaller
    <3>3. Burst <= tokens[k]
      BY <2>2, <3>2 DEF IInv, FullAgain
    <3> QED
      BY <3>3, LimiterAssumption DEF IInv, Types
  <2> QED
    BY <2>1, <2>2
<1>2. tokens' = [k \in Keys |-> tokens[k]]
  BY <1>1 DEF Cleanup
<1> QED
  BY <1>2 DEF IInv, Types

LEMMA InitIInv == LimiterInit => IInv
<1> SUFFICES ASSUME LimiterInit PROVE IInv
  OBVIOUS
<1>1. Types
  BY LimiterAssumption DEF LimiterInit, Types
<1>2. FullAgain
  BY DEF LimiterInit, FullAgain
<1>3. Window
  <2>1. Rate \in Nat /\ Burst \in Nat /\ elapsed = 0
    BY LimiterAssumption DEF LimiterInit
  <2>2. \A k \in Keys : tokens[k] = Burst /\ admitted[k] = 0
    BY DEF LimiterInit
  <2>3. Rate * elapsed = 0
    BY <2>1
  <2>4. ASSUME NEW k \in Keys PROVE tokens[k] + admitted[k] <= Burst + Rate * elapsed
    <3>1. Burst + 0 <= Burst + 0
      BY <2>1
    <3> QED
      BY <2>2, <2>3, <3>1
  <2> QED
    BY <2>4 DEF Window
<1> QED
  BY <1>1, <1>2, <1>3 DEF IInv

LEMMA CleanupIInv == IInv /\ Cleanup => IInv'
<1> SUFFICES ASSUME IInv, Cleanup PROVE IInv'
  OBVIOUS
<1>1. tokens' = tokens
  BY CleanupKeepsTokens
<1>2. Types'
  BY <1>1, LimiterAssumption DEF IInv, Types, Cleanup
<1>3. FullAgain'
  <2> SUFFICES ASSUME NEW k \in Keys
               PROVE IF k \in known' THEN Smaller(Burst, Rate * idle'[k]) <= tokens'[k]
                                     ELSE tokens'[k] = Burst
    BY DEF FullAgain
  <2>1. CASE k \in known'
    <3>1. k \in known /\ idle'[k] = idle[k]
      BY <2>1 DEF Cleanup
    <3> QED
      BY <1>1, <2>1, <3>1 DEF IInv, FullAgain
  <2>2. CASE k \notin known'
    BY <2>2 DEF Cleanup
  <2> QED
    BY <2>1, <2>2
<1>4. Window'
  BY <1>1 DEF IInv, Window, Cleanup
<1> QED
  BY <1>2, <1>3, <1>4 DEF IInv

LEMMA TickIInv == IInv /\ Tick => IInv'
<1> SUFFICES ASSUME IInv, Tick PROVE IInv'
  OBVIOUS
<1>1. Types'
  BY LimiterAssumption DEF IInv, Types, Tick, Smaller
<1>2. FullAgain'
  <2> SUFFICES ASSUME NEW k \in Keys
               PROVE IF k \in known' THEN Smaller(Burst, Rate * idle'[k]) <= tokens'[k]
                                     ELSE tokens'[k] = Burst
    BY DEF FullAgain
  <2>1. tokens[k] \in 0 .. Burst /\ idle[k] \in 0 .. MaxIdle + 1 /\ Rate \in Nat /\ Burst \in Nat /\ MaxIdle \in Nat
    BY LimiterAssumption DEF IInv, Types
  <2>2. known' = known /\ tokens'[k] = Smaller(Burst, tokens[k] + Rate)
    BY DEF Tick
  <2>3. CASE k \in known
    <3>1. Smaller(Burst, Rate * idle[k]) <= tokens[k]
      BY <2>3 DEF IInv, FullAgain
    <3>2. idle'[k] \in {idle[k], idle[k] + 1}
      BY <2>1, <2>3 DEF Tick, Smaller
    <3>3. Rate * (idle[k] + 1) = Rate * idle[k] + Rate /\ Rate * idle[k] \in Nat
      <4>1. idle[k] \in Nat
        BY <2>1
      <4> QED
        BY <2>1, <4>1, OneTickMore, Zenon
    <3>4. Rate * idle'[k] \in Nat /\ Rate * idle'[k] <= Rate * idle[k] + Rate
      BY <2>1, <3>2, <3>3
    <3>5. Smaller(Burst, Rate * idle'[k]) <= Smaller(Burst, tokens[k] + Rate)
      BY <2>1, <3>1, <3>3, <3>4 DEF Smaller
    <3> QED
      BY <2>2, <2>3, <3>5
  <2>4. CASE k \notin known
    <3>1. tokens[k] = Burst
      BY <2>4 DEF IInv, FullAgain
    <3> QED
      BY <2>1, <2>2, <2>4, <3>1 DEF Smaller
  <2> QED
    BY <2>3, <2>4
<1>3. Window'
  <2> SUFFICES ASSUME NEW k \in Keys
               PROVE tokens'[k] + admitted'[k] <= Burst + Rate * elapsed'
    BY DEF Window
  <2>1. tokens[k] \in Nat /\ admitted[k] \in Nat /\ elapsed \in Nat /\ Rate \in Nat /\ Burst \in Nat
    BY LimiterAssumption DEF IInv, Types
  <2>2. elapsed' = elapsed + 1 /\ admitted'[k] = admitted[k] /\ tokens'[k] = Smaller(Burst, tokens[k] + Rate)
    BY DEF Tick
  <2>3. Rate * elapsed' = Rate * elapsed + Rate /\ Rate * elapsed \in Nat
    BY <2>1, <2>2, OneTickMore
  <2>4. tokens[k] + admitted[k] <= Burst + Rate * elapsed
    BY DEF IInv, Window
  <2> QED
    BY <2>1, <2>2, <2>3, <2>4 DEF Smaller
<1> QED
  BY <1>1, <1>2, <1>3 DEF IInv

LEMMA ObserveIInv == IInv /\ Observe => IInv'
<1> SUFFICES ASSUME IInv, Observe PROVE IInv'
  OBVIOUS
<1>1. Types' /\ FullAgain'
  BY DEF IInv, Types, FullAgain, Observe
<1>2. Window'
  <2>1. Rate * elapsed' = 0 /\ Burst \in Nat
    BY LimiterAssumption DEF Observe
  <2> QED
    BY <2>1 DEF IInv, Types, Window, Observe
<1> QED
  BY <1>1, <1>2 DEF IInv

LEMMA AllowIInv == \A k \in Keys, ok \in BOOLEAN : IInv /\ Allow(k, ok) => IInv'
<1> SUFFICES ASSUME NEW k \in Keys, NEW ok \in BOOLEAN, IInv, Allow(k, ok) PROVE IInv'
  OBVIOUS
<1>1. tokens[k] \in Nat /\ tokens[k] <= Burst /\ admitted[k] \in Nat /\ Burst \in Nat
  BY LimiterAssumption DEF IInv, Types
<1>2. Types'
  <2>1. known' \in SUBSET Keys /\ idle' \in [Keys -> 0 .. MaxIdle + 1]
    BY LimiterAssumption DEF IInv, Types, Allow, GetLimiter
  <2>2. tokens' \in [Keys -> 0 .. Burst] /\ admitted' \in [Keys -> Nat]
    <3>1. CASE ok
      <4>1. tokens[k] >= 1 /\ tokens' = [tokens EXCEPT ![k] = tokens[k] - 1]
            /\ admitted' = [admitted EXCEPT ![k] = admitted[k] + 1]
        BY <3>1, ZenonT(60) DEF Allow
      <4>2. tokens[k] - 1 \in 0 .. Burst /\ admitted[k] + 1 \in Nat
        BY <1>1, <4>1
      <4> QED
        BY <4>1, <4>2 DEF IInv, Types
    <3>2. CASE ~ok
      BY <3>2 DEF IInv, Types, Allow
    <3> QED
      BY <3>1, <3>2
  <2> QED
    BY <2>1, <2>2 DEF IInv, Types, Allow
<1>3. FullAgain'
  <2> SUFFICES ASSUME NEW j \in Keys
               PROVE IF j \in known' THEN Smaller(Burst, Rate * idle'[j]) <= tokens'[j]
                                     ELSE tokens'[j] = Burst
    BY DEF FullAgain
  <2>1. CASE j = k
    <3>1. k \in known' /\ Rate * idle'[k] = 0
      BY LimiterAssumption DEF IInv, Types, Allow, GetLimiter
    <3>2. tokens'[k] \in Nat
      BY <1>2, LimiterAssumption DEF Types
    <3> QED
      BY <1>1, <2>1, <3>1, <3>2 DEF Smaller
  <2>2. CASE j # k
    <3>1. (j \in known' <=> j \in known) /\ idle'[j] = idle[j] /\ tokens'[j] = tokens[j]
      BY <2>2 DEF IInv, Types, Allow, GetLimiter
    <3> QED
      BY <3>1 DEF IInv, FullAgain
  <2> QED
    BY <2>1, <2>2
<1>4. Window'
  <2> SUFFICES ASSUME NEW j \in Keys
               PROVE tokens'[j] + admitted'[j] <= Burst + Rate * elapsed'
    BY DEF Window
  <2>1. tokens'[j] + admitted'[j] = tokens[j] + admitted[j]
    <3>1. tokens[j] \in Nat /\ admitted[j] \in Nat
      BY LimiterAssumption DEF IInv, Types
    <3> QED
      BY <3>1 DEF IInv, Types, Allow
  <2> QED
    BY <2>1 DEF IInv, Window, Allow
<1> QED
  BY <1>2, <1>3, <1>4 DEF IInv

LEMMA NextIInv == IInv /\ [LimiterNext]_limiterVars => IInv'
<1> SUFFICES ASSUME IInv, [LimiterNext]_limiterVars PROVE IInv'
  OBVIOUS
<1>1. CASE Cleanup
  BY <1>1, CleanupIInv
<1>2. CASE Tick
  BY <1>2, TickIInv
<1>3. CASE Observe
  BY <1>3, ObserveIInv
<1>4. CASE \E k \in Keys, ok \in BOOLEAN : Allow(k, ok)
  BY <1>4, AllowIInv
<1>5. CASE UNCHANGED limiterVars
  BY <1>5 DEF limiterVars, IInv, Types, FullAgain, Window
<1> QED
  BY <1>1, <1>2, <1>3, <1>4, <1>5 DEF LimiterNext

LEMMA IInvHolds == LimiterSpec => []IInv
BY InitIInv, NextIInv, PTL DEF LimiterSpec

-----------------------------------------------------------------------------
(* In no interval does a key get more requests through than one burst and the
   sustained rate, however cleanups drop and requests remake its entry
   (ratelimit.go:20, 50-59). *)
THEOREM WindowBoundSafe == LimiterSpec => []WindowBound
<1>1. IInv => WindowBound
  <2> SUFFICES ASSUME IInv, NEW k \in Keys PROVE admitted[k] <= Burst + Rate * elapsed
    BY DEF WindowBound, Bucket!WindowBound
  <2>1. tokens[k] \in Nat /\ admitted[k] \in Nat /\ Burst \in Nat
    BY LimiterAssumption DEF IInv, Types
  <2>2. Rate * elapsed \in Nat
    BY LimiterAssumption, OneTickMore DEF IInv, Types
  <2> QED
    BY <2>1, <2>2 DEF IInv, Window
<1> QED
  BY <1>1, IInvHolds, PTL

(* The limiter that drops idle entries implements the one that keeps every bucket
   for good: a cleanup is a stuttering step of it (ratelimit.go:25-48). *)
THEOREM LimiterImplementsBucket == LimiterSpec => ImplementsTokenBucket
<1>1. LimiterInit => Bucket!Init
  BY DEF LimiterInit, Bucket!Init
<1>2. IInv /\ [LimiterNext]_limiterVars => [Bucket!Next]_(Bucket!vars)
  <2> SUFFICES ASSUME IInv, [LimiterNext]_limiterVars PROVE [Bucket!Next]_(Bucket!vars)
    OBVIOUS
  <2>1. CASE Cleanup
    BY <2>1, CleanupKeepsTokens DEF Cleanup, Bucket!vars
  <2>2. CASE Tick
    BY <2>2 DEF Tick, Smaller, Bucket!Next, Bucket!Tick, Bucket!Least
  <2>3. CASE Observe
    BY <2>3 DEF Observe, Bucket!Next, Bucket!Observe
  <2>4. ASSUME NEW k \in Keys, NEW ok \in BOOLEAN, Allow(k, ok)
        PROVE [Bucket!Next]_(Bucket!vars)
    <3>1. CASE ok
      BY <2>4, <3>1, ZenonT(60) DEF Allow, Bucket!Next, Bucket!Admit
    <3>2. CASE ~ok
      BY <2>4, <3>2 DEF Allow, Bucket!vars
    <3> QED
      BY <3>1, <3>2
  <2>5. CASE UNCHANGED limiterVars
    BY <2>5 DEF limiterVars, Bucket!vars
  <2> QED
    BY <2>1, <2>2, <2>3, <2>4, <2>5 DEF LimiterNext
<1> QED
  BY <1>1, <1>2, IInvHolds, PTL DEF LimiterSpec, ImplementsTokenBucket, Bucket!Spec

-----------------------------------------------------------------------------
Requests == [stage : {"idle", "limiter", "auth", "handler"}, key : Keys \cup {NoKey},
             route : {"keys", "protected"}, late : BOOLEAN]

(* A request under way has a key the limiter knows of.  If it came late its key is
   deleted, and it is in a handler only if that is one of those before Auth. *)
ReqInv ==
  /\ req \in [Clients -> Requests]
  /\ keyState \in [ApiKeys -> {"none", "live", "deleted"}]
  /\ \A c \in Clients :
       /\ req[c].stage # "idle" => req[c].key \in Keys
       /\ req[c].late => req[c].key \in ApiKeys /\ keyState[req[c].key] = "deleted"
       /\ req[c].late /\ req[c].stage = "handler" => req[c].route = "keys"

(* Keys do not come back. *)
DeletedStays == \A k \in ApiKeys : keyState[k] = "deleted" => keyState'[k] = "deleted"

-----------------------------------------------------------------------------
LEMMA InitReqInv == Init => ReqInv
BY DEF Init, ReqInv, Idle, Requests

(* A step of one request, seen from the others. *)
LEMMA OtherRequests ==
  ASSUME NEW c \in Clients, NEW r \in Requests, ReqInv, DeletedStays,
         keyState' \in [ApiKeys -> {"none", "live", "deleted"}],
         req' = [req EXCEPT ![c] = r],
         r.stage # "idle" => r.key \in Keys,
         r.late => r.key \in ApiKeys /\ keyState'[r.key] = "deleted",
         r.late /\ r.stage = "handler" => r.route = "keys"
  PROVE  ReqInv'
<1>1. req' \in [Clients -> Requests]
  BY DEF ReqInv
<1>2. ASSUME NEW d \in Clients
      PROVE /\ req'[d].stage # "idle" => req'[d].key \in Keys
            /\ req'[d].late => req'[d].key \in ApiKeys /\ keyState'[req'[d].key] = "deleted"
            /\ req'[d].late /\ req'[d].stage = "handler" => req'[d].route = "keys"
  <2>1. CASE d = c
    <3>1. req'[d] = r
      BY <2>1 DEF ReqInv
    <3> QED
      BY <3>1
  <2>2. CASE d # c
    <3>1. req'[d] = req[d]
      BY <2>2 DEF ReqInv
    <3> QED
      BY <3>1 DEF ReqInv, DeletedStays
  <2> QED
    BY <2>1, <2>2
<1> QED
  BY <1>1, <1>2 DEF ReqInv

LEMMA AnsweredReqInv ==
  ASSUME NEW c \in Clients, ReqInv, DeletedStays, Answered(c),
         keyState' \in [ApiKeys -> {"none", "live", "deleted"}]
  PROVE  ReqInv'
<1>1. Idle \in Requests /\ Idle.stage = "idle" /\ Idle.late = FALSE
  BY DEF Idle, Requests
<1> HIDE DEF Idle
<1>2. req' = [req EXCEPT ![c] = Idle]
  BY DEF Answered
<1> QED
  BY <1>1, <1>2, OtherRequests, ZenonT(60)

LEMMA NextReqInv == ReqInv /\ [Next]_vars => ReqInv'
<1> SUFFICES ASSUME ReqInv, [Next]_vars PROVE ReqInv'
  OBVIOUS
<1>1. ASSUME UNCHANGED <<req, keyState>> PROVE ReqInv'
  BY <1>1 DEF ReqInv
<1>2. ASSUME UNCHANGED keyState
      PROVE  DeletedStays /\ keyState' \in [ApiKeys -> {"none", "live", "deleted"}]
  BY <1>2 DEF DeletedStays, ReqInv
<1>3. ASSUME NEW c \in Clients, NEW k \in Keys, NEW route \in {"keys", "protected"}, Arrive(c, k, route)
      PROVE  ReqInv'
  <2> DEFINE r == [stage |-> "limiter", key |-> k, route |-> route,
                   late |-> k \in ApiKeys /\ keyState[k] = "deleted"]
  <2>1. UNCHANGED keyState /\ req' = [req EXCEPT ![c] = r]
    BY <1>3 DEF Arrive
  <2>2. r \in Requests /\ r.stage = "limiter" /\ r.key = k
        /\ r.late = (k \in ApiKeys /\ keyState[k] = "deleted")
    BY DEF Requests
  <2> HIDE DEF r
  <2> QED
    BY <1>2, <2>1, <2>2, OtherRequests, ZenonT(60)
<1>4. ASSUME NEW c \in Clients, NEW stage \in {"auth", "handler"}, UNCHANGED keyState, Goes(c, stage),
             req[c].stage # "idle",
             stage = "handler" => req[c].route = "keys" \/ ~req[c].late
      PROVE  ReqInv'
  <2> DEFINE r == [req[c] EXCEPT !.stage = stage]
  <2>1. req[c] \in Requests
    BY DEF ReqInv
  <2>2. r \in Requests /\ r.stage = stage /\ r.key = req[c].key /\ r.route = req[c].route /\ r.late = req[c].late
    BY <2>1 DEF Requests
  <2>3. req' = [req EXCEPT ![c] = r]
    BY <1>4 DEF Goes, ReqInv
  <2>4. /\ req[c].key \in Keys
        /\ req[c].late => req[c].key \in ApiKeys /\ keyState'[req[c].key] = "deleted"
    BY <1>4 DEF ReqInv
  <2>5. DeletedStays /\ keyState' \in [ApiKeys -> {"none", "live", "deleted"}]
    BY <1>2, <1>4
  <2> HIDE DEF r
  <2> QED
    BY <1>4, <2>2, <2>3, <2>4, <2>5, OtherRequests, ZenonT(60)
<1>5. ASSUME NEW c \in Clients, LimiterStep(c) PROVE ReqInv'
  <2>1. CASE Goes(c, IF req[c].route = "keys" THEN "handler" ELSE "auth") /\ UNCHANGED keyState
    <3>1. CASE req[c].route = "keys"
      BY <1>4, <1>5, <2>1, <3>1 DEF LimiterStep, At
    <3>2. CASE req[c].route # "keys"
      BY <1>4, <1>5, <2>1, <3>2 DEF LimiterStep, At
    <3> QED
      BY <3>1, <3>2
  <2>2. CASE Answered(c) /\ UNCHANGED keyState
    BY <1>2, <2>2, AnsweredReqInv
  <2> QED
    BY <1>5, <2>1, <2>2, ZenonT(60) DEF LimiterStep
<1>6. ASSUME NEW c \in Clients, AuthStep(c) PROVE ReqInv'
  <2>1. CASE Validate(req[c].key) /\ Goes(c, "handler") /\ UNCHANGED keyState
    <3>1. ~req[c].late
      BY <2>1, RestAssumption DEF ReqInv, Validate, GetByHash
    <3> QED
      BY <1>4, <1>6, <2>1, <3>1 DEF AuthStep, At
  <2>2. CASE Answered(c) /\ UNCHANGED keyState
    BY <1>2, <2>2, AnsweredReqInv
  <2> QED
    BY <1>6, <2>1, <2>2 DEF AuthStep
<1>7. ASSUME NEW c \in Clients, HandlerEnds(c) \/ HandlerPanics(c) PROVE ReqInv'
  BY <1>2, <1>7, AnsweredReqInv DEF HandlerEnds, HandlerPanics
<1>8. ASSUME NEW c \in Clients, NEW k \in ApiKeys, CreateKey(c, k) \/ DeleteKey(c, k) PROVE ReqInv'
  <2>1. DeletedStays /\ keyState' \in [ApiKeys -> {"none", "live", "deleted"}]
    BY <1>8 DEF CreateKey, DeleteKey, InsertKey, DeleteRow, DeletedStays, ReqInv
  <2>2. Answered(c)
    BY <1>8 DEF CreateKey, DeleteKey
  <2> QED
    BY <2>1, <2>2, AnsweredReqInv
<1>9. CASE Clock \/ Signal \/ Deadline \/ Exit \/ UNCHANGED vars
  BY <1>1, <1>9 DEF Clock, Signal, Deadline, Exit, vars, restVars
<1> QED
  BY <1>3, <1>5, <1>6, <1>7, <1>8, <1>9 DEF Next, ClientStep

LEMMA ReqInvHolds == Spec => []ReqInv
BY InitReqInv, NextReqInv, PTL DEF Spec

-----------------------------------------------------------------------------
(* A request that arrives after its key has been deleted reaches no handler behind
   Auth, for any number of requests and keys (auth.go:18, service.go:39-46). *)
THEOREM DeletedKeyRefusedSafe == Spec => []DeletedKeyRefused
<1>1. ReqInv => DeletedKeyRefused
  BY DEF ReqInv, DeletedKeyRefused
<1> QED
  BY <1>1, ReqInvHolds, PTL

(* What the server does to the limiter, the limiter allows (ratelimit.go:50-77). *)
LEMMA LimiterInServer == ReqInv /\ [Next]_vars => [LimiterNext]_limiterVars
<1> SUFFICES ASSUME ReqInv, [Next]_vars PROVE [LimiterNext]_limiterVars
  OBVIOUS
<1>1. ASSUME NEW c \in Clients, LimiterStep(c) PROVE LimiterNext
  <2>1. req[c].key \in Keys
    BY <1>1 DEF LimiterStep, At, ReqInv
  <2> QED
    BY <1>1, <2>1, ZenonT(60) DEF LimiterStep, LimiterNext
<1>2. ASSUME NEW c \in Clients, ClientStep(c), ~LimiterStep(c) PROVE UNCHANGED limiterVars
  BY <1>2, SMTT(60) DEF ClientStep, Arrive, AuthStep, HandlerEnds, HandlerPanics, CreateKey, DeleteKey
<1>3. CASE Clock
  BY <1>3 DEF Clock, LimiterNext
<1>4. CASE Signal \/ Deadline \/ Exit \/ UNCHANGED vars
  BY <1>4 DEF Signal, Deadline, Exit, vars
<1> QED
  BY <1>1, <1>2, <1>3, <1>4 DEF Next

(* In the server, with its middleware and handlers running side by side, the rate
   limiter is a token bucket for each key (server.go:54-56, ratelimit.go:20-77). *)
THEOREM ServerLimits == Spec => ImplementsTokenBucket /\ []WindowBound
<1>1. Init => LimiterInit
  BY DEF Init
<1>2. Spec => LimiterSpec
  BY <1>1, ReqInvHolds, LimiterInServer, PTL DEF Spec, LimiterSpec
<1> QED
  BY <1>2, LimiterImplementsBucket, WindowBoundSafe, PTL
==============================================================================
