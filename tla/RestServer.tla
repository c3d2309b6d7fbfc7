------------------------------ MODULE RestServer ------------------------------
(***************************************************************************)
(* The REST server of the main node (api/rest/server.go): every request    *)
(* passes Recovery, Logger, Metrics, the rate limiter and, on the routes   *)
(* registered after it, Auth, before its handler runs; the handlers of API *)
(* keys (internal/auth) run among them.  On a signal main stops listening  *)
(* and waits ten seconds for the requests under way (cmd/main/main.go).    *)
(*                                                                         *)
(* What the other handlers do is in SessionPlacement, BotRecords and       *)
(* AccountLogin.  A key stands for itself and its hash.                    *)
(***************************************************************************)
EXTENDS RateLimiter

CONSTANTS
  ApiKeys,      \* keys generateKey may return
  MasterKey,    \* auth.master_key of the configuration
  NoKey,        \* no X-Api-Key header; the limiter then goes by address
  Clients       \* connections, one request at a time on each

ASSUME RestAssumption ==
  Keys \subseteq ApiKeys \cup {MasterKey, NoKey} /\ MasterKey \notin ApiKeys

Idle == [stage |-> "idle", key |-> NoKey, route |-> "keys", late |-> FALSE]

VARIABLES
  req,          \* the request of each client: stage, key, route, whether its key
                \* had been deleted when it arrived
  keyState,     \* rows of api_keys
  server        \* where main is

restVars == <<req, keyState, server>>
vars == <<limiterVars, restVars>>

Init ==
  /\ LimiterInit
  /\ req = [c \in Clients |-> Idle]
  /\ keyState = [k \in ApiKeys |-> "none"]
  /\ server = "serving"

At(c, stage) == server # "exited" /\ req[c].stage = stage
Goes(c, stage) == req' = [req EXCEPT ![c].stage = stage]

-----------------------------------------------------------------------------
(* A request is read, and passes Recovery, Logger and Metrics. *)
Arrive(c, k, route) ==
  /\ server = "serving" /\ At(c, "idle")
  /\ req' = [req EXCEPT ![c] = [stage |-> "limiter", key |-> k, route |-> route,
                                late |-> k \in ApiKeys /\ keyState[k] = "deleted"]]
  /\ UNCHANGED <<limiterVars, keyState, server>>

(* A middleware or a handler answers; the answer returns through Metrics and
   Logger, whose counting and logging are left out. *)
Answered(c) == req' = [req EXCEPT ![c] = Idle] /\ UNCHANGED server

(* KeyRateLimiter, keyed by the API key or the address. *)
LimiterStep(c) ==
  /\ At(c, "limiter")
  /\ \/ /\ Allow(req[c].key, TRUE)
        /\ Goes(c, IF req[c].route = "keys" THEN "handler" ELSE "auth")
        /\ UNCHANGED <<keyState, server>>
     \/ Allow(req[c].key, FALSE) /\ Answered(c) /\ UNCHANGED keyState

(* The rows of api_keys: an insert, a lookup by the hash, a delete by id. *)
InsertKey(k) == keyState[k] = "none" /\ keyState' = [keyState EXCEPT ![k] = "live"]
GetByHash(k) == k \in ApiKeys /\ keyState[k] = "live"
DeleteRow(k) == keyState' = [keyState EXCEPT ![k] = IF @ = "live" THEN "deleted" ELSE @]

(* Mutant: a key that was ever issued is valid. *)
Validate_EverIssued(k) == k = MasterKey \/ (k \in ApiKeys /\ keyState[k] # "none")

(* Service.Validate: the master key, or a hash found in the table. *)
Validate(k) == k = MasterKey \/ GetByHash(k)

(* Auth.  A lookup that fails counts as an unknown key. *)
AuthStep(c) ==
  /\ At(c, "auth")
  /\ \/ /\ req[c].key # NoKey /\ Validate(req[c].key)
        /\ Goes(c, "handler") /\ UNCHANGED <<keyState, server>>
     \/ req[c].key # MasterKey /\ Answered(c) /\ UNCHANGED keyState
  /\ UNCHANGED limiterVars

(* A handler behind Auth answers. *)
HandlerEnds(c) ==
  /\ At(c, "handler") /\ req[c].route = "protected"
  /\ Answered(c)
  /\ UNCHANGED <<limiterVars, keyState>>

(* AuthHandler.create: a fresh key, returned once. *)
CreateKey(c, k) ==
  /\ At(c, "handler") /\ req[c].route = "keys"
  /\ InsertKey(k)
  /\ Answered(c)
  /\ UNCHANGED limiterVars

(* AuthHandler.delete of a key; list, and a delete that finds no row, change
   nothing. *)
DeleteKey(c, k) ==
  /\ At(c, "handler") /\ req[c].route = "keys"
  /\ DeleteRow(k)
  /\ Answered(c)
  /\ UNCHANGED limiterVars

(* Recovery answers for a handler that panics. *)
HandlerPanics(c) ==
  /\ At(c, "handler") /\ Answered(c)
  /\ UNCHANGED <<limiterVars, keyState>>

-----------------------------------------------------------------------------
(* The signal: main calls Shutdown, which closes the listener. *)
Signal ==
  /\ server = "serving" /\ server' = "closing"
  /\ UNCHANGED <<limiterVars, req, keyState>>

(* The ten seconds, far less than a tick, are over. *)
Deadline ==
  /\ server = "closing" /\ server' = "overdue"
  /\ UNCHANGED <<limiterVars, req, keyState>>

(* Shutdown returns when no request is under way, or after the deadline, which cuts
   the others off; main returns and the process ends. *)
Exit ==
  /\ \/ server = "closing" /\ \A c \in Clients : req[c].stage = "idle"
     \/ server = "overdue"
  /\ server' = "exited"
  /\ UNCHANGED <<limiterVars, req, keyState>>

Clock == server # "exited" /\ (Cleanup \/ Tick \/ Observe) /\ UNCHANGED restVars

ClientStep(c) ==
  \/ \E k \in Keys, route \in {"keys", "protected"} : Arrive(c, k, route)
  \/ LimiterStep(c) \/ AuthStep(c) \/ HandlerEnds(c) \/ HandlerPanics(c)
  \/ \E k \in ApiKeys : CreateKey(c, k) \/ DeleteKey(c, k)

Next == Clock \/ Signal \/ Deadline \/ Exit \/ \E c \in Clients : ClientStep(c)

Spec == Init /\ [][Next]_vars

-----------------------------------------------------------------------------
(* A request that arrives after its key has been deleted never gets to a handler
   behind Auth, whatever requests are under way (auth.go:18, service.go:39-46). *)
DeletedKeyRefused ==
  \A c \in Clients : req[c].stage = "handler" /\ req[c].route = "protected" => ~req[c].late
==============================================================================
