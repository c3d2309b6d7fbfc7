----------------------------- MODULE AccountLogin -----------------------------
(***************************************************************************)
(* Signing an account in over the REST API: auth-code, password and        *)
(* auth-state (api/rest/handler/account.go) read the row of the account,   *)
(* the manager looks up the worker the row names, the worker looks up the  *)
(* session in its pool, and the TDLib client (TDLibClient) takes the       *)
(* answer or tells its state.  Nothing is locked from one lookup to the    *)
(* next, so the session may be removed, drained or cut off in between.     *)
(*                                                                         *)
(* One session and the worker that runs it; callers are REST requests.     *)
(***************************************************************************)
EXTENDS TDLibClient

Untold == "untold"

VARIABLES
  row,         \* worker_id of the account's row, unset or set
  registered,  \* the manager's map has the worker
  pooled,      \* the worker's pool has the session
  at,          \* where each REST request is
  want,        \* what it is: an answer to a prompt, or the question for the state
  told,        \* the state the user was last told
  accepted     \* answers the user was told were submitted, by prompt

routeVars == <<row, registered, pooled>>
askVars == <<at, want, told, accepted>>
loginVars == <<vars, routeVars, askVars>>

LoginInit ==
  /\ Init
  /\ row = "unassigned" /\ registered = TRUE /\ pooled = TRUE
  /\ at = [c \in Callers |-> "idle"]
  /\ want = [c \in Callers |-> "state"]
  /\ told = Untold
  /\ accepted = [q \in Prompts |-> 0]

CallGoes(c, from, to) == at[c] = from /\ at' = [at EXCEPT ![c] = to]

(* An error, answered to the user. *)
CallFails(c) ==
  /\ at' = [at EXCEPT ![c] = "idle"] /\ want' = [want EXCEPT ![c] = "state"]
  /\ UNCHANGED <<told, accepted>>

-----------------------------------------------------------------------------
(* sendAuthCode and sendPassword, up to the row of the account: the request is
   refused unless the row exists and has a worker. *)
HandlerReads(c, q) ==
  /\ row = "assigned"
  /\ CallGoes(c, "idle", "manager") /\ want' = [want EXCEPT ![c] = q]
  /\ UNCHANGED <<vars, routeVars, told, accepted>>

(* getAuthState, up to the row. *)
PollReads(c) ==
  /\ at[c] = "idle"
  /\ \/ row = "assigned" /\ at' = [at EXCEPT ![c] = "manager"] /\ UNCHANGED told
     \/ row = "unassigned" /\ told' = "not_assigned" /\ UNCHANGED at
  /\ UNCHANGED <<vars, routeVars, want, accepted>>

(* Manager.SendAuthCode, SendPassword, GetAuthState: the client of the worker. *)
ManagerRoutes(c) ==
  /\ at[c] = "manager"
  /\ \/ registered /\ CallGoes(c, "manager", "worker") /\ UNCHANGED <<want, told, accepted>>
     \/ ~registered /\ CallFails(c)
  /\ UNCHANGED <<vars, routeVars>>

(* External: the call gets lost on its way, or the worker is gone. *)
RpcFails(c) ==
  /\ at[c] = "worker" /\ CallFails(c)
  /\ UNCHANGED <<vars, routeVars>>

(* Pool.SendAuthCode, SendPassword, GetAuthState: the client of the session. *)
PoolFinds(c) ==
  /\ at[c] = "worker"
  /\ \/ pooled /\ CallGoes(c, "worker", "client") /\ UNCHANGED <<want, told, accepted>>
     \/ ~pooled /\ CallFails(c)
  /\ UNCHANGED <<vars, routeVars>>

(* SendCode and SendPassword: the client takes the answer only while it waits for
   it. *)
ClientTests(c) ==
  /\ at[c] = "client" /\ want[c] \in Prompts /\ call[c] = "idle"
  /\ \/ SendBegin(c, want[c]) /\ UNCHANGED askVars
     \/ (kind = "bot" \/ authState # want[c]) /\ CallFails(c) /\ UNCHANGED vars
  /\ UNCHANGED routeVars

ClientSends(c) ==
  /\ at[c] = "client" /\ call[c] \in Prompts
  /\ SendEnd(c)
  /\ \/ /\ chan' # chan
        /\ accepted' = [accepted EXCEPT ![want[c]] = @ + 1]
        /\ at' = [at EXCEPT ![c] = "idle"] /\ want' = [want EXCEPT ![c] = "state"]
        /\ UNCHANGED told
     \/ chan' = chan /\ CallFails(c)
  /\ UNCHANGED routeVars

(* Mutant: the state is that of the pool entry, which is ready from the start. *)
ClientTells_PoolStatus(c) ==
  /\ at[c] = "client" /\ want[c] = "state"
  /\ at' = [at EXCEPT ![c] = "idle"]
  /\ told' = "ready"
  /\ UNCHANGED <<vars, routeVars, want, accepted>>

(* Client.AuthState. *)
ClientTells(c) ==
  /\ at[c] = "client" /\ want[c] = "state"
  /\ at' = [at EXCEPT ![c] = "idle"]
  /\ told' = authState
  /\ UNCHANGED <<vars, routeVars, want, accepted>>

-----------------------------------------------------------------------------
(* The create request records the worker.  (Once the row is deleted no request gets
   past the handler, as if nobody asked.) *)
RowAssigned == row = "unassigned" /\ row' = "assigned" /\ UNCHANGED <<vars, registered, pooled, askVars>>

(* RemoveWorker, also at the end of a drain, which leaves the row as it is. *)
WorkerRemoved == registered' = FALSE /\ UNCHANGED <<vars, row, pooled, askVars>>

(* Pool.Remove takes the session out of the pool and cancels it, then closes the
   client; the worker's shutdown only cancels. *)
SessionCancelled == Cancel /\ pooled' \in {pooled, FALSE} /\ UNCHANGED <<row, registered, askVars>>
SessionClosed == ~pooled /\ Close /\ UNCHANGED <<routeVars, askVars>>

ClientStep ==
  /\ Library \/ NewClientReturns \/ MonitorStep \/ EventLoop
  /\ UNCHANGED <<routeVars, askVars>>

CallStep(c) ==
  ManagerRoutes(c) \/ RpcFails(c) \/ PoolFinds(c) \/ ClientTests(c) \/ ClientSends(c) \/ ClientTells(c)

LoginNext ==
  \/ Running(ClientStep)
  \/ \E c \in Callers : Running(PollReads(c)) \/ Running(CallStep(c))
  \/ \E c \in Callers, q \in Prompts : Running(HandlerReads(c, q))
  \/ Running(RowAssigned) \/ Running(WorkerRemoved)
  \/ Running(SessionCancelled) \/ Running(SessionClosed)

(* The goroutines of the client run; no request has to be made or to get on. *)
LoginFairness ==
  /\ WF_loginVars(Running(Library) /\ UNCHANGED <<routeVars, askVars>>)
  /\ WF_loginVars(Running(NewClientReturns) /\ UNCHANGED <<routeVars, askVars>>)
  /\ WF_loginVars(Running(MonitorStep) /\ UNCHANGED <<routeVars, askVars>>)
  /\ WF_loginVars(Running(EventLoop) /\ UNCHANGED <<routeVars, askVars>>)

LoginSpec == LoginInit /\ [][LoginNext]_loginVars /\ LoginFairness

-----------------------------------------------------------------------------
(* What the user is told is true for good where it is an outcome: "ready" only after
   the authorization has succeeded, "error" only after it has failed, and a prompt
   only after the library has asked for its answer (account.go:198-223,
   pool.go:184-192). *)
ToldIsTrue ==
  /\ told = "ready" => auth = "succeeded"
  /\ told = "error" => auth = "failed"
  /\ told = "waiting_code" => auth # "waiting_phone"
  /\ told = "waiting_password" => auth \notin {"waiting_phone", "waiting_code", "checking_code"}

(* However many requests answer one prompt, at most one answer beyond the one that
   is used is acknowledged with "code_submitted" or "password_submitted", although the
   client goes on to say it waits while the first is being checked (account.go:160, 194,
   client.go:180-185). *)
OneAnswerToSpare == \A q \in Prompts : accepted[q] <= 2
==============================================================================
