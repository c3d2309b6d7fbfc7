------------------------- MODULE AccountLoginProofs -------------------------
(***************************************************************************)
(* Theorems about TDLibClient and AccountLogin, for any number of calls    *)
(* that answer prompts or ask for the state at the same time.              *)
(***************************************************************************)
EXTENDS AccountLogin, TLAPS

Outcomes == {"succeeded", "failed"}

ClientTypes ==
  /\ kind \in {"bot", "account"}
  /\ auth \in {"waiting_phone"} \cup Prompts \cup Checks \cup Outcomes
  /\ chan \in [Prompts -> {0, 1}]
  /\ call \in [Callers -> Prompts \cup {"idle"}]
  /\ newClient \in {"running", "done"}

(* How far the monitor lags behind the authorizer: by the last prompt at most, and
   once the authorization has ended only "ready" may still be on its way. *)
Lag ==
  /\ auth = "waiting_phone" => stateCh = <<>> /\ authState = "waiting_phone"
  /\ auth = "waiting_code" =>
       \/ stateCh = <<"waiting_code">> /\ authState = "waiting_phone"
       \/ stateCh = <<>> /\ authState = "waiting_code"
  /\ auth = "checking_code" => stateCh = <<>> /\ authState = "waiting_code"
  /\ auth = "waiting_password" =>
       \/ stateCh = <<"waiting_password">> /\ authState = "waiting_code"
       \/ stateCh = <<>> /\ authState = "waiting_password"
  /\ auth = "checking_password" => stateCh = <<>> /\ authState = "waiting_password"
  /\ auth = "succeeded" =>
       /\ stateCh \in {<<>>, <<"ready">>}
       /\ authState \in {"waiting_phone", "ready"} \cup Prompts
  /\ auth = "failed" =>
       stateCh = <<>> /\ authState \in {"waiting_phone", "error"} \cup Prompts

(* The monitor has passed the prompt q on to authState. *)
Seen(q) ==
  authState \in (IF q = "waiting_code" THEN Prompts ELSE {"waiting_password"}) \cup {"ready", "error"}

(* A call answers a prompt, and an answer is buffered, only once it has been seen. *)
Answers ==
  \A q \in Prompts :
    /\ chan[q] > 0 => Seen(q)
    /\ \A c \in Callers : call[c] = q => Seen(q)

CInv ==
  /\ ClientTypes /\ Lag /\ Answers /\ OutcomeFinal
  /\ newClient = "done" => auth \in Outcomes

-----------------------------------------------------------------------------
LEMMA InitCInv == Init => CInv
  BY DEF Init, CInv, ClientTypes, Lag, Answers, OutcomeFinal, Prompts, Outcomes, Seen

(* An answer is taken only if its prompt has been seen, so nothing is left on the
   State channel when the authorizer goes on. *)
LEMMA TakenCInv == ASSUME CInv, NEW q \in Prompts, TakeAnswer(q) PROVE CInv'
<1> USE DEF TakeAnswer, CInv
<1>1. chan[q] = 1 /\ chan' = [chan EXCEPT ![q] = 0]
  <2>1. chan[q] = 1
    BY DEF ClientTypes
  <2>2. chan[q] - 1 = 0
    BY <2>1
  <2> QED
    BY <2>1, <2>2, Zenon
<1>2. stateCh = <<>> /\ authState = q
  BY <1>1 DEF Lag, Answers, Seen, Prompts
<1>3. ClientTypes'
  BY <1>1 DEF ClientTypes, Checks
<1>4. Lag'
  BY <1>2 DEF Lag, Prompts
<1>5. Answers'
  BY <1>1 DEF Answers, Seen, ClientTypes
<1>6. OutcomeFinal' /\ newClient' # "done"
  BY DEF OutcomeFinal, Prompts, Outcomes
<1> QED
  BY <1>3, <1>4, <1>5, <1>6

LEMMA LibraryCInv == ASSUME CInv, Library PROVE CInv'
<1>1. ASSUME NEW q \in Prompts, AuthorizerPrompts(q) PROVE CInv'
  <2> USE <1>1 DEF AuthorizerPrompts, CInv
  <2>1. stateCh' = <<q>>
    <3>1. stateCh = <<>>
      BY DEF Lag
    <3> QED
      BY <3>1
  <2>2. ClientTypes'
    BY DEF ClientTypes
  <2>3. Lag'
    BY <2>1 DEF Lag
  <2>4. Answers'
    BY DEF Answers, Seen
  <2>5. OutcomeFinal' /\ newClient' # "done"
    BY DEF OutcomeFinal, Outcomes
  <2> QED
    BY <2>2, <2>3, <2>4, <2>5
<1>2. CASE AuthorizerEnds
  <2> USE <1>2 DEF AuthorizerEnds, CInv
  <2>1. stateCh' = <<>> \/ (auth' = "succeeded" /\ stateCh' = <<"ready">>)
    <3>1. stateCh = <<>>
      BY DEF Lag, Checks
    <3> QED
      BY <3>1
  <2>2. ClientTypes'
    BY DEF ClientTypes, Outcomes
  <2>3. Lag'
    BY <2>1 DEF Lag, Prompts, Checks
  <2>4. Answers'
    BY DEF Answers, Seen
  <2>5. OutcomeFinal' /\ newClient' # "done"
    BY DEF OutcomeFinal, Outcomes, Checks
  <2> QED
    BY <2>2, <2>3, <2>4, <2>5
<1> QED
  BY <1>1, <1>2, TakenCInv DEF Library

LEMMA MonitorCInv == ASSUME CInv, MonitorStep PROVE CInv'
<1> USE DEF MonitorStep, CInv
<1>1. PICK q \in Prompts \cup {"ready"} : stateCh = <<q>>
  BY DEF Lag, ClientTypes, Prompts, Checks, Outcomes
<1>2. authState' = q /\ stateCh' = <<>>
  BY <1>1
<1>3. ClientTypes'
  BY DEF ClientTypes
<1>4. Lag' /\ OutcomeFinal'
  BY <1>1, <1>2 DEF Lag, ClientTypes, OutcomeFinal, Prompts, Checks, Outcomes
<1>5. \A p \in Prompts : Seen(p) => Seen(p)'
  BY <1>1, <1>2 DEF Lag, ClientTypes, Seen, Prompts, Checks, Outcomes
<1>6. Answers'
  BY <1>5 DEF Answers
<1> QED
  BY <1>3, <1>4, <1>6

LEMMA NewClientCInv == ASSUME CInv, NewClientReturns PROVE CInv'
<1> USE DEF NewClientReturns, authVars, CInv
<1>1. ClientTypes' /\ Lag' /\ OutcomeFinal' /\ auth' \in Outcomes
  BY DEF ClientTypes, Lag, OutcomeFinal, Outcomes
<1>2. Answers'
  BY DEF Answers, Seen
<1> QED
  BY <1>1, <1>2

LEMMA SendCInv ==
  ASSUME CInv, NEW c \in Callers, SendEnd(c) \/ \E q \in Prompts : SendBegin(c, q)
  PROVE  CInv'
<1> USE DEF CInv, authVars
<1>1. ASSUME NEW q \in Prompts, SendBegin(c, q) PROVE CInv'
  <2> USE <1>1 DEF SendBegin
  <2>1. ClientTypes' /\ Lag' /\ OutcomeFinal'
    BY DEF ClientTypes, Lag, OutcomeFinal
  <2>2. Seen(q)
    BY DEF Seen, Prompts
  <2>3. Answers'
    BY <2>2 DEF ClientTypes, Answers, Seen
  <2> QED
    BY <2>1, <2>3
<1>2. CASE SendEnd(c)
  <2> USE <1>2 DEF SendEnd
  <2>1. call[c] \in Prompts /\ Seen(call[c])
    BY DEF Answers
  <2>2. ClientTypes' /\ Lag' /\ OutcomeFinal'
    BY <2>1 DEF ClientTypes, Lag, OutcomeFinal
  <2>3. \A q \in Prompts : chan'[q] = chan[q] \/ q = call[c]
    BY DEF ClientTypes
  <2>4. \A d \in Callers : call'[d] = call[d] \/ call'[d] = "idle"
    BY DEF ClientTypes
  <2>5. Answers'
    BY <2>1, <2>3, <2>4 DEF Answers, Seen, Prompts
  <2> QED
    BY <2>2, <2>5
<1> QED
  BY <1>1, <1>2

(* The variables the invariant reads. *)
held == <<kind, authState, auth, stateCh, chan, call, newClient>>

LEMMA HeldCInv == ASSUME CInv, UNCHANGED held PROVE CInv'
  BY DEF held, CInv, ClientTypes, Lag, Answers, Seen, OutcomeFinal

LEMMA NextCInv == ASSUME CInv, [Next]_vars PROVE CInv'
<1>1. CASE EventLoop \/ Cancel \/ Close \/ UNCHANGED vars
  <2>1. UNCHANGED held
    BY <1>1 DEF EventLoop, LoopStarts, LoopGivesUp, LoopStops, LoopGoes, Cancel, Close, vars,
                authVars, held
  <2> QED
    BY <2>1, HeldCInv
<1> QED
  BY <1>1, LibraryCInv, MonitorCInv, NewClientCInv, SendCInv DEF Next, Running

LEMMA ClientInvariant == Spec => []CInv
<1>1. CInv /\ [Next]_vars => CInv'
  BY NextCInv
<1> QED
  BY InitCInv, <1>1, PTL DEF Spec

(* The state of a client whose NewClient has returned is its outcome, and the monitor
   never overwrites it: an answered prompt has been seen (client.go:110-141). *)
THEOREM OutcomeFinalSafe == Spec => []OutcomeFinal
<1>1. CInv => OutcomeFinal
  BY DEF CInv
<1> QED
  BY <1>1, ClientInvariant, PTL

(* No code and no password is buffered before the library has asked for it
   (client.go:167-208). *)
THEOREM AnswerFollowsPromptSafe == Spec => []AnswerFollowsPrompt
<1>1. CInv => AnswerFollowsPrompt
  BY DEF CInv, ClientTypes, Lag, Answers, Seen, AnswerFollowsPrompt, Prompts, Outcomes
<1> QED
  BY <1>1, ClientInvariant, PTL

-----------------------------------------------------------------------------
LEMMA LoginStepIsClientStep == ASSUME LoginNext PROVE [Next]_vars
<1>1. ASSUME NEW c \in Callers, PollReads(c) PROVE UNCHANGED vars
  BY <1>1 DEF PollReads
<1>2. ASSUME NEW c \in Callers, NEW q \in Prompts, HandlerReads(c, q) PROVE UNCHANGED vars
  BY <1>2 DEF HandlerReads
<1>3. ASSUME NEW c \in Callers, CallStep(c)
      PROVE  (\E q \in Prompts : SendBegin(c, q)) \/ SendEnd(c) \/ UNCHANGED vars
  BY <1>3, SMTT(60) DEF CallStep, ManagerRoutes, RpcFails, PoolFinds, ClientTests, ClientSends, ClientTells
<1>4. ASSUME RowAssigned \/ WorkerRemoved PROVE UNCHANGED vars
  BY <1>4 DEF RowAssigned, WorkerRemoved
<1> QED
  BY <1>1, <1>2, <1>3, <1>4, ZenonT(60)
     DEF LoginNext, Next, Running, ClientStep, SessionCancelled, SessionClosed

(* The client below the REST handlers, the manager and the pool is the client of
   TDLibClient: no route to it takes a step that client.go does not
   (account.go:128-223, manager.go:150-184, pool.go:158-192). *)
THEOREM LoginUsesClient == LoginSpec => Spec
<1>1. LoginInit => Init
  BY DEF LoginInit
<1>2. [LoginNext]_loginVars => [Next]_vars
  BY LoginStepIsClientStep DEF loginVars
<1> QED
  BY <1>1, <1>2, PTL DEF LoginSpec, Spec

(* The authorizer has taken the answer to q, or ended without it. *)
Past(q) ==
  auth \in Outcomes \cup {"checking_password"} \cup
            (IF q = "waiting_code" THEN {"checking_code", "waiting_password"} ELSE {})

LoginTypes ==
  /\ at \in [Callers -> {"idle", "manager", "worker", "client"}]
  /\ want \in [Callers -> Prompts \cup {"state"}]
  /\ accepted \in [Prompts -> Nat]

(* A call inside the client is that of the request which has got there. *)
CallsMatch == \A c \in Callers : call[c] \in Prompts => at[c] = "client" /\ want[c] = call[c]

(* The answers acknowledged are the one that is buffered and the one that was taken. *)
Spare == \A q \in Prompts : accepted[q] <= chan[q] + (IF Past(q) THEN 1 ELSE 0)

LInv == CInv /\ LoginTypes /\ CallsMatch /\ Spare /\ ToldIsTrue

LEMMA InitLInv == LoginInit => LInv
<1> SUFFICES ASSUME LoginInit PROVE LInv
  OBVIOUS
<1>1. CInv
  BY InitCInv DEF LoginInit
<1>2. LoginTypes /\ CallsMatch /\ Spare /\ ToldIsTrue
  BY DEF LoginInit, Init, LoginTypes, CallsMatch, Spare, ToldIsTrue, Past, Prompts, Untold
<1> QED
  BY <1>1, <1>2 DEF LInv

(* No step takes the authorizer back. *)
LEMMA AuthAdvances ==
  ASSUME CInv, [Next]_vars
  PROVE  /\ \A q \in Prompts : Past(q) => Past(q)'
         /\ \A o \in Outcomes : auth = o => auth' = o
         /\ auth # "waiting_phone" => auth' # "waiting_phone"
<1>1. CASE Library
  BY <1>1 DEF Library, AuthorizerEnds, AuthorizerPrompts, TakeAnswer, CInv, ClientTypes, Past,
              Prompts, Checks, Outcomes
<1>2. CASE ~Library
  <2>1. auth' = auth
    BY <1>2, SMTT(60) DEF Next, Running, NewClientReturns, MonitorStep, SendBegin, SendEnd, EventLoop,
                LoopStarts, LoopGivesUp, LoopStops, LoopGoes, Cancel, Close, vars, authVars
  <2> QED
    BY <2>1 DEF Past
<1> QED
  BY <1>1, <1>2

LEMMA LibraryLInv == ASSUME LInv, Running(Library), UNCHANGED askVars PROVE LInv'
<1> USE DEF LInv, askVars, Running
<1>1. CInv' /\ LoginTypes'
  BY LibraryCInv DEF LoginTypes
<1>2. CallsMatch'
  <2>1. UNCHANGED call
    BY Zenon DEF Library, TakeAnswer, AuthorizerEnds, AuthorizerPrompts
  <2> QED
    BY <2>1 DEF CallsMatch
<1>3. Spare'
  <2> SUFFICES ASSUME NEW q \in Prompts
               PROVE  accepted[q] <= chan'[q] + (IF Past(q)' THEN 1 ELSE 0)
    BY DEF Spare
  <2>1. accepted[q] \in Nat /\ chan[q] \in {0, 1} /\ chan'[q] \in {0, 1}
    BY <1>1 DEF CInv, ClientTypes, LoginTypes
  <2>2. CASE TakeAnswer(q)
    <3>1. chan'[q] = chan[q] - 1 /\ Past(q)' /\ ~Past(q)
      BY <2>1, <2>2 DEF TakeAnswer, Past, CInv, ClientTypes, Prompts, Outcomes
    <3> QED
      BY <2>1, <3>1 DEF Spare
  <2>3. CASE ~TakeAnswer(q)
    <3>1. chan'[q] = chan[q]
      BY <2>3 DEF Library, AuthorizerEnds, AuthorizerPrompts, TakeAnswer, CInv, ClientTypes
    <3>2. Past(q) => Past(q)'
      BY AuthAdvances DEF Next
    <3> QED
      BY <2>1, <3>1, <3>2 DEF Spare
  <2> QED
    BY <2>2, <2>3
<1>4. ToldIsTrue'
  BY DEF ToldIsTrue, Library, AuthorizerEnds, AuthorizerPrompts, TakeAnswer, CInv, ClientTypes,
         Prompts, Checks, Outcomes
<1> QED
  BY <1>1, <1>2, <1>3, <1>4

(* A step of the client that moves neither the authorizer nor a call. *)
LEMMA QuietLInv ==
  ASSUME LInv, [Next]_vars, UNCHANGED <<auth, chan, call, askVars>>
  PROVE  LInv'
<1>1. CInv'
  BY NextCInv DEF LInv
<1> QED
  BY <1>1 DEF LInv, askVars, LoginTypes, CallsMatch, Spare, Past, ToldIsTrue

(* A request on its way to the client, or back with an error. *)
LEMMA RouteLInv ==
  ASSUME LInv, NEW c \in Callers,
         \/ PollReads(c) \/ ManagerRoutes(c) \/ RpcFails(c) \/ PoolFinds(c)
         \/ \E q \in Prompts : HandlerReads(c, q)
  PROVE  LInv'
<1> USE DEF LInv, PollReads, ManagerRoutes, RpcFails, PoolFinds, HandlerReads, CallGoes, CallFails
<1>1. UNCHANGED vars
  OBVIOUS
<1>2. CInv'
  BY <1>1, NextCInv
<1>3. LoginTypes'
  BY DEF LoginTypes
<1>4. CallsMatch'
  <2>1. call[c] \notin Prompts
    BY DEF CallsMatch
  <2> QED
    BY <1>1, <2>1, SMTT(60) DEF CallsMatch, LoginTypes, vars
<1>5. Spare' /\ ToldIsTrue'
  BY <1>1, SMTT(60) DEF Spare, ToldIsTrue, Past, vars, authVars
<1> QED
  BY <1>2, <1>3, <1>4, <1>5

LEMMA ClientTestsLInv == ASSUME LInv, NEW c \in Callers, Running(ClientTests(c)) PROVE LInv'
<1> USE DEF LInv, Running, ClientTests
<1>1. CASE SendBegin(c, want[c]) /\ UNCHANGED askVars
  <2>1. CInv'
    BY <1>1, SendCInv
  <2>2. LoginTypes' /\ Spare' /\ ToldIsTrue'
    BY <1>1 DEF SendBegin, askVars, authVars, LoginTypes, Spare, Past, ToldIsTrue
  <2>3. CallsMatch'
    BY <1>1, SMTT(60) DEF SendBegin, askVars, CallsMatch, CInv, ClientTypes
  <2> QED
    BY <2>1, <2>2, <2>3, SMTT(60)
<1>2. CASE CallFails(c) /\ UNCHANGED vars
  <2>1. CInv'
    BY <1>2, NextCInv
  <2>2. LoginTypes' /\ Spare' /\ ToldIsTrue'
    BY <1>2 DEF CallFails, vars, authVars, LoginTypes, Spare, Past, ToldIsTrue
  <2>3. CallsMatch'
    BY <1>2 DEF CallFails, vars, CallsMatch, LoginTypes, Prompts
  <2> QED
    BY <2>1, <2>2, <2>3
<1> QED
  BY <1>1, <1>2, SMTT(60)

LEMMA ClientSendsLInv == ASSUME LInv, NEW c \in Callers, ClientSends(c) PROVE LInv'
<1> USE DEF LInv, ClientSends, SendEnd, CallFails
<1>1. CInv'
  BY SendCInv, ZenonT(60)
<1>2. call[c] \in Prompts /\ want[c] = call[c]
  BY DEF CallsMatch
<1>3. LoginTypes'
  BY <1>2 DEF LoginTypes
<1>4. CallsMatch'
  BY DEF CallsMatch, LoginTypes, CInv, ClientTypes, Prompts
<1>5. Spare'
  <2> SUFFICES ASSUME NEW q \in Prompts
               PROVE  accepted'[q] <= chan'[q] + (IF Past(q) THEN 1 ELSE 0)
    BY DEF Spare, Past, authVars
  <2>1. accepted[q] \in Nat /\ chan[q] \in {0, 1} /\ chan'[q] \in {0, 1}
    BY <1>1 DEF CInv, ClientTypes, LoginTypes
  <2>2. CASE chan' # chan /\ q = want[c]
    <3>1. chan[q] = 0 /\ chan'[q] = 1 /\ accepted'[q] = accepted[q] + 1
      BY <1>2, <2>2 DEF CInv, ClientTypes, LoginTypes
    <3> QED
      BY <2>1, <3>1 DEF Spare
  <2>3. CASE chan' = chan \/ q # want[c]
    <3>1. chan'[q] = chan[q] /\ accepted'[q] = accepted[q]
      BY <1>2, <2>3 DEF CInv, ClientTypes, LoginTypes
    <3> QED
      BY <3>1 DEF Spare
  <2> QED
    BY <2>2, <2>3
<1>6. ToldIsTrue'
  BY DEF ToldIsTrue, authVars
<1> QED
  BY <1>1, <1>3, <1>4, <1>5, <1>6

LEMMA ClientTellsLInv == ASSUME LInv, NEW c \in Callers, ClientTells(c) PROVE LInv'
<1> USE DEF LInv, ClientTells
<1>1. CInv'
  BY NextCInv
<1>2. LoginTypes' /\ Spare'
  BY DEF LoginTypes, Spare, Past, vars, authVars
<1>3. CallsMatch'
  BY DEF CallsMatch, LoginTypes, Prompts, vars
<1>4. ToldIsTrue'
  BY DEF ToldIsTrue, CInv, ClientTypes, Lag, Prompts, Checks, Outcomes, vars, authVars
<1> QED
  BY <1>1, <1>2, <1>3, <1>4

LEMMA NextLInv == ASSUME LInv, [LoginNext]_loginVars PROVE LInv'
<1>1. [Next]_vars
  BY LoginStepIsClientStep DEF loginVars
<1>2. CASE Running(ClientStep)
  <2>1. CASE Library
    BY <1>2, <2>1, LibraryLInv DEF Running, ClientStep
  <2>2. CASE ~Library
    <3>1. UNCHANGED <<auth, chan, call, askVars>>
      BY <1>2, <2>2 DEF Running, ClientStep, NewClientReturns, MonitorStep, EventLoop, LoopStarts,
                        LoopGivesUp, LoopStops, LoopGoes, authVars
    <3> QED
      BY <1>1, <3>1, QuietLInv
  <2> QED
    BY <2>1, <2>2
<1>3. ASSUME NEW c \in Callers, Running(PollReads(c)) \/ Running(CallStep(c)) PROVE LInv'
  BY <1>3, RouteLInv, ClientTestsLInv, ClientSendsLInv, ClientTellsLInv DEF Running, CallStep
<1>4. ASSUME NEW c \in Callers, NEW q \in Prompts, Running(HandlerReads(c, q)) PROVE LInv'
  BY <1>4, RouteLInv DEF Running
<1>5. CASE RowAssigned \/ WorkerRemoved \/ SessionCancelled \/ SessionClosed \/ UNCHANGED loginVars
  <2>1. UNCHANGED <<auth, chan, call, askVars>>
    BY <1>5, ZenonT(60) DEF RowAssigned, WorkerRemoved, SessionCancelled, SessionClosed, Cancel, Close,
                loginVars, vars, authVars
  <2> QED
    BY <1>1, <2>1, QuietLInv
<1> QED
  BY <1>2, <1>3, <1>4, <1>5 DEF LoginNext, Running

LEMMA LoginInvariant == LoginSpec => []LInv
<1>1. LInv /\ [LoginNext]_loginVars => LInv'
  BY NextLInv
<1> QED
  BY InitLInv, <1>1, PTL DEF LoginSpec

(* auth-state tells the user "ready" or "error" only after the authorization has ended
   so, and a prompt only once it was made, wherever the request was when the client
   moved (account.go:198-223, pool.go:184-192). *)
THEOREM ToldIsTrueSafe == LoginSpec => []ToldIsTrue
<1>1. LInv => ToldIsTrue
  BY DEF LInv
<1> QED
  BY <1>1, LoginInvariant, PTL

(* Of any number of concurrent answers to one prompt at most two are acknowledged:
   the one the library takes and one that is left in the channel
   (account.go:160, 194, client.go:180-185). *)
THEOREM OneAnswerToSpareSafe == LoginSpec => []OneAnswerToSpare
<1>1. LInv => OneAnswerToSpare
  <2> SUFFICES ASSUME LInv, NEW q \in Prompts PROVE accepted[q] <= 2
    BY DEF OneAnswerToSpare
  <2>1. accepted[q] \in Nat /\ chan[q] \in {0, 1}
    BY DEF LInv, CInv, ClientTypes, LoginTypes
  <2>2. accepted[q] <= chan[q] + (IF Past(q) THEN 1 ELSE 0)
    BY DEF LInv, Spare
  <2> QED
    BY <2>1, <2>2
<1> QED
  BY <1>1, LoginInvariant, PTL
=============================================================================
