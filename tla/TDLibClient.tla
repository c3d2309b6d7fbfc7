----------------------------- MODULE TDLibClient -----------------------------
(***************************************************************************)
(* One TDLib client (internal/tdlib/client.go) and the goroutines around   *)
(* it: the goroutine that runs NewClient, the monitor that copies          *)
(* authorization prompts to authState, callers of SendCode and             *)
(* SendPassword, the event loop, and the pool that cancels and closes it.  *)
(*                                                                         *)
(* The authorizer is go-tdlib's, an external library: it announces each    *)
(* prompt on the State channel, waits for the answer on the channel of the *)
(* prompt (buffered, capacity 1), and closes its channels before NewClient *)
(* returns.  A bot is authorized before its client exists.                 *)
(***************************************************************************)
EXTENDS Naturals, Sequences

CONSTANT Callers    \* concurrent SendCode / SendPassword calls

Prompts == {"waiting_code", "waiting_password"}
Checks == {"checking_code", "checking_password"}

VARIABLES
  kind,        \* "bot" or "account"
  authState,   \* c.authState
  tdlib,       \* c.tdlib is set
  auth,        \* the authorizer: the prompt it waits on, or the answer it has taken
               \* and has checked, then its outcome
  stateCh,     \* auth.State, prompts the monitor has not seen yet
  chan,        \* number of answers buffered, by prompt (auth.Code, auth.Password)
  chanOpen,    \* the answer channels have not been closed
  newClient,   \* the goroutine around NewClient has stored the outcome
  call,        \* where each SendCode / SendPassword call is
  loop,        \* where RunEventLoop is
  ctxDone,     \* the session's context has been cancelled
  close,       \* Close has been called by the pool
  instance,    \* the TDLib instance inside the library
  panicked     \* a send on a closed channel has been executed

authVars == <<auth, stateCh, instance>>
poolVars == <<loop, ctxDone, close>>
vars == <<kind, authState, tdlib, authVars, chan, chanOpen, newClient, call, poolVars, panicked>>

(* New: newBot returns an authorized client, newAccount one that has been given
   the phone number and starts its two goroutines. *)
Init ==
  /\ \/ /\ kind = "bot" /\ authState = "ready" /\ tdlib = TRUE
        /\ auth = "succeeded" /\ chanOpen = FALSE /\ newClient = "done"
     \/ /\ kind = "account" /\ authState = "waiting_phone" /\ tdlib = FALSE
        /\ auth = "waiting_phone" /\ chanOpen = TRUE /\ newClient = "running"
  /\ stateCh = <<>>
  /\ chan = [q \in Prompts |-> 0]
  /\ call = [c \in Callers |-> "idle"]
  /\ loop = "polling" /\ ctxDone = FALSE /\ close = "no"
  /\ instance = "running"
  /\ panicked = FALSE

-----------------------------------------------------------------------------
(* External: the authorizer takes the answer it waits for and has Telegram check it.
   (The phone number was sent by newAccount.) *)
TakeAnswer(q) ==
  /\ auth = q /\ chan[q] > 0
  /\ chan' = [chan EXCEPT ![q] = @ - 1]
  /\ auth' = IF q = "waiting_code" THEN "checking_code" ELSE "checking_password"
  /\ UNCHANGED <<kind, authState, tdlib, stateCh, chanOpen, newClient, call, poolVars, instance,
                 panicked>>

(* External: it prompts for the next answer. *)
AuthorizerPrompts(q) ==
  /\ \/ auth = "waiting_phone" /\ q = "waiting_code"
     \/ auth = "checking_code" /\ q = "waiting_password"
  /\ auth' = q
  /\ stateCh' = Append(stateCh, q)
  /\ UNCHANGED <<kind, authState, tdlib, chan, chanOpen, newClient, call, poolVars, instance,
                 panicked>>

(* External: it succeeds or fails, a wrong answer included. *)
AuthorizerEnds ==
  /\ auth \in {"waiting_phone"} \cup Checks
  /\ chanOpen' = FALSE
  /\ \/ /\ auth' = "succeeded"
        /\ stateCh' \in {stateCh, Append(stateCh, "ready")}
        /\ UNCHANGED instance
     \/ /\ auth' = "failed"
        /\ instance' = "closed"
        /\ UNCHANGED stateCh
  /\ UNCHANGED <<kind, authState, tdlib, chan, newClient, call, poolVars, panicked>>

(* Mutant: the goroutine reports success without keeping the client. *)
NewClientReturns_NoClient ==
  /\ newClient = "running" /\ newClient' = "done"
  /\ \/ auth = "failed" /\ authState' = "error"
     \/ auth = "succeeded" /\ authState' = "ready"
  /\ UNCHANGED <<kind, tdlib, authVars, chan, chanOpen, call, poolVars, panicked>>

(* NewClient returns in its goroutine. *)
NewClientReturns ==
  /\ newClient = "running" /\ newClient' = "done"
  /\ \/ auth = "failed" /\ authState' = "error" /\ UNCHANGED tdlib
     \/ auth = "succeeded" /\ authState' = "ready" /\ tdlib' = TRUE
  /\ UNCHANGED <<kind, authVars, chan, chanOpen, call, poolVars, panicked>>

(* The monitor takes the next state from auth.State. *)
MonitorStep ==
  /\ stateCh # <<>>
  /\ authState' = Head(stateCh)
  /\ stateCh' = Tail(stateCh)
  /\ UNCHANGED <<kind, tdlib, auth, instance, chan, chanOpen, newClient, call, poolVars, panicked>>

-----------------------------------------------------------------------------
(* Mutant: SendCode and SendPassword do not look at the state. *)
SendBegin_AnyState(c, q) ==
  /\ kind = "account" /\ call[c] = "idle"
  /\ call' = [call EXCEPT ![c] = q]
  /\ UNCHANGED <<kind, authState, tdlib, authVars, chan, chanOpen, newClient, poolVars, panicked>>

(* SendCode (SendPassword), the test of the state under the lock.  A bot has no
   channel, and in any other state the call returns an error. *)
SendBegin(c, q) ==
  /\ kind = "account" /\ call[c] = "idle"
  /\ authState = q
  /\ call' = [call EXCEPT ![c] = q]
  /\ UNCHANGED <<kind, authState, tdlib, authVars, chan, chanOpen, newClient, poolVars, panicked>>

(* Mutant: the send does not respect the capacity of the channel. *)
SendEnd_Unbounded(c) ==
  LET q == call[c]
  IN  /\ q \in Prompts
      /\ call' = [call EXCEPT ![c] = "idle"]
      /\ chan' = [chan EXCEPT ![q] = @ + 1]
      /\ UNCHANGED <<kind, authState, tdlib, authVars, chanOpen, newClient, poolVars, panicked>>

(* SendCode (SendPassword), the non-blocking send after the unlock. *)
SendEnd(c) ==
  LET q == call[c]
  IN  /\ q \in Prompts
      /\ call' = [call EXCEPT ![c] = "idle"]
      /\ \/ chanOpen /\ chan[q] = 0 /\ chan' = [chan EXCEPT ![q] = 1] /\ UNCHANGED panicked
         \/ chanOpen /\ chan[q] = 1 /\ UNCHANGED <<chan, panicked>>
         \/ ~chanOpen /\ panicked' = TRUE /\ UNCHANGED chan
      /\ UNCHANGED <<kind, authState, tdlib, authVars, chanOpen, newClient, poolVars>>

-----------------------------------------------------------------------------
LoopGoes(from, to) ==
  /\ loop = from /\ loop' = to
  /\ UNCHANGED <<kind, authState, tdlib, authVars, chan, chanOpen, newClient, call,
                 ctxDone, close, panicked>>

(* Mutant: the poll waits for the client and the context only. *)
LoopGivesUp_IgnoresError == ctxDone /\ LoopGoes("polling", "returned")

(* RunEventLoop, one turn of the wait for the client. *)
LoopStarts == tdlib /\ LoopGoes("polling", "listening")
LoopGivesUp == /\ ~tdlib /\ (authState = "error" \/ ctxDone)
               /\ LoopGoes("polling", "returned")

(* RunEventLoop, the end of the listening loop. *)
LoopStops == (ctxDone \/ instance = "closed") /\ LoopGoes("listening", "returned")

(* Pool.Remove, or the worker's shutdown, cancels the context. *)
Cancel ==
  /\ ~ctxDone /\ ctxDone' = TRUE
  /\ UNCHANGED <<kind, authState, tdlib, authVars, chan, chanOpen, newClient, call, loop,
                 close, panicked>>

(* Pool.Remove closes the client: a client that is still authorizing has nothing
   to close. *)
Close ==
  /\ ctxDone /\ close = "no" /\ close' = "done"
  /\ instance' = IF tdlib THEN "closed" ELSE instance
  /\ UNCHANGED <<kind, authState, tdlib, auth, stateCh, chan, chanOpen, newClient, call, loop,
                 ctxDone, panicked>>

Library == AuthorizerEnds \/ \E q \in Prompts : TakeAnswer(q) \/ AuthorizerPrompts(q)
EventLoop == LoopStarts \/ LoopGivesUp \/ LoopStops

(* A send on a closed channel ends the process. *)
Running(A) == ~panicked /\ A

Next ==
  \/ Running(Library) \/ Running(NewClientReturns) \/ Running(MonitorStep)
  \/ \E c \in Callers, q \in Prompts : Running(SendBegin(c, q))
  \/ \E c \in Callers : Running(SendEnd(c))
  \/ Running(EventLoop) \/ Running(Cancel) \/ Running(Close)

Spec == Init /\ [][Next]_vars

(* Goroutines that can run do, the authorizer included once it has its answer;
   nobody has to send a code, to cancel or to close. *)
Fairness ==
  /\ WF_vars(Running(Library))
  /\ WF_vars(Running(NewClientReturns)) /\ WF_vars(Running(MonitorStep))
  /\ \A c \in Callers : WF_vars(Running(SendEnd(c)))
  /\ WF_vars(Running(EventLoop))

FairSpec == Spec /\ Fairness

-----------------------------------------------------------------------------
(* The outcome NewClient stored is final: the monitor, which may lag, never
   overwrites "ready" or "error" by an old prompt, since every prompt but the
   last has been seen before it could be answered (client.go:110-141). *)
OutcomeFinal ==
  newClient = "done" => authState = (IF auth = "succeeded" THEN "ready" ELSE "error")

(* An answer is buffered only once the library has asked for it: a code or a
   password never waits in a channel for a prompt still to come, where it would
   answer a question the user has not seen (client.go:167-208). *)
AnswerFollowsPrompt ==
  /\ chan["waiting_code"] > 0 => auth # "waiting_phone"
  /\ chan["waiting_password"] > 0 => auth \notin {"waiting_phone", "waiting_code", "checking_code"}

(* "code channel is full or closed" (client.go:184, 206): SendCode and SendPassword
   answer with an error when the channel is closed. *)
SendNeverPanics == ~panicked

(* "Blocks until ctx is cancelled or the client is closed" (client.go:257): the
   event loop returns once the session is cancelled or authorization has failed. *)
LoopReturns == (ctxDone \/ auth = "failed") ~> (loop = "returned" \/ panicked)

(* An account whose authorization succeeds gets its event loop, even if it has
   been polling for long (client.go:256, 260-280). *)
LoopListens == (auth = "succeeded") ~> (loop = "listening" \/ ctxDone \/ panicked)
==============================================================================
