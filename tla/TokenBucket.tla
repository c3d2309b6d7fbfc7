----------------------------- MODULE TokenBucket -----------------------------
(***************************************************************************)
(* What the rate limiter promises: "rps is the sustained request rate;     *)
(* burst is the maximum burst size" (api/rest/middleware/ratelimit.go:20). *)
(* Each key has one bucket for good.  A request takes a token, and every   *)
(* tick of the clock adds Rate tokens, up to Burst.                        *)
(*                                                                         *)
(* The requests admitted are counted from a moment an observer picks.      *)
(***************************************************************************)
EXTENDS Integers

CONSTANTS Keys,    \* what requests are limited by
          Rate,    \* tokens a tick adds (rps)
          Burst    \* capacity of a bucket

VARIABLES
  tokens,     \* tokens of each key
  admitted,   \* requests admitted since the observation began, by key
  elapsed     \* ticks since then

vars == <<tokens, admitted, elapsed>>

Least(a, b) == IF a <= b THEN a ELSE b

Init ==
  /\ tokens = [k \in Keys |-> Burst]
  /\ admitted = [k \in Keys |-> 0]
  /\ elapsed = 0

Admit(k) ==
  /\ tokens[k] >= 1
  /\ tokens' = [tokens EXCEPT ![k] = tokens[k] - 1]
  /\ admitted' = [admitted EXCEPT ![k] = admitted[k] + 1]
  /\ UNCHANGED elapsed

Tick ==
  /\ tokens' = [k \in Keys |-> Least(Burst, tokens[k] + Rate)]
  /\ elapsed' = elapsed + 1
  /\ UNCHANGED admitted

Observe ==
  /\ admitted' = [k \in Keys |-> 0]
  /\ elapsed' = 0
  /\ UNCHANGED tokens

Next == Tick \/ Observe \/ \E k \in Keys : Admit(k)

Spec == Init /\ [][Next]_vars

(* Whenever the observation begins, no key gets more requests through than one
   burst and the sustained rate since then (ratelimit.go:20, 50-59). *)
WindowBound == \A k \in Keys : admitted[k] <= Burst + Rate * elapsed
==============================================================================
