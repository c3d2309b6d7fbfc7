----------------------------- MODULE RateLimiter -----------------------------
(***************************************************************************)
(* The rate limiter of the REST server (api/rest/middleware/ratelimit.go): *)
(* a map of token buckets made on demand, from which a goroutine drops     *)
(* those idle for long.  A dropped key starts again with a full burst.     *)
(*                                                                         *)
(* Time advances in ticks, MaxIdle of them being the five minutes of the   *)
(* code.  rate.Limiter (golang.org/x/time) refills a bucket when it is     *)
(* used; here the tick does it.                                            *)
(***************************************************************************)
EXTENDS Integers

CONSTANTS Keys, Rate, Burst,
          MaxIdle,      \* the ticks of five minutes, after which an unused entry goes
          MaxElapsed    \* bound: ticks of one observation

(* The last conjunct holds of the defaults, 200 <= 100 * 300, and of any
   configuration whose bucket refills within five minutes. *)
ASSUME LimiterAssumption ==
  /\ {Rate, Burst} \subseteq Nat \ {0} /\ {MaxIdle, MaxElapsed} \subseteq Nat
  /\ Burst <= Rate * MaxIdle

VARIABLES
  known,     \* the keys of the map limiters
  tokens,    \* limiter of each entry: its tokens (Burst for an unknown key)
  idle,      \* lastSeen of each entry, as ticks since (0 for an unknown key)
  admitted, elapsed    \* the observation, see TokenBucket

limiterVars == <<known, tokens, idle, admitted, elapsed>>

LimiterInit ==
  /\ known = {}
  /\ tokens = [k \in Keys |-> Burst]
  /\ idle = [k \in Keys |-> 0]
  /\ admitted = [k \in Keys |-> 0] /\ elapsed = 0

Smaller(a, b) == IF a <= b THEN a ELSE b

(* Mutant: getLimiter does not touch lastSeen of an entry it finds. *)
GetLimiter_KeepsLastSeen(k) ==
  /\ known' = known \cup {k}
  /\ idle' = idle

(* getLimiter, under the mutex: find or make the entry of the key, note the time. *)
GetLimiter(k) ==
  /\ known' = known \cup {k}
  /\ idle' = [idle EXCEPT ![k] = 0]

(* The middleware: getLimiter(key).Allow().  The mutex is free again between the
   two, but the entry has just been used and stays for five minutes. *)
Allow(k, ok) ==
  /\ ok = (tokens[k] >= 1)
  /\ GetLimiter(k)
  /\ tokens' = IF ok THEN [tokens EXCEPT ![k] = tokens[k] - 1] ELSE tokens
  /\ admitted' = IF ok THEN [admitted EXCEPT ![k] = admitted[k] + 1] ELSE admitted
  /\ UNCHANGED elapsed

(* Mutant: the age is compared with the wrong sign. *)
Cleanup_Recent ==
  /\ known' = {k \in known : idle[k] > MaxIdle}
  /\ tokens' = [k \in Keys |-> IF k \in known' THEN tokens[k] ELSE Burst]
  /\ idle' = [k \in Keys |-> IF k \in known' THEN idle[k] ELSE 0]
  /\ UNCHANGED <<admitted, elapsed>>

(* One round of the cleanup goroutine.  An entry of MaxIdle ticks is five minutes old
   or somewhat more or less, so it may go or stay. *)
Cleanup ==
  /\ known' \in {K \in SUBSET known :
                   \A k \in known : /\ idle[k] < MaxIdle => k \in K
                                    /\ idle[k] > MaxIdle => k \notin K}
  /\ tokens' = [k \in Keys |-> IF k \in known' THEN tokens[k] ELSE Burst]
  /\ idle' = [k \in Keys |-> IF k \in known' THEN idle[k] ELSE 0]
  /\ UNCHANGED <<admitted, elapsed>>

(* Time passes: the buckets of the entries fill, and their age grows (beyond
   MaxIdle it makes no difference any more). *)
Tick ==
  /\ elapsed < MaxElapsed /\ elapsed' = elapsed + 1
  /\ tokens' = [k \in Keys |-> Smaller(Burst, tokens[k] + Rate)]
  /\ idle' = [k \in Keys |-> IF k \in known THEN Smaller(MaxIdle + 1, idle[k] + 1) ELSE 0]
  /\ UNCHANGED <<known, admitted>>

(* An observer starts to count. *)
Observe ==
  /\ admitted' = [k \in Keys |-> 0] /\ elapsed' = 0
  /\ UNCHANGED <<known, tokens, idle>>

LimiterNext == Cleanup \/ Tick \/ Observe \/ \E k \in Keys, ok \in BOOLEAN : Allow(k, ok)

LimiterSpec == LimiterInit /\ [][LimiterNext]_limiterVars

-----------------------------------------------------------------------------
Bucket == INSTANCE TokenBucket

(* Dropping idle entries is invisible: the limiter is the one that keeps every
   bucket for good, because an entry is full again before it may be dropped
   (ratelimit.go:25-48). *)
ImplementsTokenBucket == Bucket!Spec

(* No key gets more than one burst and the sustained rate through in any interval,
   however requests, cleanups and new entries follow each other (ratelimit.go:20). *)
WindowBound == Bucket!WindowBound
==============================================================================
