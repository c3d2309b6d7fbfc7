---------------------------- MODULE UpdateStream ----------------------------
(***************************************************************************)
(* The path of an update behind the main node: the Redis stream it is      *)
(* published to (internal/stream), and the two processes that read the     *)
(* stream, the webhook dispatcher (internal/webhook) and the replicator    *)
(* (internal/replication).  Both follow one scheme: XREAD after the last   *)
(* id seen, move the last id, hand the entry to each target (the matching  *)
(* webhooks, or the messages table) with at most three attempts.           *)
(*                                                                         *)
(* Entries are numbered from 1; the payload is left out, the type is what  *)
(* the webhooks filter on.  Redis is external.                             *)
(***************************************************************************)
EXTENDS Naturals, Sequences, FiniteSets, FiniteSetsExt

CONSTANTS
  Readers,      \* a subset of {"dispatcher", "replicator"}
  Hooks, DB,    \* targets: webhooks, and the messages table
  Types,        \* update types
  Events,       \* the event types each webhook asks for, empty for all
  Count,        \* entries one XREAD returns (100 and 200 in the code)
  MaxLen,       \* entries the stream keeps (about 10 000 in the code)
  MaxUpdates,   \* bound: updates published
  MaxFaults     \* bound: XREAD errors and timeouts, for each reader

ASSUME StreamAssumption ==
  /\ Readers \subseteq {"dispatcher", "replicator"} /\ DB \notin Hooks
  /\ Events \in [Hooks -> SUBSET Types]
  /\ {Count, MaxLen} \subseteq Nat \ {0} /\ {MaxUpdates, MaxFaults} \subseteq Nat

Attempts == 3
Targets == Hooks \cup {DB}
Dollar == MaxUpdates + 1     \* the id "$"
Ids == 1 .. MaxUpdates

VARIABLES
  kinds,     \* the stream: the type of each entry ever added
  first,     \* the oldest entry the stream still holds
  lastID,    \* lastID of each reader
  pc,        \* where each reader is
  from,      \* the id its XREAD reads after
  batch,     \* entries of the last XREAD not handled yet
  cur,       \* the entry being handled
  todo,      \* the targets it is still to be handed to
  target,    \* the target under retry
  tries,     \* attempts made at it
  hooks,     \* registered webhooks
  ctxDone,
  \* what happened, for the properties
  began,     \* the last entry when each reader first read, Dollar before
  faults,    \* XREAD errors and timeouts so far
  trimmed,   \* entries a reader could not read any more
  seen,      \* how often each target received each entry
  acked,     \* entries each target has confirmed
  gaveUp     \* entries given up for a target, after the attempts or for lack of a list

readVars == <<lastID, pc, from, batch, began, faults, trimmed>>
postVars == <<cur, todo, target, tries, seen, acked, gaveUp>>
vars == <<kinds, first, readVars, postVars, hooks, ctxDone>>

Init ==
  /\ kinds = <<>> /\ first = 1
  /\ lastID = [r \in Readers |-> Dollar]
  /\ pc = [r \in Readers |-> "top"]
  /\ from = [r \in Readers |-> 0]
  /\ batch = [r \in Readers |-> <<>>]
  /\ cur = [r \in Readers |-> 0]
  /\ todo = [r \in Readers |-> {}]
  /\ target = [r \in Readers |-> DB] /\ tries = [r \in Readers |-> 0]
  /\ hooks \in SUBSET Hooks /\ ctxDone = FALSE
  /\ began = [r \in Readers |-> Dollar]
  /\ faults = [r \in Readers |-> 0]
  /\ trimmed = [r \in Readers |-> {}]
  /\ seen = [t \in Targets |-> [i \in Ids |-> 0]]
  /\ acked = [t \in Targets |-> {}]
  /\ gaveUp = [t \in Targets |-> {}]

-----------------------------------------------------------------------------
(* Publish: XADD with an approximate MAXLEN may drop the oldest entries. *)
Publish(k) ==
  /\ Len(kinds) < MaxUpdates
  /\ kinds' = Append(kinds, k)
  /\ first' \in first .. Max({first, Len(kinds) + 2 - MaxLen})
  /\ UNCHANGED <<readVars, postVars, hooks, ctxDone>>

(* The rows of webhooks. *)
InsertHook(h) == hooks' = hooks \cup {h}
DeleteHook(h) == hooks' = hooks \ {h}

(* POST and DELETE of a webhook; a delete that finds no row is answered 404. *)
Created(h) == InsertHook(h) /\ UNCHANGED <<kinds, first, readVars, postVars, ctxDone>>
Deleted(h) == DeleteHook(h) /\ UNCHANGED <<kinds, first, readVars, postVars, ctxDone>>

(* main's shutdown. *)
Cancel == ctxDone' = TRUE /\ UNCHANGED <<kinds, first, readVars, postVars, hooks>>

-----------------------------------------------------------------------------
Goes(r, at, to) == pc[r] = at /\ pc' = [pc EXCEPT ![r] = to]

(* The top of Run's loop. *)
Stop(r) ==
  /\ ctxDone /\ Goes(r, "top", "stopped")
  /\ UNCHANGED <<kinds, first, lastID, from, batch, began, faults, trimmed, postVars, hooks, ctxDone>>

(* Mutant: every XREAD reads after "$". *)
XRead_AlwaysDollar(r) ==
  /\ ~ctxDone /\ Goes(r, "top", "blocked")
  /\ from' = [from EXCEPT ![r] = Len(kinds)]
  /\ began' = [began EXCEPT ![r] = IF @ = Dollar THEN Len(kinds) ELSE @]
  /\ UNCHANGED <<kinds, first, lastID, batch, faults, trimmed, postVars, hooks, ctxDone>>

(* XREAD is sent; Redis resolves "$" to the last entry at that moment. *)
XRead(r) ==
  /\ ~ctxDone /\ Goes(r, "top", "blocked")
  /\ from' = [from EXCEPT ![r] = IF lastID[r] = Dollar THEN Len(kinds) ELSE lastID[r]]
  /\ began' = [began EXCEPT ![r] = IF @ = Dollar THEN Len(kinds) ELSE @]
  /\ UNCHANGED <<kinds, first, lastID, batch, faults, trimmed, postVars, hooks, ctxDone>>

(* Mutant: the entries come newest first. *)
XReadReturns_NewestFirst(r) ==
  LET lo == Max({from[r] + 1, first})
      len == Min({Count, Len(kinds) + 1 - lo})
  IN  /\ Len(kinds) > from[r] /\ Goes(r, "blocked", "batch")
      /\ batch' = [batch EXCEPT ![r] = [j \in 1 .. len |-> lo + len - j]]
      /\ trimmed' = [trimmed EXCEPT ![r] = @ \cup from[r] + 1 .. lo - 1]
      /\ UNCHANGED <<kinds, first, lastID, from, began, faults, postVars, hooks, ctxDone>>

(* XREAD answers with the entries after from. *)
XReadReturns(r) ==
  LET lo == Max({from[r] + 1, first})
  IN  /\ Len(kinds) > from[r] /\ Goes(r, "blocked", "batch")
      /\ batch' = [batch EXCEPT ![r] =
           [j \in 1 .. Min({Count, Len(kinds) + 1 - lo}) |-> lo + j - 1]]
      /\ trimmed' = [trimmed EXCEPT ![r] = @ \cup from[r] + 1 .. lo - 1]
      /\ UNCHANGED <<kinds, first, lastID, from, began, faults, postVars, hooks, ctxDone>>

(* The block time is over with no entry, or XREAD fails. *)
XReadFails(r) ==
  /\ faults[r] < MaxFaults /\ faults' = [faults EXCEPT ![r] = @ + 1]
  /\ Goes(r, "blocked", IF ctxDone THEN "stopped" ELSE "top")
  /\ UNCHANGED <<kinds, first, lastID, from, batch, began, trimmed, postVars, hooks, ctxDone>>

(* A cancelled XREAD returns an error, and Run returns. *)
XReadCancelled(r) ==
  /\ ctxDone /\ Goes(r, "blocked", "stopped")
  /\ UNCHANGED <<kinds, first, lastID, from, batch, began, faults, trimmed, postVars, hooks, ctxDone>>

-----------------------------------------------------------------------------
Accepts(h, k) == Events[h] = {} \/ k \in Events[h]

Recipients(r, i) ==
  IF r = "replicator" THEN {DB} ELSE {h \in hooks : Accepts(h, kinds[i])}

(* Mutant: lastID is moved once per batch, to its first entry. *)
Take_FirstOfBatch(r) ==
  /\ Goes(r, "batch", "post") /\ batch[r] # <<>>
  /\ lastID' = [lastID EXCEPT ![r] = IF @ = Dollar \/ Head(batch[r]) > @ + 1 THEN Head(batch[r]) ELSE @]
  /\ batch' = [batch EXCEPT ![r] = Tail(@)]
  /\ cur' = [cur EXCEPT ![r] = Head(batch[r])]
  /\ todo' = [todo EXCEPT ![r] = Recipients(r, Head(batch[r]))]
  /\ UNCHANGED <<kinds, first, from, began, faults, trimmed, target, tries, seen, acked, gaveUp, hooks, ctxDone>>

(* lastID = msg.ID, and the targets of the entry: DeliverBody lists the webhooks
   and keeps the matching ones, the replicator inserts. *)
Take(r) ==
  /\ Goes(r, "batch", "post") /\ batch[r] # <<>>
  /\ lastID' = [lastID EXCEPT ![r] = Head(batch[r])]
  /\ batch' = [batch EXCEPT ![r] = Tail(@)]
  /\ cur' = [cur EXCEPT ![r] = Head(batch[r])]
  /\ todo' = [todo EXCEPT ![r] = Recipients(r, Head(batch[r]))]
  /\ UNCHANGED <<kinds, first, from, began, faults, trimmed, target, tries, seen, acked, gaveUp, hooks, ctxDone>>

(* The webhooks cannot be listed: the entry is delivered to none of them. *)
ListFails(r) ==
  LET i == Head(batch[r])
  IN  /\ r = "dispatcher" /\ pc[r] = "batch" /\ batch[r] # <<>>
      /\ lastID' = [lastID EXCEPT ![r] = i]
      /\ batch' = [batch EXCEPT ![r] = Tail(@)]
      /\ gaveUp' = [t \in Targets |-> IF t \in Recipients(r, i) THEN gaveUp[t] \cup {i} ELSE gaveUp[t]]
      /\ UNCHANGED <<kinds, first, pc, from, began, faults, trimmed, cur, todo, target, tries, seen, acked,
                     hooks, ctxDone>>

BatchEnds(r) ==
  /\ batch[r] = <<>> /\ Goes(r, "batch", "top")
  /\ UNCHANGED <<kinds, first, lastID, from, batch, began, faults, trimmed, postVars, hooks, ctxDone>>

-----------------------------------------------------------------------------
(* The loop over the targets is sequential: a target under retry keeps its turn. *)
MayAttempt(r, t) == pc[r] = "post" /\ t \in todo[r] /\ (tries[r] > 0 => t = target[r])

TargetDone(r, t) ==
  /\ todo' = [todo EXCEPT ![r] = @ \ {t}]
  /\ target' = [target EXCEPT ![r] = DB]
  /\ tries' = [tries EXCEPT ![r] = 0]

GiveUp(r, t) ==
  /\ TargetDone(r, t)
  /\ gaveUp' = [gaveUp EXCEPT ![t] = @ \cup {cur[r]}]

Received(t, i) == seen' = [seen EXCEPT ![t] = [j \in Ids |-> IF j = i THEN seen[t][j] + 1 ELSE seen[t][j]]]

(* A request answered with a 2xx status, an INSERT that returns no error. *)
AttemptSucceeds(r, t) ==
  /\ MayAttempt(r, t) /\ ~ctxDone
  /\ Received(t, cur[r])
  /\ acked' = [acked EXCEPT ![t] = @ \cup {cur[r]}]
  /\ TargetDone(r, t)
  /\ UNCHANGED <<kinds, first, readVars, cur, gaveUp, hooks, ctxDone>>

(* Mutant: one target that fails ends the delivery of the entry. *)
AttemptFails_EndsEntry(r, t) ==
  /\ MayAttempt(r, t)
  /\ todo' = [todo EXCEPT ![r] = {}]
  /\ UNCHANGED <<kinds, first, readVars, cur, target, tries, seen, acked, gaveUp, hooks, ctxDone>>

(* Any other answer, or none: the target may have received the entry all the same.
   The third failure gives up. *)
AttemptFails(r, t) ==
  /\ MayAttempt(r, t)
  /\ (~ctxDone /\ Received(t, cur[r])) \/ UNCHANGED seen
  /\ \/ tries[r] + 1 = Attempts /\ GiveUp(r, t)
     \/ /\ tries[r] + 1 < Attempts /\ UNCHANGED <<todo, gaveUp>>
        /\ tries' = [tries EXCEPT ![r] = @ + 1]
        /\ target' = [target EXCEPT ![r] = t]
  /\ UNCHANGED <<kinds, first, readVars, cur, acked, hooks, ctxDone>>

(* The context ends the delay between two attempts; a request to a malformed URL
   cannot be built. *)
Abandon(r, t) ==
  /\ MayAttempt(r, t)
  /\ (ctxDone /\ tries[r] > 0) \/ (t \in Hooks /\ tries[r] = 0)
  /\ GiveUp(r, t)
  /\ UNCHANGED <<kinds, first, readVars, cur, seen, acked, hooks, ctxDone>>

(* All targets of the entry are done. *)
EntryDone(r) ==
  /\ todo[r] = {} /\ Goes(r, "post", "batch")
  /\ UNCHANGED <<kinds, first, lastID, from, batch, began, faults, trimmed, postVars, hooks, ctxDone>>

ReaderStep(r) ==
  \/ Stop(r) \/ XRead(r) \/ XReadReturns(r) \/ XReadCancelled(r)
  \/ Take(r) \/ ListFails(r) \/ BatchEnds(r) \/ EntryDone(r)
  \/ \E t \in Targets : AttemptSucceeds(r, t) \/ AttemptFails(r, t) \/ Abandon(r, t)

Next ==
  \/ \E k \in Types : Publish(k)
  \/ \E h \in Hooks : Created(h) \/ Deleted(h)
  \/ Cancel
  \/ \E r \in Readers : ReaderStep(r) \/ XReadFails(r)

Spec == Init /\ [][Next]_vars

(* The readers run, and Redis answers them (its failures are bounded). *)
FairSpec == Spec /\ \A r \in Readers : WF_vars(ReaderStep(r))

-----------------------------------------------------------------------------
(* Once an update has reached the messages table, every later one that the
   replicator moves past is in the table, has been given up after three attempts,
   is under way or had been trimmed from the stream (replicator.go:55-61). *)
NoneSkipped ==
  "replicator" \in Readers /\ lastID["replicator"] # Dollar =>
    LET settled == acked[DB] \cup gaveUp[DB]
        busy == IF pc["replicator"] = "post" THEN {cur["replicator"]} ELSE {}
    IN  \A j \in settled, i \in Ids :
          j < i /\ i <= lastID["replicator"] => i \in settled \cup busy \cup trimmed["replicator"]

(* No webhook and no table row gets an update again after it was confirmed, nor more
   than three times: only an attempt without a confirmation is repeated
   (dispatcher.go:77-79, 116, 140-142, replicator.go:56-57, 69-87).  The bound is the
   code's: "for attempt := range 3" is one delivery and two retries, where
   src/README.md:255 announces "3 retries with 1 s backoff", a fourth receipt. *)
ConfirmedOnce ==
  [][\A t \in Targets, i \in Ids :
       seen'[t][i] # seen[t][i] => i \notin acked[t] /\ seen[t][i] < Attempts]_vars

(* Each target receives the updates in the order of the stream, retries included
   (dispatcher.go:76-81, replicator.go:55-61). *)
StreamOrder ==
  [][\A t \in Targets, i, j \in Ids :
       i < j /\ seen'[t][i] > seen[t][i] => seen[t][j] = 0]_vars

(* A failing webhook does not keep the update from the others: when the dispatcher
   has settled an entry, each webhook it was to be handed to has confirmed it or
   has been given up (dispatcher.go:103-108). *)
EveryHookTried ==
  [][\A r \in Readers, t \in Targets :
       t \in todo[r] \ todo'[r] => cur[r] \in acked'[t] \cup gaveUp'[t]]_vars

(* Readers get through: an update in the stream after a reader's position is
   passed, whatever the targets answer, until shutdown (dispatcher.go:47-83). *)
EveryUpdatePassed ==
  \A r \in Readers, i \in Ids :
    (lastID[r] # Dollar /\ i > lastID[r] /\ i <= Len(kinds)) ~> (lastID[r] >= i \/ ctxDone)

(* "only process updates arriving after startup" (dispatcher.go:48): an update that
   arrives after a reader's first XREAD is never behind the position it reads from. *)
AfterStartupRead ==
  \A r \in Readers : pc[r] = "blocked" /\ lastID[r] = Dollar => from[r] = began[r]
==============================================================================
