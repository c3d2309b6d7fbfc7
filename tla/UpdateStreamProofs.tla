------------------------- MODULE UpdateStreamProofs -------------------------
(***************************************************************************)
(* Theorems about UpdateStream, for any webhooks, filters, batch size,     *)
(* length of the stream and number of updates and faults.                  *)
(***************************************************************************)
EXTENDS UpdateStream, TLAPS

(* The dispatcher posts to webhooks, the replicator inserts into the table. *)
TargetsOf(r) == IF r = "replicator" THEN {DB} ELSE Hooks

TypeOK ==
  /\ kinds \in Seq(Types) /\ Len(kinds) \in 0 .. MaxUpdates /\ first \in 1 .. Len(kinds) + 1
  /\ lastID \in [Readers -> Ids \cup {Dollar}]
  /\ pc \in [Readers -> {"top", "blocked", "batch", "post", "stopped"}]
  /\ from \in [Readers -> 0 .. MaxUpdates]
  /\ batch \in [Readers -> Seq(Ids)]
  /\ cur \in [Readers -> Ids \cup {0}]
  /\ todo \in [Readers -> SUBSET Targets]
  /\ target \in [Readers -> Targets]
  /\ tries \in [Readers -> 0 .. Attempts - 1]
  /\ hooks \in SUBSET Hooks
  /\ trimmed \in [Readers -> SUBSET Nat]
  /\ seen \in [Targets -> [Ids -> Nat]]
  /\ acked \in [Targets -> SUBSET Ids]
  /\ gaveUp \in [Targets -> SUBSET Ids]

(* The rest of a batch is a run of entries, and between it and the last entry the
   reader has moved to there are only entries it could not read any more. *)
Reading ==
  \A r \in Readers :
    /\ pc[r] \notin {"batch", "post"} => batch[r] = <<>>
    /\ pc[r] = "blocked" /\ lastID[r] # Dollar => from[r] = lastID[r]
    /\ \A j \in 1 .. Len(batch[r]) : batch[r][j] = batch[r][1] + j - 1
    /\ batch[r] # <<>> /\ lastID[r] # Dollar =>
         /\ lastID[r] < batch[r][1]
         /\ \A i \in Ids : lastID[r] < i /\ i < batch[r][1] => i \in trimmed[r]

(* The entry being handled is the last one, unconfirmed by the targets still to be
   served, and received at most as often as the target under retry was tried. *)
Handling ==
  \A r \in Readers :
    /\ pc[r] # "post" => todo[r] = {}
    /\ pc[r] = "post" => lastID[r] = cur[r] /\ cur[r] \in Ids
    /\ tries[r] > 0 => target[r] \in todo[r]
    /\ \A t \in todo[r] :
         /\ t \in TargetsOf(r) /\ cur[r] \notin acked[t]
         /\ seen[t][cur[r]] <= (IF t = target[r] THEN tries[r] ELSE 0)

(* No target knows of an entry its reader has not come to. *)
Ahead ==
  \A r \in Readers : \A t \in TargetsOf(r), i \in Ids :
    lastID[r] = Dollar \/ i > lastID[r] =>
      seen[t][i] = 0 /\ i \notin acked[t] /\ i \notin gaveUp[t]

(* The entry the replicator handles is settled or still to be inserted. *)
Inserting ==
  "replicator" \in Readers /\ pc["replicator"] = "post" =>
    DB \in todo["replicator"] \/ cur["replicator"] \in acked[DB] \cup gaveUp[DB]

IInv == TypeOK /\ Reading /\ Handling /\ Ahead /\ Inserting /\ NoneSkipped

(* An attempt at a target, which changes what that target knows of the current entry
   and nothing else. *)
Attempt(r, t) == AttemptSucceeds(r, t) \/ AttemptFails(r, t) \/ Abandon(r, t)

-----------------------------------------------------------------------------
LEMMA MaxOfTwo ==
  ASSUME NEW a \in Int, NEW b \in Int
  PROVE  Max({a, b}) \in {a, b} /\ Max({a, b}) >= a /\ Max({a, b}) >= b
<1>1. \E x \in {a, b} : \A y \in {a, b} : x >= y
  OBVIOUS
<1> QED
  BY <1>1, Zenon DEF Max

LEMMA MinOfTwo ==
  ASSUME NEW a \in Int, NEW b \in Int
  PROVE  Min({a, b}) \in {a, b} /\ Min({a, b}) <= a /\ Min({a, b}) <= b
<1>1. \E x \in {a, b} : \A y \in {a, b} : x <= y
  OBVIOUS
<1> QED
  BY <1>1, Zenon DEF Min

LEMMA Constants ==
  /\ Count \in Nat \ {0} /\ MaxLen \in Nat \ {0} /\ MaxUpdates \in Nat /\ MaxFaults \in Nat
  /\ Ids \subseteq Nat \ {0} /\ Dollar \in Nat /\ Dollar \notin Ids /\ \A i \in Ids : i < Dollar
  /\ Readers \subseteq {"dispatcher", "replicator"}
  BY StreamAssumption DEF Ids, Dollar

(* The targets of the two readers differ. *)
LEMMA TargetsApart ==
  ASSUME NEW r \in Readers, NEW o \in Readers, o # r, NEW t \in TargetsOf(r)
  PROVE  t \in Targets /\ t \notin TargetsOf(o)
  BY StreamAssumption, Zenon DEF TargetsOf, Targets

(* The webhooks and the table an entry is handed to are targets of the reader. *)
LEMMA RecipientsAreTargets ==
  ASSUME NEW r \in Readers, NEW i, hooks \subseteq Hooks
  PROVE  Recipients(r, i) \subseteq TargetsOf(r) /\ TargetsOf(r) \subseteq Targets
  BY Zenon DEF Recipients, TargetsOf, Targets

-----------------------------------------------------------------------------
LEMMA OneAdded ==
  ASSUME NEW f \in [Targets -> SUBSET Ids], NEW g, NEW t \in Targets, NEW i \in Ids,
         g = f \/ g = [f EXCEPT ![t] = @ \cup {i}]
  PROVE  /\ g \in [Targets -> SUBSET Ids]
         /\ \A u \in Targets : g[u] = f[u] \/ (u = t /\ g[u] = f[u] \cup {i})
<1>1. CASE g = f
  BY <1>1, Zenon
<1>2. CASE g = [f EXCEPT ![t] = @ \cup {i}]
  <2>1. f[t] \cup {i} \in SUBSET Ids
    BY Zenon
  <2> QED
    BY <1>2, <2>1, Zenon
<1> QED
  BY <1>1, <1>2, Zenon

LEMMA AttemptFacts ==
  ASSUME NEW r \in Readers, NEW t \in Targets, IInv, Attempt(r, t)
  PROVE  /\ pc[r] = "post" /\ t \in todo[r] /\ t \in TargetsOf(r) /\ cur[r] \in Ids
         /\ lastID[r] = cur[r] /\ cur[r] \notin acked[t] /\ seen[t][cur[r]] <= tries[r]
         /\ UNCHANGED <<kinds, first, readVars, cur, hooks>>
         /\ \A u \in Targets, k \in Ids :
              \/ seen'[u][k] = seen[u][k]
              \/ u = t /\ k = cur[r] /\ seen'[u][k] = seen[u][k] + 1
         /\ \A u \in Targets :
              /\ acked'[u] = acked[u] \/ (u = t /\ acked'[u] = acked[u] \cup {cur[r]})
              /\ gaveUp'[u] = gaveUp[u] \/ (u = t /\ gaveUp'[u] = gaveUp[u] \cup {cur[r]})
         /\ seen' \in [Targets -> [Ids -> Nat]] /\ acked' \in [Targets -> SUBSET Ids]
         /\ gaveUp' \in [Targets -> SUBSET Ids]
<1>1. TypeOK /\ MayAttempt(r, t)
  BY Zenon DEF IInv, AttemptSucceeds, AttemptFails, Abandon, Attempt
<1>2. /\ pc[r] = "post" /\ t \in todo[r] /\ t \in TargetsOf(r) /\ cur[r] \in Ids
      /\ lastID[r] = cur[r] /\ cur[r] \notin acked[t]
  BY <1>1, Zenon DEF IInv, Handling, MayAttempt
<1>3. seen[t][cur[r]] <= tries[r]
  <2>1. tries[r] \in Nat /\ seen[t][cur[r]] \in Nat
    <3>1. tries[r] \in 0 .. Attempts - 1 /\ seen[t] \in [Ids -> Nat]
      BY <1>1, Zenon DEF TypeOK
    <3> QED
      BY <1>2, <3>1 DEF Attempts
  <2>2. seen[t][cur[r]] <= (IF t = target[r] THEN tries[r] ELSE 0)
    BY <1>2, Zenon DEF IInv, Handling
  <2> QED
    BY <2>1, <2>2
<1>4. UNCHANGED <<kinds, first, readVars, cur, hooks>>
  BY Zenon DEF AttemptSucceeds, AttemptFails, Abandon, Attempt
<1>5. /\ seen' \in [Targets -> [Ids -> Nat]]
      /\ \A u \in Targets, k \in Ids :
           \/ seen'[u][k] = seen[u][k]
           \/ u = t /\ k = cur[r] /\ seen'[u][k] = seen[u][k] + 1
  <2>1. CASE seen' = seen
    BY <1>1, <2>1, Zenon DEF TypeOK
  <2>2. CASE Received(t, cur[r])
    <3> DEFINE f == [j \in Ids |-> IF j = cur[r] THEN seen[t][j] + 1 ELSE seen[t][j]]
    <3>1. f \in [Ids -> Nat]
      BY <1>1 DEF TypeOK
    <3>2. \A k \in Ids : f[k] = seen[t][k] \/ (k = cur[r] /\ f[k] = seen[t][k] + 1)
      BY Zenon
    <3> HIDE DEF f
    <3>3. seen' = [seen EXCEPT ![t] = f]
      BY <2>2, Zenon DEF Received, f
    <3> QED
      BY <1>1, <3>1, <3>2, <3>3, Zenon DEF TypeOK
  <2> QED
    BY <2>1, <2>2, Zenon DEF AttemptSucceeds, AttemptFails, Abandon, Attempt
<1>6. /\ acked' \in [Targets -> SUBSET Ids]
      /\ \A u \in Targets : acked'[u] = acked[u] \/ (u = t /\ acked'[u] = acked[u] \cup {cur[r]})
  <2>1. acked' = acked \/ acked' = [acked EXCEPT ![t] = @ \cup {cur[r]}]
    BY Zenon DEF AttemptSucceeds, AttemptFails, Abandon, Attempt
  <2>2. acked \in [Targets -> SUBSET Ids]
    BY <1>1, Zenon DEF TypeOK
  <2> QED
    BY <1>2, <2>1, <2>2, OneAdded
<1>7. /\ gaveUp' \in [Targets -> SUBSET Ids]
      /\ \A u \in Targets : gaveUp'[u] = gaveUp[u] \/ (u = t /\ gaveUp'[u] = gaveUp[u] \cup {cur[r]})
  <2>1. gaveUp' = gaveUp \/ gaveUp' = [gaveUp EXCEPT ![t] = @ \cup {cur[r]}]
    BY Zenon DEF AttemptSucceeds, AttemptFails, Abandon, GiveUp, Attempt
  <2>2. gaveUp \in [Targets -> SUBSET Ids]
    BY <1>1, Zenon DEF TypeOK
  <2> QED
    BY <1>2, <2>1, <2>2, OneAdded
<1> QED
  BY <1>2, <1>3, <1>4, <1>5, <1>6, <1>7, Zenon

(* The target is done with, confirmed or given up, or it stays under retry. *)
LEMMA AttemptOutcome ==
  ASSUME NEW r \in Readers, NEW t \in Targets, IInv, Attempt(r, t)
  PROVE  \/ /\ todo' = [todo EXCEPT ![r] = @ \ {t}] /\ tries' = [tries EXCEPT ![r] = 0]
            /\ target' = [target EXCEPT ![r] = DB]
            /\ cur[r] \in acked'[t] \cup gaveUp'[t]
         \/ /\ tries[r] + 1 < Attempts /\ UNCHANGED <<todo, acked, gaveUp>>
            /\ tries' = [tries EXCEPT ![r] = @ + 1] /\ target' = [target EXCEPT ![r] = t]
            /\ tries[r] > 0 => t = target[r]
<1>1. CASE AttemptSucceeds(r, t)
  BY <1>1, Zenon DEF AttemptSucceeds, TypeOK, IInv, TargetDone
<1>2. CASE AttemptFails(r, t)
  BY <1>2 DEF AttemptFails, TypeOK, IInv, GiveUp, TargetDone, MayAttempt
<1>3. CASE Abandon(r, t)
  BY <1>3, Zenon DEF Abandon, TypeOK, IInv, GiveUp, TargetDone
<1> QED
  BY <1>1, <1>2, <1>3, Zenon DEF Attempt

LEMMA AttemptIInv ==
  ASSUME NEW r \in Readers, NEW t \in Targets, IInv, Attempt(r, t)
  PROVE  IInv'
<1>1. /\ pc[r] = "post" /\ t \in todo[r] /\ t \in TargetsOf(r) /\ cur[r] \in Ids
      /\ lastID[r] = cur[r] /\ cur[r] \notin acked[t] /\ seen[t][cur[r]] <= tries[r]
  BY AttemptFacts, Zenon
<1>2. UNCHANGED <<kinds, first, lastID, pc, from, batch, trimmed, cur, hooks>>
  BY AttemptFacts, Zenon DEF readVars
<1>3. /\ seen' \in [Targets -> [Ids -> Nat]] /\ acked' \in [Targets -> SUBSET Ids]
      /\ gaveUp' \in [Targets -> SUBSET Ids]
  BY AttemptFacts, Zenon
<1>4. \A u \in Targets, k \in Ids :
        \/ seen'[u][k] = seen[u][k]
        \/ u = t /\ k = cur[r] /\ seen'[u][k] = seen[u][k] + 1
  BY AttemptFacts
<1>5. \A u \in Targets :
        /\ acked'[u] = acked[u] \/ (u = t /\ acked'[u] = acked[u] \cup {cur[r]})
        /\ gaveUp'[u] = gaveUp[u] \/ (u = t /\ gaveUp'[u] = gaveUp[u] \cup {cur[r]})
  BY AttemptFacts, ZenonT(60)
<1>6. \/ /\ todo' = [todo EXCEPT ![r] = @ \ {t}] /\ tries' = [tries EXCEPT ![r] = 0]
         /\ target' = [target EXCEPT ![r] = DB]
         /\ cur[r] \in acked'[t] \cup gaveUp'[t]
      \/ /\ tries[r] + 1 < Attempts /\ UNCHANGED <<todo, acked, gaveUp>>
         /\ tries' = [tries EXCEPT ![r] = @ + 1] /\ target' = [target EXCEPT ![r] = t]
         /\ tries[r] > 0 => t = target[r]
  BY AttemptOutcome, Zenon
<1>7. DB \in Targets /\ tries[r] \in Nat /\ \A o \in Readers : TargetsOf(o) \subseteq Targets
  <2>1. tries[r] \in 0 .. Attempts - 1
    BY Zenon DEF TypeOK, IInv
  <2> QED
    BY <2>1 DEF Targets, TargetsOf, Attempts
<1>8. TypeOK'
  <2>1. todo' = todo \/ todo' = [todo EXCEPT ![r] = @ \ {t}]
    BY <1>6, Zenon
  <2>2. todo' \in [Readers -> SUBSET Targets]
    BY <2>1, Constants, SMTT(60) DEF TypeOK, IInv
  <2>3. \E u \in Targets : target' = [target EXCEPT ![r] = u]
    BY <1>6, <1>7, Zenon
  <2>4. target' \in [Readers -> Targets]
    BY <2>3, Zenon DEF TypeOK, IInv
  <2>5. \E n \in 0 .. Attempts - 1 : tries' = [tries EXCEPT ![r] = n]
    BY <1>6, <1>7 DEF Attempts
  <2>6. tries' \in [Readers -> 0 .. Attempts - 1]
    BY <2>5, Constants DEF TypeOK, IInv
  <2> QED
    BY <1>2, <1>3, <2>2, <2>4, <2>6, Zenon DEF TypeOK, IInv
<1>9. Reading'
  BY <1>2, Zenon DEF Reading, IInv
<1>10. Handling'
  <2> SUFFICES ASSUME NEW o \in Readers
               PROVE  /\ pc[o] # "post" => todo'[o] = {}
                      /\ pc[o] = "post" => lastID[o] = cur[o] /\ cur[o] \in Ids
                      /\ tries'[o] > 0 => target'[o] \in todo'[o]
                      /\ \A u \in todo'[o] :
                           /\ u \in TargetsOf(o) /\ cur[o] \notin acked'[u]
                           /\ seen'[u][cur[o]] <= (IF u = target'[o] THEN tries'[o] ELSE 0)
    BY <1>2, Zenon DEF Handling
  <2>1. CASE o # r
    <3>1. todo'[o] = todo[o] /\ tries'[o] = tries[o] /\ target'[o] = target[o]
      BY <1>6, <2>1, ZenonT(60) DEF TypeOK, IInv
    <3>2. ASSUME NEW u \in todo[o]
          PROVE  u \in Targets /\ u # t /\ acked'[u] = acked[u] /\ seen'[u][cur[o]] = seen[u][cur[o]]
      <4>1. u \in TargetsOf(o) /\ cur[o] \in Ids
        BY Zenon DEF Handling, IInv
      <4>2. u \in Targets /\ u # t
        BY <1>1, <2>1, <4>1, TargetsApart, Zenon
      <4> QED
        BY <1>4, <1>5, <4>1, <4>2, Zenon
    <3>3. /\ pc[o] # "post" => todo[o] = {}
          /\ pc[o] = "post" => lastID[o] = cur[o] /\ cur[o] \in Ids
          /\ tries[o] > 0 => target[o] \in todo[o]
          /\ \A u \in todo[o] :
               /\ u \in TargetsOf(o) /\ cur[o] \notin acked[u]
               /\ seen[u][cur[o]] <= (IF u = target[o] THEN tries[o] ELSE 0)
      BY Zenon DEF Handling, IInv
    <3> QED
      BY <3>1, <3>2, <3>3, Zenon
  <2>2. CASE o = r /\ todo' = [todo EXCEPT ![r] = @ \ {t}] /\ tries' = [tries EXCEPT ![r] = 0]
                     /\ target' = [target EXCEPT ![r] = DB]
    <3>1. todo'[r] = todo[r] \ {t} /\ tries'[r] = 0
      BY <2>2, Zenon DEF TypeOK, IInv
    <3>2. tries[r] > 0 => target[r] = t
      BY Zenon DEF Attempt, AttemptSucceeds, AttemptFails, Abandon, MayAttempt
    <3>3. ASSUME NEW u \in todo'[r]
          PROVE  u \in TargetsOf(r) /\ cur[r] \notin acked'[u] /\ seen'[u][cur[r]] <= 0
      <4>1. u \in TargetsOf(r) /\ cur[r] \notin acked[u] /\ u # t /\ u \in Targets
        BY <1>7, <3>1, Zenon DEF Handling, IInv
      <4>2. seen[u][cur[r]] <= (IF u = target[r] THEN tries[r] ELSE 0)
        BY <3>1, Zenon DEF Handling, IInv
      <4>3. seen[u][cur[r]] <= 0
        BY <1>7, <3>2, <4>1, <4>2
      <4> QED
        BY <1>1, <1>4, <1>5, <4>1, <4>3, Zenon
    <3> QED
      BY <1>1, <2>2, <3>1, <3>3
  <2>3. CASE /\ o = r /\ UNCHANGED <<todo, acked, gaveUp>>
             /\ tries' = [tries EXCEPT ![r] = @ + 1] /\ target' = [target EXCEPT ![r] = t]
             /\ tries[r] > 0 => t = target[r]
    <3>1. tries'[r] = tries[r] + 1 /\ target'[r] = t
      BY <2>3, Zenon DEF TypeOK, IInv
    <3>2. ASSUME NEW u \in todo[r]
          PROVE  /\ u \in TargetsOf(r) /\ cur[r] \notin acked[u]
                 /\ seen'[u][cur[r]] <= (IF u = t THEN tries[r] + 1 ELSE 0)
      <4>1. u \in TargetsOf(r) /\ cur[r] \notin acked[u] /\ u \in Targets
        BY <1>7, Zenon DEF Handling, IInv
      <4>2. seen[u][cur[r]] <= (IF u = target[r] THEN tries[r] ELSE 0)
        BY Zenon DEF Handling, IInv
      <4>3. seen[u][cur[r]] \in Nat
        <5>1. seen[u] \in [Ids -> Nat]
          BY <4>1, Zenon DEF TypeOK, IInv
        <5> QED
          BY <1>1, <5>1, Zenon
      <4>4. CASE u = t
        <5>1. seen'[u][cur[r]] = seen[u][cur[r]] \/ seen'[u][cur[r]] = seen[u][cur[r]] + 1
          BY <1>1, <1>4, <4>1, Zenon
        <5> QED
          BY <1>1, <1>7, <4>3, <4>4, <5>1
      <4>5. CASE u # t
        <5>1. seen'[u][cur[r]] = seen[u][cur[r]]
          BY <1>1, <1>4, <4>1, <4>5, Zenon
        <5> QED
          BY <1>7, <2>3, <4>1, <4>2, <4>5, <5>1
      <4> QED
        BY <4>4, <4>5, Zenon
    <3> QED
      BY <1>1, <2>3, <3>1, <3>2, Zenon
  <2> QED
    BY <1>6, <2>1, <2>2, <2>3, Zenon
<1>11. Ahead'
  <2> SUFFICES ASSUME NEW o \in Readers, NEW u \in TargetsOf(o), NEW k \in Ids,
                      lastID[o] = Dollar \/ k > lastID[o]
               PROVE  seen'[u][k] = 0 /\ k \notin acked'[u] /\ k \notin gaveUp'[u]
    BY <1>2, Zenon DEF Ahead
  <2>1. u \in Targets /\ seen[u][k] = 0 /\ k \notin acked[u] /\ k \notin gaveUp[u]
    BY <1>7, Zenon DEF Ahead, IInv
  <2>2. u # t \/ k # cur[r]
    <3>1. CASE o = r
      BY <1>1, <3>1, Constants
    <3>2. CASE o # r
      BY <1>1, <3>2, TargetsApart, Zenon
    <3> QED
      BY <3>1, <3>2, Zenon
  <2> QED
    BY <1>4, <1>5, <2>1, <2>2
<1>12. acked[DB] \subseteq acked'[DB] /\ gaveUp[DB] \subseteq gaveUp'[DB]
  BY <1>5, <1>7, Zenon
<1>13. Inserting'
  <2> SUFFICES ASSUME "replicator" \in Readers, pc["replicator"] = "post"
               PROVE  DB \in todo'["replicator"] \/ cur["replicator"] \in acked'[DB] \cup gaveUp'[DB]
    BY <1>2, Zenon DEF Inserting
  <2>1. CASE r # "replicator"
    <3>1. todo'["replicator"] = todo["replicator"]
      BY <1>6, <2>1, Zenon DEF TypeOK, IInv
    <3> QED
      BY <1>12, <3>1, Zenon DEF Inserting, IInv
  <2>2. CASE r = "replicator"
    <3>1. t = DB
      BY <1>1, <2>2, Zenon DEF TargetsOf
    <3> QED
      BY <1>1, <1>6, <2>2, <3>1, Zenon
  <2> QED
    BY <2>1, <2>2, Zenon
<1>14. NoneSkipped'
  <2> DEFINE settled == acked[DB] \cup gaveUp[DB]
             settledNext == acked'[DB] \cup gaveUp'[DB]
             busy == IF pc["replicator"] = "post" THEN {cur["replicator"]} ELSE {}
  <2> SUFFICES ASSUME "replicator" \in Readers, lastID["replicator"] # Dollar,
                      NEW j \in settledNext, NEW i \in Ids, j < i, i <= lastID["replicator"]
               PROVE  i \in settledNext \cup busy \cup trimmed["replicator"]
    BY <1>2, Zenon DEF NoneSkipped
  <2>1. CASE j \in settled
    <3>1. i \in settled \cup busy \cup trimmed["replicator"]
      BY <2>1, Zenon DEF NoneSkipped, IInv
    <3> QED
      BY <1>12, <3>1, Zenon
  <2>2. CASE j \notin settled
    <3>1. t = DB /\ j = cur[r]
      BY <1>5, <1>7, <2>2
    <3>2. r = "replicator"
      BY <1>1, <3>1, StreamAssumption, Zenon DEF TargetsOf
    <3>3. j = lastID["replicator"] /\ j \in Nat /\ i \in Nat
      BY <1>1, <3>1, <3>2, Constants, Zenon
    <3> QED
      BY <3>3
  <2> QED
    BY <2>1, <2>2, Zenon
<1> QED
  BY <1>8, <1>9, <1>10, <1>11, <1>13, <1>14, Zenon DEF IInv

(* What a target has received, and the targets an entry is still to be handed to,
   change only as follows. *)
LEMMA StepOfTargets ==
  ASSUME IInv, [Next]_vars
  PROVE  \/ \E r \in Readers, t \in Targets : Attempt(r, t)
         \/ UNCHANGED seen /\ \A r \in Readers : todo[r] \subseteq todo'[r]
<1>1. ASSUME NEW r \in Readers, Take(r)
      PROVE  UNCHANGED seen /\ \A o \in Readers : todo[o] \subseteq todo'[o]
  <2>1. todo[r] = {} /\ seen' = seen
    BY <1>1, Zenon DEF Take, Goes, IInv, Handling
  <2>2. \A o \in Readers \ {r} : todo'[o] = todo[o]
    BY <1>1, Zenon DEF Take, IInv, TypeOK
  <2> QED
    BY <2>1, <2>2, Zenon
<1>2. ASSUME NEW r \in Readers,
             \/ Stop(r) \/ XRead(r) \/ XReadReturns(r) \/ XReadFails(r) \/ XReadCancelled(r)
             \/ ListFails(r) \/ BatchEnds(r) \/ EntryDone(r)
      PROVE  UNCHANGED <<seen, todo>>
  BY <1>2, Zenon DEF Stop, XRead, XReadReturns, XReadFails, XReadCancelled, ListFails,
       BatchEnds, EntryDone, postVars
<1>3. ASSUME \/ \E k \in Types : Publish(k)
             \/ \E h \in Hooks : Created(h) \/ Deleted(h)
             \/ Cancel \/ UNCHANGED vars
      PROVE  UNCHANGED <<seen, todo>>
  BY <1>3, Zenon DEF Publish, Created, Deleted, Cancel, vars, postVars
<1> QED
  BY <1>1, <1>2, <1>3, Zenon DEF Next, ReaderStep, Attempt

(* A target that receives an entry has not confirmed it, and has attempts left. *)
LEMMA OnceStep ==
  ASSUME IInv, [Next]_vars, NEW t \in Targets, NEW i \in Ids, seen'[t][i] # seen[t][i]
  PROVE  i \notin acked[t] /\ seen[t][i] < Attempts
<1>1. PICK r \in Readers, u \in Targets : Attempt(r, u)
  BY StepOfTargets, Zenon
<1>2. u = t /\ i = cur[r]
  BY <1>1, AttemptFacts
<1>3. cur[r] \notin acked[t] /\ seen[t][cur[r]] <= tries[r]
  BY <1>1, <1>2, AttemptFacts, Zenon
<1>4. tries[r] \in 0 .. Attempts - 1 /\ seen[t] \in [Ids -> Nat]
  BY Zenon DEF IInv, TypeOK
<1> QED
  BY <1>2, <1>3, <1>4 DEF Attempts

(* The later entries are unknown to a target that receives an entry. *)
LEMMA OrderStep ==
  ASSUME IInv, [Next]_vars, NEW t \in Targets, NEW i \in Ids, NEW j \in Ids,
         i < j, seen'[t][i] > seen[t][i]
  PROVE  seen[t][j] = 0
<1>1. seen[t][i] \in Nat
  BY Zenon DEF IInv, TypeOK
<1>2. seen'[t][i] # seen[t][i]
  BY <1>1
<1>3. PICK r \in Readers, u \in Targets : Attempt(r, u)
  BY <1>2, StepOfTargets, Zenon
<1>4. u = t /\ i = cur[r]
  BY <1>2, <1>3, AttemptFacts
<1>5. t \in TargetsOf(r) /\ lastID[r] = i
  BY <1>3, <1>4, AttemptFacts, Zenon
<1>6. j > lastID[r]
  BY <1>5, Constants, Zenon
<1> QED
  BY <1>5, <1>6, Zenon DEF IInv, Ahead

(* A target that an entry need not be handed to any more has confirmed it, or was given
   up. *)
LEMMA TriedStep ==
  ASSUME IInv, [Next]_vars, NEW r \in Readers, NEW t \in Targets, t \in todo[r] \ todo'[r]
  PROVE  cur[r] \in acked'[t] \cup gaveUp'[t]
<1>1. PICK o \in Readers, u \in Targets : Attempt(o, u)
  BY StepOfTargets, Zenon
<1>2. todo' # todo
  BY Zenon
<1>3. todo' = [todo EXCEPT ![o] = @ \ {u}] /\ cur[o] \in acked'[u] \cup gaveUp'[u]
  BY <1>1, <1>2, AttemptOutcome, Zenon
<1>4. o = r /\ u = t
  BY <1>3, Zenon DEF IInv, TypeOK
<1> QED
  BY <1>3, <1>4, Zenon

-----------------------------------------------------------------------------
LEMMA InitIInv == Init => IInv
<1> SUFFICES ASSUME Init PROVE IInv
  BY Zenon
<1>1. TypeOK
  <2>1. kinds \in Seq(Types) /\ Len(kinds) = 0 /\ <<>> \in Seq(Ids)
    BY DEF Init
  <2>2. 0 \in 0 .. Attempts - 1
    BY DEF Attempts
  <2> QED
    BY <2>1, <2>2, Constants DEF TypeOK, Targets, Init
<1>2. Reading
  BY DEF Reading, Init
<1>3. Handling
  BY DEF Handling, Init
<1>4. Ahead
  BY Zenon DEF Ahead, TargetsOf, Targets, Init
<1>5. Inserting /\ NoneSkipped
  BY Zenon DEF Inserting, NoneSkipped, Init
<1> QED
  BY <1>1, <1>2, <1>3, <1>4, <1>5, Zenon DEF IInv

(* Updates are published, webhooks come and go, main shuts down. *)
LEMMA EnvironmentIInv ==
  ASSUME IInv,
         \/ \E k \in Types : Publish(k)
         \/ \E h \in Hooks : Created(h) \/ Deleted(h)
         \/ Cancel \/ UNCHANGED vars
  PROVE  IInv'
<1>1. UNCHANGED <<readVars, postVars>>
  BY Zenon DEF Publish, Created, Deleted, Cancel, vars
<1>2. hooks' \in SUBSET Hooks
  BY Zenon DEF Publish, Created, Deleted, InsertHook, DeleteHook, Cancel, vars, TypeOK, IInv
<1>3. kinds' \in Seq(Types) /\ Len(kinds') \in 0 .. MaxUpdates /\ first' \in 1 .. Len(kinds') + 1
  <2>1. CASE UNCHANGED <<kinds, first>>
    BY <2>1, Zenon DEF TypeOK, IInv
  <2>2. ASSUME NEW k \in Types, Publish(k)
        PROVE  /\ kinds' \in Seq(Types) /\ Len(kinds') \in 0 .. MaxUpdates
               /\ first' \in 1 .. Len(kinds') + 1
    <3> DEFINE n == Len(kinds)
               b == n + 2 - MaxLen
    <3>1. kinds' \in Seq(Types) /\ Len(kinds') = n + 1 /\ n \in Nat /\ n < MaxUpdates
      BY <2>2 DEF Publish, TypeOK, IInv
    <3>2. first \in Nat /\ 1 <= first /\ first <= n + 1
      BY <3>1 DEF TypeOK, IInv
    <3>3. b \in Int /\ b <= n + 1
      BY <3>1, Constants
    <3>4. first' \in first .. Max({first, b})
      BY <2>2, Zenon DEF Publish
    <3> HIDE DEF n, b
    <3>5. Max({first, b}) \in Int /\ Max({first, b}) <= n + 1
      <4>1. first \in Int /\ b \in Int
        BY <3>2, <3>3
      <4>2. Max({first, b}) \in {first, b}
        BY <4>1, MaxOfTwo, Zenon
      <4> QED
        BY <3>1, <3>2, <3>3, <4>2
    <3>6. first' \in 1 .. n + 2
      BY <3>1, <3>2, <3>4, <3>5
    <3> QED
      BY <3>1, <3>6, Constants
  <2> QED
    BY <2>1, <2>2, Zenon DEF Created, Deleted, Cancel, vars
<1>4. TypeOK'
  BY <1>1, <1>2, <1>3, Zenon DEF TypeOK, readVars, postVars, IInv
<1>5. Reading' /\ Handling' /\ Ahead' /\ Inserting' /\ NoneSkipped'
  <2>1. UNCHANGED <<lastID, pc, from, batch, trimmed>>
    BY <1>1, Zenon DEF readVars
  <2>2. UNCHANGED <<cur, todo, target, tries, seen, acked, gaveUp>>
    BY <1>1, Zenon DEF postVars
  <2>3. Reading'
    BY <2>1, Zenon DEF Reading, IInv
  <2>4. Handling'
    BY <2>1, <2>2, Zenon DEF Handling, IInv
  <2>5. Ahead'
    BY <2>1, <2>2, Zenon DEF Ahead, IInv
  <2>6. Inserting' /\ NoneSkipped'
    BY <2>1, <2>2, Zenon DEF Inserting, NoneSkipped, IInv
  <2> QED
    BY <2>3, <2>4, <2>5, <2>6, Zenon
<1> QED
  BY <1>4, <1>5, Zenon DEF IInv

-----------------------------------------------------------------------------
(* A step of Run outside the batch, or to the next entry of it. *)
LEMMA IdleIInv ==
  ASSUME NEW r \in Readers, IInv,
         \/ Stop(r) \/ XRead(r) \/ XReadFails(r) \/ XReadCancelled(r)
         \/ BatchEnds(r) \/ EntryDone(r)
  PROVE  IInv'
<1> DEFINE PCs == {"top", "blocked", "batch", "post", "stopped"}
           Quiet == UNCHANGED <<kinds, first, lastID, batch, trimmed, postVars, hooks>>
           Moved(at, to) ==
             /\ Goes(r, at, to) /\ at \in PCs /\ to \in PCs \ {"post"}
             /\ at = "batch" => batch[r] = <<>>
             /\ at = "post" => to = "batch" /\ todo[r] = {}
             /\ to = "batch" => at = "post"
             /\ XRead(r) \/ (from' = from /\ to # "blocked")
<1>1. Quiet /\ \E at, to : Moved(at, to)
  <2>1. CASE Stop(r)
    <3>1. Quiet /\ Moved("top", "stopped")
      BY <2>1, Zenon DEF Stop
    <3> QED
      BY <3>1, Zenon
  <2>2. CASE XRead(r)
    <3>1. Quiet /\ Moved("top", "blocked")
      BY <2>2, Zenon DEF XRead
    <3> QED
      BY <3>1, Zenon
  <2>3. CASE XReadFails(r)
    <3>1. Quiet /\ Moved("blocked", IF ctxDone THEN "stopped" ELSE "top")
      BY <2>3, Zenon DEF XReadFails
    <3> QED
      BY <3>1, Zenon
  <2>4. CASE XReadCancelled(r)
    <3>1. Quiet /\ Moved("blocked", "stopped")
      BY <2>4, Zenon DEF XReadCancelled
    <3> QED
      BY <3>1, Zenon
  <2>5. CASE BatchEnds(r)
    <3>1. Quiet /\ Moved("batch", "top")
      BY <2>5, Zenon DEF BatchEnds
    <3> QED
      BY <3>1, Zenon
  <2>6. CASE EntryDone(r)
    <3>1. Quiet /\ Moved("post", "batch")
      BY <2>6, Zenon DEF EntryDone
    <3> QED
      BY <3>1, Zenon
  <2> HIDE DEF Quiet, Moved
  <2> QED
    BY <2>1, <2>2, <2>3, <2>4, <2>5, <2>6, Zenon
<1>2. PICK at, to : Moved(at, to)
  BY <1>1, Zenon
<1>3. UNCHANGED <<kinds, first, lastID, batch, trimmed, cur, todo, target, tries, seen, acked, gaveUp, hooks>>
  BY <1>1, Zenon DEF postVars
<1>4. /\ at \in PCs /\ to \in PCs \ {"post"}
      /\ at = "batch" => batch[r] = <<>>
      /\ at = "post" => to = "batch" /\ todo[r] = {}
      /\ to = "batch" => at = "post"
  BY <1>2, Zenon
<1>5. /\ pc' \in [Readers -> PCs] /\ pc[r] = at /\ pc'[r] = to
      /\ \A o \in Readers \ {r} : pc'[o] = pc[o]
  BY <1>2, Zenon DEF Goes, TypeOK, IInv
<1>6. /\ from' \in [Readers -> 0 .. MaxUpdates]
      /\ \A o \in Readers \ {r} : from'[o] = from[o]
      /\ to = "blocked" /\ lastID[r] # Dollar => from'[r] = lastID[r]
  <2>1. from \in [Readers -> 0 .. MaxUpdates]
    BY Zenon DEF TypeOK, IInv
  <2>2. CASE from' = from /\ to # "blocked"
    BY <2>1, <2>2, Zenon
  <2>3. CASE XRead(r)
    <3> DEFINE f == IF lastID[r] = Dollar THEN Len(kinds) ELSE lastID[r]
    <3>1. f \in 0 .. MaxUpdates
      BY DEF TypeOK, Ids, IInv
    <3>2. lastID[r] # Dollar => f = lastID[r]
      BY Zenon
    <3> HIDE DEF f
    <3>3. from' = [from EXCEPT ![r] = f]
      BY <2>3, Zenon DEF f, XRead
    <3> QED
      BY <2>1, <3>1, <3>2, <3>3, Zenon
  <2> QED
    BY <1>2, <2>2, <2>3, Zenon
<1> HIDE DEF Quiet, Moved
<1>7. TypeOK'
  BY <1>3, <1>5, <1>6, Zenon DEF TypeOK, IInv
<1>8. Reading'
  <2>1. pc'[r] \notin {"batch", "post"} => batch[r] = <<>>
    BY <1>4, <1>5, Zenon DEF Reading, IInv
  <2> QED
    BY <1>3, <1>5, <1>6, <2>1, ZenonT(60) DEF Reading, IInv
<1>9. Handling'
  <2>1. pc'[r] # "post" /\ todo[r] = {}
    BY <1>4, <1>5, Zenon DEF Handling, IInv
  <2> QED
    BY <1>3, <1>5, <2>1, Zenon DEF Handling, IInv
<1>10. Ahead'
  BY <1>3, ZenonT(60) DEF Ahead, IInv
<1>11. Inserting' /\ NoneSkipped'
  <2>1. "replicator" \in Readers /\ pc'["replicator"] # pc["replicator"] => r = "replicator"
    BY <1>5, Zenon
  <2>2. pc'[r] # "post" /\ (pc[r] = "post" => todo[r] = {})
    BY <1>4, <1>5, Zenon
  <2>3. Inserting'
    BY <1>3, <2>1, <2>2, Zenon DEF Inserting, IInv
  <2>4. CASE r = "replicator" /\ pc[r] = "post"
    <3>1. cur["replicator"] \in acked[DB] \cup gaveUp[DB]
      BY <2>2, <2>4, Zenon DEF Inserting, IInv
    <3> QED
      BY <1>3, <2>3, <3>1, Zenon DEF NoneSkipped, IInv
  <2>5. CASE "replicator" \in Readers => (pc'["replicator"] = "post" <=> pc["replicator"] = "post")
    BY <1>3, <2>3, <2>5, Zenon DEF NoneSkipped, IInv
  <2> QED
    BY <2>1, <2>2, <2>4, <2>5, Zenon
<1> QED
  BY <1>7, <1>8, <1>9, <1>10, <1>11, Zenon DEF IInv

(* XREAD answers: the entries after from that the stream still holds. *)
LEMMA XReadReturnsIInv == ASSUME NEW r \in Readers, IInv, XReadReturns(r) PROVE IInv'
<1> DEFINE n == Len(kinds)
           lo == Max({from[r] + 1, first})
           len == Min({Count, n + 1 - lo})
           q == [j \in 1 .. len |-> lo + j - 1]
           gap == from[r] + 1 .. lo - 1
<1>1. /\ n > from[r] /\ pc[r] = "blocked" /\ pc' = [pc EXCEPT ![r] = "batch"]
      /\ batch' = [batch EXCEPT ![r] = q] /\ trimmed' = [trimmed EXCEPT ![r] = @ \cup gap]
      /\ UNCHANGED <<kinds, first, lastID, from, postVars, hooks>>
  BY Zenon DEF XReadReturns, Goes
<1>2. n \in 0 .. MaxUpdates /\ from[r] \in 0 .. MaxUpdates /\ first \in 1 .. n + 1
  BY Zenon DEF TypeOK, IInv
<1> HIDE DEF n
<1>3. lo \in from[r] + 1 .. n + 1
  <2>1. from[r] + 1 \in Int /\ first \in Int
    BY <1>2
  <2>2. lo \in {from[r] + 1, first} /\ lo >= from[r] + 1
    BY <2>1, MaxOfTwo, Zenon
  <2> HIDE DEF lo
  <2> QED
    BY <1>1, <1>2, <2>2
<1> HIDE DEF lo
<1>4. len \in Nat /\ len <= n + 1 - lo
  <2>1. Count \in Nat /\ n + 1 - lo \in Nat
    BY <1>2, <1>3, Constants
  <2>2. len \in {Count, n + 1 - lo} /\ len <= n + 1 - lo
    BY <2>1, MinOfTwo
  <2> HIDE DEF len
  <2> QED
    BY <2>1, <2>2, Zenon
<1> HIDE DEF len
<1>5. q \in Seq(Ids) /\ Len(q) = len
  BY <1>2, <1>3, <1>4, Constants DEF Ids
<1>6. \A j \in 1 .. Len(q) : q[j] = lo + j - 1
  BY <1>5, Zenon
<1>7. gap \subseteq Nat
  BY <1>2, <1>3
<1> HIDE DEF q
<1>8. TypeOK'
  BY <1>1, <1>5, <1>7, Zenon DEF TypeOK, postVars, IInv
<1>9. Reading'
  <2>1. /\ batch'[r] = q /\ pc'[r] = "batch" /\ trimmed'[r] = trimmed[r] \cup gap
        /\ lastID'[r] # Dollar => lastID'[r] = from[r]
    BY <1>1, Zenon DEF TypeOK, Reading, IInv
  <2>2. \A j \in 1 .. Len(q) : q[j] = q[1] + j - 1
    BY <1>3, <1>4, <1>5, <1>6
  <2>3. q # <<>> => q[1] = lo
    BY <1>3, <1>4, <1>5, <1>6
  <2>4. \A i \in Ids : from[r] < i /\ i < lo => i \in gap
    BY <1>2, <1>3, Constants
  <2>5. from[r] < lo
    BY <1>2, <1>3
  <2> HIDE DEF gap
  <2>6. \A o \in Readers \ {r} : /\ batch'[o] = batch[o] /\ pc'[o] = pc[o] /\ trimmed'[o] = trimmed[o]
                                /\ lastID'[o] = lastID[o] /\ from'[o] = from[o]
    BY <1>1 DEF TypeOK
  <2> QED
    BY <2>1, <2>2, <2>3, <2>4, <2>5, <2>6 DEF Reading, IInv
<1> HIDE DEF gap
<1>10. Handling' /\ Ahead'
  BY <1>1 DEF Handling, Ahead, postVars, IInv
<1>11. Inserting' /\ NoneSkipped'
  <2>1. \A o \in Readers : trimmed[o] \subseteq trimmed'[o] /\ (pc'[o] = "post" <=> pc[o] = "post")
    BY <1>1 DEF TypeOK
  <2> QED
    BY <1>1, <2>1, Zenon DEF Inserting, NoneSkipped, postVars, IInv
<1> QED
  BY <1>8, <1>9, <1>10, <1>11, Zenon DEF IInv

(* lastID = msg.ID: the next entry of a batch is after the last one, no target knows
   of it, and what follows it in the batch is the entries after it. *)
LEMMA NextEntry ==
  ASSUME NEW r \in Readers, IInv, batch[r] # <<>>
  PROVE  LET i == Head(batch[r])
             q == Tail(batch[r])
         IN  /\ i \in Ids /\ i = batch[r][1] /\ (lastID[r] = Dollar \/ lastID[r] < i)
             /\ q \in Seq(Ids) /\ \A j \in 1 .. Len(q) : q[j] = q[1] + j - 1
             /\ q # <<>> => q[1] = i + 1
             /\ \A t \in TargetsOf(r) : seen[t][i] = 0 /\ i \notin acked[t]
<1> DEFINE b == batch[r]
           i == Head(b)
           q == Tail(b)
<1>1. b \in Seq(Ids) /\ b # <<>> /\ \A j \in 1 .. Len(b) : b[j] = b[1] + j - 1
  BY Zenon DEF TypeOK, Reading, IInv
<1>2. lastID[r] # Dollar => lastID[r] < b[1]
  BY Zenon DEF Reading, IInv
<1> HIDE DEF b
<1>3. i = b[1] /\ i \in Ids
  BY <1>1
<1>4. /\ q \in Seq(Ids) /\ Len(b) \in Nat /\ Len(q) = Len(b) - 1
      /\ \A j \in 1 .. Len(q) : q[j] = b[j + 1]
  BY <1>1
<1> HIDE DEF i, q
<1>5. i \in Nat
  BY <1>3, Constants, Zenon
<1>6. ASSUME NEW j \in 1 .. Len(q) PROVE q[j] = i + j
  <2>1. j + 1 \in 1 .. Len(b) /\ j \in Nat /\ q[j] = b[j + 1]
    BY <1>4, <1>6
  <2>2. b[j + 1] = b[1] + (j + 1) - 1
    BY <1>1, <2>1, Zenon
  <2> QED
    BY <1>3, <1>5, <2>1, <2>2
<1>7. q # <<>> => 1 \in 1 .. Len(q) /\ q[1] = i + 1
  BY <1>4, <1>6
<1>8. ASSUME NEW j \in 1 .. Len(q) PROVE q[j] = q[1] + j - 1
  <2>1. q[1] = i + 1 /\ q[j] = i + j /\ j \in Nat
    BY <1>4, <1>6
  <2> QED
    BY <1>5, <2>1
<1>9. lastID[r] = Dollar \/ (lastID[r] < i /\ i > lastID[r])
  <2>1. lastID[r] \in Nat
    BY Constants, Zenon DEF TypeOK, IInv
  <2> QED
    BY <1>2, <1>3, <1>5, <2>1, Zenon
<1>10. \A t \in TargetsOf(r) : seen[t][i] = 0 /\ i \notin acked[t]
  BY <1>3, <1>9, Zenon DEF Ahead, IInv
<1> QED
  BY <1>3, <1>4, <1>7, <1>8, <1>9, <1>10 DEF q, b

(* The reader moves to the next entry of its batch. *)
Moves(r) ==
  /\ batch[r] # <<>> /\ pc[r] = "batch" /\ pc'[r] \in {"batch", "post"}
  /\ lastID' = [lastID EXCEPT ![r] = Head(batch[r])]
  /\ batch' = [batch EXCEPT ![r] = Tail(batch[r])]
  /\ \A o \in Readers \ {r} : pc'[o] = pc[o]
  /\ UNCHANGED <<from, trimmed>>

LEMMA MovesReading == ASSUME NEW r \in Readers, IInv, Moves(r) PROVE Reading'
<1> DEFINE i == Head(batch[r])
           q == Tail(batch[r])
<1>1. /\ i \in Ids
      /\ q \in Seq(Ids) /\ \A j \in 1 .. Len(q) : q[j] = q[1] + j - 1
      /\ q # <<>> => q[1] = i + 1
  BY NextEntry, Zenon DEF Moves
<1>2. lastID'[r] = i /\ batch'[r] = q
  BY Zenon DEF TypeOK, IInv, Moves
<1>3. \A o \in Readers \ {r} : lastID'[o] = lastID[o] /\ batch'[o] = batch[o]
  BY DEF TypeOK, Moves
<1> HIDE DEF i, q
<1>4. q # <<>> => i < q[1] /\ \A k \in Ids : ~(i < k /\ k < q[1])
  BY <1>1 DEF Ids
<1> SUFFICES ASSUME NEW o \in Readers
             PROVE  /\ pc'[o] \notin {"batch", "post"} => batch'[o] = <<>>
                    /\ pc'[o] = "blocked" /\ lastID'[o] # Dollar => from[o] = lastID'[o]
                    /\ \A j \in 1 .. Len(batch'[o]) : batch'[o][j] = batch'[o][1] + j - 1
                    /\ batch'[o] # <<>> /\ lastID'[o] # Dollar =>
                         /\ lastID'[o] < batch'[o][1]
                         /\ \A k \in Ids : lastID'[o] < k /\ k < batch'[o][1] => k \in trimmed[o]
  BY Zenon DEF Reading, Moves
<1>5. CASE o = r
  BY <1>1, <1>2, <1>4, <1>5, Zenon DEF Moves
<1>6. CASE o # r
  BY <1>6 DEF Reading, IInv, Moves
<1> QED
  BY <1>5, <1>6, Zenon

(* Nothing is settled before the replicator has moved, and between its last entry and
   the next there is nothing but trimmed entries. *)
LEMMA MovesNoneSkipped ==
  ASSUME NEW r \in Readers, IInv, Moves(r), UNCHANGED <<acked, gaveUp>>,
         r = "replicator", pc'[r] = "post", cur'[r] = Head(batch[r])
  PROVE  NoneSkipped'
<1> DEFINE i == Head(batch[r])
           settled == acked[DB] \cup gaveUp[DB]
<1>1. i \in Ids /\ i = batch[r][1] /\ lastID'[r] = i /\ DB \in TargetsOf(r) /\ DB \in Targets
  BY DEF TypeOK, TargetsOf, Targets, IInv, Moves
<1> HIDE DEF i
<1> SUFFICES ASSUME NEW j \in settled, NEW k \in Ids, j < k, k <= i
             PROVE  k \in settled \cup {i} \cup trimmed[r]
  BY <1>1 DEF NoneSkipped, Moves
<1>2. j \in Ids /\ lastID[r] \in Nat
  BY <1>1, Constants, ZenonT(60) DEF TypeOK, IInv
<1>3. lastID[r] # Dollar
  BY <1>1, <1>2, Zenon DEF Ahead, IInv
<1>4. CASE k <= lastID[r]
  BY <1>3, <1>4, Zenon DEF NoneSkipped, IInv, Moves
<1>5. CASE lastID[r] < k /\ k < i
  BY <1>1, <1>3, <1>5, Zenon DEF Reading, IInv, Moves
<1>6. k = i \/ k <= lastID[r] \/ (lastID[r] < k /\ k < i)
  <2>1. k \in Nat /\ i \in Nat /\ lastID[r] \in Nat /\ k <= i
    BY <1>1, <1>2 DEF Ids
  <2> HIDE DEF IInv
  <2> QED
    BY <2>1
<1> QED
  BY <1>4, <1>5, <1>6, Zenon

LEMMA TakeIInv == ASSUME NEW r \in Readers, IInv, Take(r) PROVE IInv'
<1> DEFINE i == Head(batch[r])
           R == Recipients(r, i)
<1>1. /\ pc[r] = "batch" /\ pc' = [pc EXCEPT ![r] = "post"]
      /\ cur' = [cur EXCEPT ![r] = i] /\ todo' = [todo EXCEPT ![r] = R]
      /\ UNCHANGED <<kinds, first, target, tries, seen, acked, gaveUp, hooks>>
  BY Zenon DEF Take, Goes
<1>2. Moves(r)
  BY DEF Take, Moves, TypeOK, Goes
<1>3. /\ i \in Ids /\ Tail(batch[r]) \in Seq(Ids)
      /\ (lastID[r] = Dollar \/ lastID[r] < i)
      /\ \A t \in TargetsOf(r) : seen[t][i] = 0 /\ i \notin acked[t]
  BY <1>2, NextEntry, Zenon DEF Moves
<1>4. R \subseteq TargetsOf(r) /\ R \subseteq Targets
  BY RecipientsAreTargets, Zenon DEF TypeOK, IInv
<1>5. todo[r] = {} /\ tries[r] = 0
  <2>1. todo[r] = {}
    BY <1>1, Zenon DEF Handling, IInv
  <2>2. ~(tries[r] > 0)
    BY <2>1, Zenon DEF Handling, IInv
  <2>3. tries[r] \in 0 .. Attempts - 1
    BY Zenon DEF TypeOK, IInv
  <2>4. tries[r] \in Nat
    BY <2>3 DEF Attempts
  <2> QED
    BY <2>1, <2>2, <2>4
<1>6. r = "replicator" => DB \in R
  BY Zenon DEF Recipients
<1>7. lastID' = [lastID EXCEPT ![r] = i]
  BY <1>2, Zenon DEF Moves
<1> HIDE DEF i, R
<1>8. TypeOK'
  <2>1. batch' \in [Readers -> Seq(Ids)]
    BY <1>2, <1>3, Zenon DEF TypeOK, Moves, IInv
  <2> QED
    BY <1>1, <1>2, <1>3, <1>4, <1>7, <2>1, Constants, SMTT(60) DEF TypeOK, Moves, IInv, Goes
<1>9. Reading'
  BY <1>2, MovesReading, Zenon
<1>10. Handling'
  <2> SUFFICES ASSUME NEW o \in Readers
               PROVE  /\ pc'[o] # "post" => todo'[o] = {}
                      /\ pc'[o] = "post" => lastID'[o] = cur'[o] /\ cur'[o] \in Ids
                      /\ tries[o] > 0 => target[o] \in todo'[o]
                      /\ \A t \in todo'[o] :
                           /\ t \in TargetsOf(o) /\ cur'[o] \notin acked[t]
                           /\ seen[t][cur'[o]] <= (IF t = target[o] THEN tries[o] ELSE 0)
    BY <1>1, ZenonT(60) DEF Handling
  <2>1. CASE o = r
    BY <1>1, <1>3, <1>4, <1>5, <1>7, <2>1 DEF TypeOK, IInv
  <2>2. CASE o # r
    BY <1>1, <1>7, <2>2, SMTT(60) DEF Handling, IInv
  <2> QED
    BY <2>1, <2>2, Zenon
<1>11. Ahead'
  <2>1. ASSUME NEW o \in Readers, NEW k \in Ids, lastID'[o] = Dollar \/ k > lastID'[o]
        PROVE  lastID[o] = Dollar \/ k > lastID[o]
    <3>1. lastID[o] \in Nat /\ k \in Nat /\ i \in Nat
      BY <1>3, Constants, Zenon DEF TypeOK, IInv
    <3> QED
      BY <1>3, <1>7, <2>1, <3>1, Constants
  <2>2. UNCHANGED <<seen, acked, gaveUp>>
    BY <1>1, Zenon
  <2> SUFFICES ASSUME NEW o \in Readers, NEW t \in TargetsOf(o), NEW k \in Ids,
                      lastID'[o] = Dollar \/ k > lastID'[o]
               PROVE  seen[t][k] = 0 /\ k \notin acked[t] /\ k \notin gaveUp[t]
    BY <2>2, ZenonT(60) DEF Ahead
  <2>3. lastID[o] = Dollar \/ k > lastID[o]
    BY <2>1, Zenon
  <2> QED
    BY <2>3, Zenon DEF Ahead, IInv
<1>12. Inserting'
  BY <1>1, <1>6, Zenon DEF TypeOK, Inserting, IInv
<1>13. NoneSkipped'
  <2>1. CASE r = "replicator"
    BY <1>1, <1>2, <2>1, MovesNoneSkipped, Zenon DEF TypeOK, i, IInv
  <2>2. CASE r # "replicator"
    <3>1. "replicator" \in Readers => /\ lastID'["replicator"] = lastID["replicator"]
                                      /\ pc'["replicator"] = pc["replicator"]
                                      /\ cur'["replicator"] = cur["replicator"]
      BY <1>1, <1>7, <2>2 DEF TypeOK
    <3>2. UNCHANGED <<trimmed, acked, gaveUp>>
      BY <1>1, <1>2, Zenon DEF Moves
    <3> QED
      BY <3>1, <3>2, Zenon DEF NoneSkipped, IInv
  <2> QED
    BY <2>1, <2>2, Zenon
<1> QED
  BY <1>8, <1>9, <1>10, <1>11, <1>12, <1>13, Zenon DEF IInv

LEMMA ListFailsIInv == ASSUME NEW r \in Readers, IInv, ListFails(r) PROVE IInv'
<1> DEFINE i == Head(batch[r])
           R == Recipients(r, i)
<1>1. /\ r = "dispatcher" /\ pc[r] = "batch" /\ lastID' = [lastID EXCEPT ![r] = i]
      /\ gaveUp' = [t \in Targets |-> IF t \in R THEN gaveUp[t] \cup {i} ELSE gaveUp[t]]
      /\ UNCHANGED <<kinds, first, pc, cur, todo, target, tries, seen, acked, hooks>>
  BY Zenon DEF ListFails
<1>2. Moves(r)
  BY Zenon DEF ListFails, Moves
<1>3. /\ i \in Ids /\ Tail(batch[r]) \in Seq(Ids)
      /\ (lastID[r] = Dollar \/ lastID[r] < i)
  BY <1>2, NextEntry, Zenon DEF Moves
<1>4. R \subseteq TargetsOf(r)
  BY RecipientsAreTargets, Constants, Zenon DEF TypeOK, IInv
<1> HIDE DEF i, R
<1>5. TypeOK'
  <2>1. batch' \in [Readers -> Seq(Ids)]
    BY <1>2, <1>3, Zenon DEF TypeOK, Moves, IInv
  <2>2. gaveUp' \in [Targets -> SUBSET Ids]
    BY <1>1, <1>3, Constants, ZenonT(60) DEF TypeOK, IInv
  <2> QED
    BY <1>1, <1>2, <1>3, SMTT(60) DEF TypeOK, Moves, IInv
<1>6. Reading'
  BY <1>2, MovesReading, Zenon
<1>7. Handling'
  BY <1>1, SMTT(60) DEF Handling, IInv
<1>8. Ahead'
  <2> SUFFICES ASSUME NEW o \in Readers, NEW t \in TargetsOf(o), NEW k \in Ids,
                      lastID'[o] = Dollar \/ k > lastID'[o]
               PROVE  seen[t][k] = 0 /\ k \notin acked[t] /\ k \notin gaveUp'[t]
    <3>1. UNCHANGED <<seen, acked>>
      BY <1>1, Zenon
    <3> QED
      BY <3>1, ZenonT(60) DEF Ahead
  <2>1. lastID[o] \in Nat /\ k \in Nat /\ i \in Nat /\ t \in Targets
    BY <1>3, Constants, ZenonT(60) DEF TypeOK, TargetsOf, Targets, IInv
  <2>2. CASE o = r
    <3>1. k > i
      BY <1>1, <1>3, <2>2, Constants, Zenon DEF TypeOK, IInv
    <3>2. lastID[o] = Dollar \/ k > lastID[o]
      BY <1>3, <2>1, <2>2, <3>1
    <3>3. seen[t][k] = 0 /\ k \notin acked[t] /\ k \notin gaveUp[t]
      BY <3>2, Zenon DEF Ahead, IInv
    <3>4. k # i
      BY <2>1, <3>1
    <3>5. gaveUp'[t] \subseteq gaveUp[t] \cup {i}
      BY <1>1, <2>1, Zenon
    <3> QED
      BY <3>3, <3>4, <3>5, Zenon
  <2>3. CASE o # r
    <3>1. t \notin R
      BY <1>4, <2>3, TargetsApart, Zenon
    <3> QED
      BY <1>1, <2>1, <2>3, <3>1, Constants, SMTT(60) DEF TypeOK, Ahead, IInv
  <2> QED
    BY <2>2, <2>3, Zenon
<1>9. gaveUp'[DB] = gaveUp[DB]
  BY <1>1, <1>4, StreamAssumption, Zenon DEF TargetsOf, Targets
<1>10. Inserting' /\ NoneSkipped'
  <2>1. "replicator" \in Readers => lastID'["replicator"] = lastID["replicator"]
    BY <1>1 DEF TypeOK
  <2>2. UNCHANGED <<pc, cur, todo, trimmed, acked>>
    BY <1>1, <1>2, Zenon DEF Moves
  <2> QED
    BY <1>9, <2>1, <2>2, Constants, Zenon DEF Inserting, NoneSkipped, IInv
<1> QED
  BY <1>5, <1>6, <1>7, <1>8, <1>10, Zenon DEF IInv

-----------------------------------------------------------------------------
LEMMA NextIInv == ASSUME IInv, [Next]_vars PROVE IInv'
<1>1. ASSUME NEW r \in Readers, ReaderStep(r) \/ XReadFails(r) PROVE IInv'
  <2>1. CASE \E t \in Targets : Attempt(r, t)
    BY <2>1, AttemptIInv, Zenon
  <2> QED
    BY <1>1, <2>1, IdleIInv, XReadReturnsIInv, TakeIInv, ListFailsIInv, Zenon DEF ReaderStep,
         Attempt
<1> QED
  BY <1>1, EnvironmentIInv, Zenon DEF Next

LEMMA Invariant == Spec => []IInv
<1>1. IInv /\ [Next]_vars => IInv'
  BY NextIInv, Zenon
<1> QED
  BY InitIInv, <1>1, PTL DEF Spec

(* Of the entries the replicator has moved past since the first it settled, each is in
   the table, given up, under way or trimmed (replicator.go:55-61). *)
THEOREM NoneSkippedSafe == Spec => []NoneSkipped
<1>1. IInv => NoneSkipped
  BY Zenon DEF IInv
<1> QED
  BY <1>1, Invariant, PTL

(* No webhook and no table row gets an update again after it was confirmed, nor more
   than three times (dispatcher.go:77-79, 116, 140-142, replicator.go:56-57, 69-87). *)
THEOREM ConfirmedOnceSafe == Spec => ConfirmedOnce
<1> DEFINE Once ==
      \A t \in Targets, i \in Ids :
        seen'[t][i] # seen[t][i] => i \notin acked[t] /\ seen[t][i] < Attempts
<1>1. IInv /\ [Next]_vars => [Once]_vars
  BY OnceStep, Zenon
<1> QED
  BY <1>1, Invariant, PTL DEF Spec, ConfirmedOnce

(* Each target receives the updates in the order of the stream, retries included
   (dispatcher.go:76-81, replicator.go:55-61). *)
THEOREM StreamOrderSafe == Spec => StreamOrder
<1> DEFINE InOrder ==
      \A t \in Targets, i, j \in Ids : i < j /\ seen'[t][i] > seen[t][i] => seen[t][j] = 0
<1>1. IInv /\ [Next]_vars => [InOrder]_vars
  BY OrderStep, Zenon
<1> QED
  BY <1>1, Invariant, PTL DEF Spec, StreamOrder

(* A webhook that fails does not keep an update from the others: each one the entry was
   to be handed to has confirmed it or was given up (dispatcher.go:103-108). *)
THEOREM EveryHookTriedSafe == Spec => EveryHookTried
<1> DEFINE Tried ==
      \A r \in Readers, t \in Targets :
        t \in todo[r] \ todo'[r] => cur[r] \in acked'[t] \cup gaveUp'[t]
<1>1. IInv /\ [Next]_vars => [Tried]_vars
  BY TriedStep, Zenon
<1> QED
  BY <1>1, Invariant, PTL DEF Spec, EveryHookTried
=============================================================================
