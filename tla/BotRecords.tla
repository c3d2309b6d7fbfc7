------------------------------ MODULE BotRecords ------------------------------
(***************************************************************************)
(* The bot records of the main node: the service that encrypts tokens      *)
(* (internal/bot/service.go, internal/crypto/token.go), the PostgreSQL     *)
(* table under it (internal/bot/postgres.go), the paged list of the REST   *)
(* API, and the restore of a worker's bots (cmd/main/main.go).  Main may   *)
(* restart with encryption switched on, off or to another key while the    *)
(* rows stay.                                                              *)
(*                                                                         *)
(* Until the first restart the in-memory repository of the tests gets the  *)
(* operations that the table has decided, to see whether it answers alike; *)
(* an INSERT that fails for a reason the memory does not know, a token     *)
(* longer than its VARCHAR(128) or a lost connection, is not repeated      *)
(* there.                                                                  *)
(*                                                                         *)
(* PostgreSQL is external: INSERT takes the next id of the sequence, even  *)
(* if it fails, and commits later; token is UNIQUE.  AES-GCM is external:  *)
(* a stored token opens only with the secret it was sealed with.           *)
(***************************************************************************)
EXTENDS MemoryRepository, Sequences, Functions

CONSTANTS
  Tokens,
  Secrets, NoSecret,   \* encryption keys; NoSecret is the passthrough mode
  Garbled,             \* ciphertext taken for a token
  NoToken,
  Limit                \* rows on a page

ASSUME RecordsAssumption ==
  /\ NoSecret \notin Secrets /\ NoWorker \notin Workers
  /\ {Garbled, NoToken} \cap Tokens = {} /\ MaxIds \in Nat /\ Limit \in Nat \ {0}

VARIABLES
  secret,    \* the key of the running process
  lastId,    \* the sequence of bots.id
  adding,    \* INSERTs under way: id and stored token
  table,     \* the rows of bots: id, stored token, worker
  given,     \* the token last given out for each bot, to a worker or in an answer
  walk,      \* a client that lists the bots page by page
  mirror,    \* the in-memory repository is still compared
  agree      \* both gave the same answer to the last Create

pgVars == <<lastId, adding, table>>
vars == <<memVars, secret, pgVars, given, walk, mirror, agree>>

NoWalk == [on |-> FALSE, offset |-> 0, got |-> <<>>, base |-> {}, late |-> FALSE, cut |-> FALSE]

Init ==
  /\ NewMemoryRepository
  /\ secret \in Secrets \cup {NoSecret}
  /\ lastId = 0 /\ adding = {} /\ table = {}
  /\ given = [n \in Ids |-> NoToken]
  /\ walk = NoWalk
  /\ mirror = TRUE /\ agree = TRUE

-----------------------------------------------------------------------------
(* Encrypt.  The nonce, random in the code, is the number of the row. *)
Encrypt(t, n) ==
  [secret |-> secret, token |-> t, nonce |-> IF secret = NoSecret THEN 0 ELSE n]

(* Mutant: a token that does not open is taken to be a plain one. *)
Decrypt_Lenient(x) == IF x.secret = secret THEN x.token ELSE Garbled

(* Decrypt: passthrough returns what is stored, ciphertext included; a key opens what
   it sealed and gives an error (NoToken) for all else, plain tokens included. *)
Decrypt(x) ==
  IF x.secret = secret THEN x.token
  ELSE IF secret = NoSecret THEN Garbled
  ELSE NoToken

Readable(rows) == \A r \in rows : Decrypt(r.token) # NoToken
IdsOf(rows) == {r.id : r \in rows}

(* Service.Add, up to the INSERT, which takes its id. *)
AddBegins(t) ==
  /\ lastId < MaxIds /\ lastId' = lastId + 1
  /\ adding' = adding \cup {[id |-> lastId', token |-> Encrypt(t, lastId')]}
  /\ UNCHANGED <<memVars, secret, table, given, walk, mirror, agree>>

(* The bots on the pages a client has got. *)
Seen == UNION Range(walk.got)

Unique(x) == ~\E r \in table : r.token = x

(* The INSERT commits or meets the UNIQUE constraint; a bot that was added goes out
   with the token of the request. *)
AddEnds(a) ==
  LET x == a.token
  IN  /\ adding' = adding \ {a}
      /\ IF Unique(x)
         THEN /\ table' = table \cup {[id |-> a.id, token |-> x, worker |-> NoWorker]}
              /\ given' = [given EXCEPT ![a.id] = x.token]
              /\ walk' = [walk EXCEPT !.late = @ \/ \E n \in Seen : a.id < n]
         ELSE UNCHANGED <<table, given, walk>>
      /\ IF mirror
         THEN MemCreate(x, a.id) /\ agree' = (Unique(x) = MemCreateOK(x))
         ELSE UNCHANGED <<memVars, agree>>
      /\ UNCHANGED <<secret, lastId, mirror>>

(* The INSERT fails for another reason than the UNIQUE constraint: the stored token
   does not fit VARCHAR(128) (000001_init.up.sql:17), or the connection is lost.
   Service.Add returns the error. *)
AddFails(a) ==
  /\ adding' = adding \ {a}
  /\ UNCHANGED <<memVars, secret, lastId, table, given, walk, mirror, agree>>

(* UpdateWorkerID. *)
UpdateWorkerID(r, w) ==
  /\ table' = (table \ {r}) \cup {[r EXCEPT !.worker = w]}
  /\ IF mirror THEN MemUpdateWorkerID(r.id, w) ELSE UNCHANGED memVars
  /\ UNCHANGED <<secret, lastId, adding, given, walk, mirror, agree>>

(* Service.Remove; the history of its token goes with the row.  The repositories
   number their rows differently after a failed Create: the memory's row is found by
   its session. *)
RemoveBot(r) ==
  /\ table' = table \ {r}
  /\ given' = [given EXCEPT ![r.id] = NoToken]
  /\ walk' = [walk EXCEPT !.cut = @ \/ walk.on]
  /\ IF mirror
     THEN \E s \in MemGetBySessionID(r.id) : MemDelete(s.id)
     ELSE UNCHANGED memVars
  /\ UNCHANGED <<secret, lastId, adding, mirror, agree>>

-----------------------------------------------------------------------------
(* How many rows come before an id in ORDER BY id. *)
Rank(n) == Cardinality({m \in IdsOf(table) : m < n})

(* Mutant: the offset is ignored, as MemoryRepository.List does. *)
List_IgnoresOffset(offset) == {n \in IdsOf(table) : Rank(n) \in 0 .. Limit - 1}

(* List without a status: ORDER BY id LIMIT OFFSET, as the ids on the page. *)
List(offset) == {n \in IdsOf(table) : Rank(n) \in offset .. offset + Limit - 1}

(* The rows are decrypted and leave main, all or none. *)
GiveOut(rows) ==
  /\ Readable(rows)
  /\ given' = [n \in Ids |-> IF n \in IdsOf(rows)
       THEN Decrypt((CHOOSE r \in rows : r.id = n).token) ELSE given[n]]

(* A client starts to list the bots. *)
WalkBegins ==
  /\ walk' = [NoWalk EXCEPT !.on = TRUE, !.base = IdsOf(table)]
  /\ UNCHANGED <<memVars, secret, pgVars, given, mirror, agree>>

(* BotHandler.list: one page; a row that cannot be decrypted fails the request, and
   the client gives up. *)
WalkPage ==
  LET page == List(walk.offset)
  IN  /\ walk.on
      /\ \/ /\ GiveOut({r \in table : r.id \in page})
            /\ walk' = [walk EXCEPT !.offset = @ + Limit, !.got = Append(@, page), !.on = page # {}]
         \/ /\ ~Readable({r \in table : r.id \in page})
            /\ walk' = NoWalk /\ UNCHANGED given
      /\ UNCHANGED <<memVars, secret, pgVars, mirror, agree>>

(* BotHandler.get; a row that cannot be decrypted gives an error. *)
GetBot(r) ==
  /\ GiveOut({r})
  /\ UNCHANGED <<memVars, secret, pgVars, walk, mirror, agree>>

(* The callback of a worker that registers: its bots are listed, decrypted, and
   sent to it, all of them or, when one cannot be decrypted, none. *)
Restore(w) ==
  /\ GiveOut({r \in table : r.worker = w})
  /\ UNCHANGED <<memVars, secret, pgVars, walk, mirror, agree>>

(* Main restarts, maybe with another token_encrypt_key.  An INSERT under
   way has committed before (AddEnds) or is lost. *)
Restart(s) ==
  /\ secret' = s /\ mirror' = FALSE /\ agree' = TRUE
  /\ store' = {} /\ byToken' = {} /\ bySession' = {} /\ seq' = 0
  /\ adding' = {} /\ walk' = NoWalk
  /\ UNCHANGED <<lastId, table, given>>

Next ==
  \/ \E t \in Tokens : AddBegins(t)
  \/ \E a \in adding : AddEnds(a) \/ AddFails(a)
  \/ \E r \in table : GetBot(r) \/ RemoveBot(r) \/ \E w \in Workers : UpdateWorkerID(r, w)
  \/ WalkBegins \/ WalkPage
  \/ \E w \in Workers : Restore(w)
  \/ \E s \in Secrets \cup {NoSecret} : Restart(s)

Spec == Init /\ [][Next]_vars

-----------------------------------------------------------------------------
Content(rows) == {<<r.session, r.value, r.worker>> : r \in rows}

(* "Implementations: postgres (internal/account/postgres.go), in-memory for tests"
   (account/repository.go:6): after any operations the in-memory repository holds the
   records the table holds, finds them by session and by worker, and accepts or
   refuses a creation as the UNIQUE constraint does.  A creation the table refuses for
   its length, or for a lost connection, is exempt: the memory would accept it. *)
RepositoriesAgree ==
  mirror =>
    /\ agree
    /\ Content(store) = {<<r.id, r.token, r.worker>> : r \in table}
    /\ \A r \in table : Cardinality(MemGetBySessionID(r.id)) = 1
    /\ \A w \in Workers : Cardinality(MemListByWorkerID(w)) = Cardinality({r \in table : r.worker = w})

(* While encryption is on, main only ever gives out the token a bot was added with,
   to workers or in answers, whatever keys its row and the others were stored under
   (service.go:45-108, token.go:73-95). *)
TokenIntact ==
  [][secret # NoSecret =>
       \A r \in table : given'[r.id] \in {given[r.id], r.token.token, NoToken}]_vars

(* A client that reads page after page sees no bot twice, unless an INSERT with a
   smaller id commits meanwhile, and misses none that was there all the time, unless
   a bot is removed meanwhile (postgres.go:50-76). *)
WalkIsSound ==
  /\ ~walk.late => \A i, j \in DOMAIN walk.got : i < j =>
       \A m \in walk.got[i], n \in walk.got[j] : m < n
  /\ ~walk.on /\ walk.offset > 0 /\ ~walk.cut => walk.base \subseteq Seen
==============================================================================
