--------------------------- MODULE JupiterSession ---------------------------
(***************************************************************************)
(* Jupiter delegated-trading sessions: the routes that register and revoke *)
(* a session (server/src/routes/jupiter_session.rs) and the one that signs *)
(* a trade under it (sign_jupiter_tx.rs), over one row per user.           *)
(*                                                                         *)
(* Every handler is get, modify, put, with an await at each call, and any  *)
(* number run at once: a task per connection.  So a handler is split where *)
(* it awaits:                                                              *)
(*                                                                         *)
(*   idle -Receive-> get -UpsertGet/RevokeGet/SignDebits-> put                *)
(*        -Write-> wrote -Reply/Release/SignFails-> idle                   *)
(*                                                                         *)
(* A handler may be abandoned at an await: the store reports an error, the *)
(* client disconnects and the future is dropped, the enclave dies.  A put  *)
(* it had issued may still land later, or never (pc "orphan"), or a retry  *)
(* of one that has landed may land again (pc "echo").  Nothing makes the   *)
(* user's next request wait for such leftovers, so they may land after it: *)
(* the history variables overtaken and late say when that happens.         *)
(*                                                                         *)
(* A Sign request here is one that passed the checks that read no session: *)
(* intent signature and expiry, exactly one perpetuals instruction, the    *)
(* custody's asset equal to the intent's.                                  *)
(***************************************************************************)
EXTENDS SessionTable

CONSTANTS
  Tasks,      \* request slots: how many requests may be in flight
  Assets,     \* market labels, "SOL", "ETH", ...
  Sizes,      \* trade sizes in USD atoms
  TermSet,    \* the terms a client may ask for
  Overlap,    \* TRUE: a user may send a request before the last is answered
  SpentBound  \* bound on the history variable spent

\* An amount is sent and stored as a decimal string: -1 stands for one that
\* does not parse, which no size fits, as the parse error rejects the trade.
Amounts == Nat \cup {-1}

Terms == [perMax: Amounts, cap: Amounts, assets: SUBSET Assets, exp: Nat]

\* A session row, and the item that holds it.
Session == [terms: Terms, used: Nat, revoked: BOOLEAN, created: Nat]
Items == [val: Session, ttl: Nat]

ASSUME JupiterAssumption ==
  /\ Sizes \subseteq Nat
  /\ TermSet \subseteq Terms
  /\ Overlap \in BOOLEAN
  /\ SpentBound \in Nat
  /\ NoItem \notin Items \cup Session

VARIABLES
  pc,      \* pc[t]: where the request in slot t is
  req,     \* req[t]: the request, with the clock its handler sampled
  copy,    \* copy[t]: the row that its put carries
  overtaken, \* history: the leftovers of requests that were abandoned before
             \* the user's next request, or before the row was reaped
  spent,   \* history: sizes signed against k's row since it was created
  granted, \* history: the terms clients have registered for k
  late     \* history: the keys whose row an overtaken put has replaced since
           \* it was last reaped

taskVars == <<pc, req, copy, overtaken>>
historyVars == <<spent, granted, late>>
vars == <<tableVars, taskVars, historyVars>>

NoReq == [op |-> "none"]

Upsert(k, terms) == [op |-> "upsert", key |-> k, at |-> now, terms |-> terms]
Revoke(k) == [op |-> "revoke", key |-> k]
\* signable: the transaction has the user's delegate among its signers.
Sign(k, asset, size, signable) ==
  [op |-> "sign", key |-> k, at |-> now,
   asset |-> asset, size |-> size, signable |-> signable]

Init ==
  /\ TableInit
  /\ pc = [t \in Tasks |-> "idle"]
  /\ req = [t \in Tasks |-> NoReq]
  /\ copy = [t \in Tasks |-> NoItem]
  /\ overtaken = {}
  /\ spent = [k \in Keys |-> 0]
  /\ granted = [k \in Keys |-> {}]
  /\ late = {}

-----------------------------------------------------------------------------
(* The pure part of the handlers. *)

\* Mutants of WithinBounds: each forgets or bends one of its tests.
NoRevokedTest(s, asset, size, at) ==
  /\ s.terms.exp >= at
  /\ asset \in s.terms.assets
  /\ size <= s.terms.perMax
  /\ s.used + size <= s.terms.cap

NoPerIntentTest(s, asset, size, at) ==
  /\ ~s.revoked
  /\ s.terms.exp >= at
  /\ asset \in s.terms.assets
  /\ s.used + size <= s.terms.cap

NoCapTest(s, asset, size, at) ==
  /\ ~s.revoked
  /\ s.terms.exp >= at
  /\ asset \in s.terms.assets
  /\ size <= s.terms.perMax

LateExpiryTest(s, asset, size, at) ==
  /\ ~s.revoked
  /\ s.terms.exp + 1 >= at
  /\ asset \in s.terms.assets
  /\ size <= s.terms.perMax
  /\ s.used + size <= s.terms.cap

\* check_session_bounds: Ok exactly when
WithinBounds(s, asset, size, at) ==
  /\ ~s.revoked
  /\ ~(s.terms.exp < at)
  /\ asset \in s.terms.assets
  /\ ~(size > s.terms.perMax)
  /\ ~(s.used + size > s.terms.cap)

\* Mutant of Debited: a credit.
Credited(s, size) == [s EXCEPT !.used = @ - size]

\* The row a trade leaves: its size is debited.
Debited(s, size) == [s EXCEPT !.used = @ + size]

\* Mutant of Registered: the spend starts afresh.
RegisteredAnew(found, terms, at) ==
  [terms |-> terms, used |-> 0, revoked |-> FALSE,
   created |-> IF found = NoItem THEN at ELSE found.val.created]

\* The row an upsert leaves: new terms, the spend and the creation time of
\* the row it found, and no revocation.
Registered(found, terms, at) ==
  [terms |-> terms,
   used |-> IF found = NoItem THEN 0 ELSE found.val.used,
   revoked |-> FALSE,
   created |-> IF found = NoItem THEN at ELSE found.val.created]

Revoked(s) == [s EXCEPT !.revoked = TRUE]

-----------------------------------------------------------------------------
(* Control of a task. *)

Busy(k) == {t \in Tasks : pc[t] # "idle" /\ req[t].key = k}

\* The puts of k that may land although nobody waits for them.
Leftovers(k) == {t \in Busy(k) : pc[t] \in {"orphan", "echo"}}

\* What may start on k: anything, or one thing at a time, as the client that
\* waits for an answer or gives up sees it.
Exclusive(k) == Overlap \/ Busy(k) \subseteq Leftovers(k)

Receive(t, r) ==
  /\ pc[t] = "idle"
  /\ Exclusive(r.key)
  /\ pc' = [pc EXCEPT ![t] = "get"]
  /\ req' = [req EXCEPT ![t] = r]
  /\ overtaken' = overtaken \cup Leftovers(r.key)
  /\ UNCHANGED <<tableVars, copy, spent, late>>

\* The handler ends: a reply, or an error.
Done(t) ==
  /\ pc' = [pc EXCEPT ![t] = "idle"]
  /\ req' = [req EXCEPT ![t] = NoReq]
  /\ copy' = [copy EXCEPT ![t] = NoItem]
  /\ overtaken' = overtaken \ {t}

\* The handler issues the put of s.
IssuePut(t, s) ==
  /\ pc' = [pc EXCEPT ![t] = "put"]
  /\ copy' = [copy EXCEPT ![t] = s]
  /\ UNCHANGED <<req, overtaken>>

\* A signature against k's session leaves the enclave.
CountSpent(k, size) ==
  spent' = [spent EXCEPT
    ![k] = IF @ + size > SpentBound THEN SpentBound ELSE @ + size]

-----------------------------------------------------------------------------
(* The routes. *)

ReceiveUpsert(t, k) ==
  \E terms \in TermSet :
    /\ Receive(t, Upsert(k, terms))
    /\ granted' = [granted EXCEPT ![k] = @ \cup {terms}]

UpsertGet(t) ==
  /\ pc[t] = "get"
  /\ req[t].op = "upsert"
  /\ \E found \in Reads(req[t].key) :
       IssuePut(t, Registered(found, req[t].terms, req[t].at))
  /\ UNCHANGED <<tableVars, historyVars>>

ReceiveRevoke(t, k) ==
  /\ Receive(t, Revoke(k))
  /\ UNCHANGED granted

RevokeGet(t) ==
  /\ pc[t] = "get"
  /\ req[t].op = "revoke"
  /\ \E found \in Reads(req[t].key) :
       \/ found # NoItem /\ IssuePut(t, Revoked(found.val))
       \/ found = NoItem /\ Done(t)
  /\ UNCHANGED <<tableVars, historyVars>>

ReceiveSign(t, k) ==
  \E asset \in Assets, size \in Sizes, signable \in BOOLEAN :
    /\ Receive(t, Sign(k, asset, size, signable))
    /\ UNCHANGED granted

\* With a session, the trade must fit it and is debited before it is signed.
SignDebits(t) ==
  /\ pc[t] = "get"
  /\ req[t].op = "sign"
  /\ \E found \in Reads(req[t].key) \ {NoItem} :
       /\ WithinBounds(found.val, req[t].asset, req[t].size, req[t].at)
       /\ IssuePut(t, Debited(found.val, req[t].size))
  /\ UNCHANGED <<tableVars, historyVars>>

SignRejected(t) ==
  /\ pc[t] = "get"
  /\ req[t].op = "sign"
  /\ \E found \in Reads(req[t].key) \ {NoItem} :
       ~WithinBounds(found.val, req[t].asset, req[t].size, req[t].at)
  /\ Done(t)
  /\ UNCHANGED <<tableVars, historyVars>>

\* Without one the intent alone authorizes it: it is signed at once.
SignInteractive(t) ==
  /\ pc[t] = "get"
  /\ req[t].op = "sign"
  /\ NoItem \in Reads(req[t].key)
  /\ Done(t)
  /\ UNCHANGED <<tableVars, historyVars>>

\* The put reaches the table, once or again when the client library retries.
Write(t) ==
  /\ pc[t] \in {"put", "wrote"}
  /\ PutItem(req[t].key, copy[t], copy[t].terms.exp)
  /\ pc' = [pc EXCEPT ![t] = "wrote"]
  /\ UNCHANGED <<replica, now, req, copy, overtaken, historyVars>>

\* The put is acknowledged to an upsert or a revoke, which reply.
Reply(t) ==
  /\ pc[t] = "wrote"
  /\ req[t].op # "sign"
  /\ Done(t)
  /\ UNCHANGED <<tableVars, historyVars>>

\* The put is acknowledged to a sign, which signs and replies.
Release(t) ==
  /\ pc[t] = "wrote"
  /\ req[t].op = "sign"
  /\ req[t].signable
  /\ CountSpent(req[t].key, req[t].size)
  /\ Done(t)
  /\ UNCHANGED <<tableVars, granted, late>>

\* The delegate is not a signer of the transaction: found only after the
\* debit, which stays.
SignFails(t) ==
  /\ pc[t] = "wrote"
  /\ req[t].op = "sign"
  /\ ~req[t].signable
  /\ Done(t)
  /\ UNCHANGED <<tableVars, historyVars>>

\* The handler ends at an await without a reply, or with a store error.
AbandonGet(t) ==
  /\ pc[t] = "get"
  /\ Done(t)
  /\ UNCHANGED <<tableVars, historyVars>>

AbandonPut(t) ==
  /\ pc[t] \in {"put", "wrote"}
  /\ pc' = [pc EXCEPT ![t] = IF @ = "put" THEN "orphan" ELSE "echo"]
  /\ UNCHANGED <<tableVars, req, copy, overtaken, historyVars>>

\* Its put lands all the same, before the user's next request or after it, or
\* never.
LateWrite(t) ==
  /\ pc[t] \in {"orphan", "echo"}
  /\ PutItem(req[t].key, copy[t], copy[t].terms.exp)
  /\ Done(t)
  /\ late' = IF t \in overtaken THEN late \cup {req[t].key} ELSE late
  /\ UNCHANGED <<replica, now, spent, granted>>

LostWrite(t) ==
  /\ pc[t] \in {"orphan", "echo"}
  /\ Done(t)
  /\ UNCHANGED <<tableVars, historyVars>>

\* The reaper removes an expired row, and the spend it recorded.
ReapSession(k) ==
  /\ Exclusive(k)
  /\ Reap(k)
  /\ overtaken' = overtaken \cup Leftovers(k)
  /\ spent' = [spent EXCEPT ![k] = 0]
  /\ late' = late \ {k}
  /\ UNCHANGED <<pc, req, copy, granted>>

-----------------------------------------------------------------------------
TaskStep(t) ==
  \/ UpsertGet(t) \/ RevokeGet(t)
  \/ SignDebits(t) \/ SignRejected(t) \/ SignInteractive(t)
  \/ Write(t) \/ Reply(t) \/ Release(t) \/ SignFails(t)
  \/ AbandonGet(t) \/ AbandonPut(t) \/ LateWrite(t) \/ LostWrite(t)

ReceiveStep(t, k) ==
  ReceiveUpsert(t, k) \/ ReceiveRevoke(t, k) \/ ReceiveSign(t, k)

TableStep(k) ==
  \/ ReapSession(k)
  \/ Replicate(k) /\ UNCHANGED <<taskVars, historyVars>>

Next ==
  \/ \E t \in Tasks : TaskStep(t) \/ \E k \in Keys : ReceiveStep(t, k)
  \/ \E k \in Keys : TableStep(k)
  \/ Tick /\ UNCHANGED <<taskVars, historyVars>>

Spec == Init /\ [][Next]_vars

-----------------------------------------------------------------------------
Requests ==
  [op: {"upsert"}, key: Keys, at: Nat, terms: TermSet]
    \cup [op: {"revoke"}, key: Keys]
    \cup [op: {"sign"}, key: Keys, at: Nat,
          asset: Assets, size: Sizes, signable: BOOLEAN]

\* The shape of the state, and what a pc says of the other task variables:
\* a slot past its get holds the row it will put, an overtaken one is over
\* but for its put.
TypeOK ==
  /\ table \in [Keys -> Items \cup {NoItem}]
  /\ replica \in [Keys -> Items \cup {NoItem}]
  /\ now \in Nat
  /\ pc \in [Tasks -> {"idle", "get", "put", "wrote", "orphan", "echo"}]
  /\ req \in [Tasks -> Requests \cup {NoReq}]
  /\ copy \in [Tasks -> Session \cup {NoItem}]
  /\ \A t \in Tasks :
       /\ pc[t] = "idle" <=> req[t] = NoReq
       /\ pc[t] \notin {"idle", "get"} => copy[t] \in Session
       /\ t \in overtaken => pc[t] \in {"orphan", "echo"}
  /\ overtaken \subseteq Tasks
  /\ spent \in [Keys -> Nat]
  /\ granted \in [Keys -> SUBSET TermSet]
  /\ late \subseteq Keys

-----------------------------------------------------------------------------
(* What survives any overlap, stale read, retry and abandoned request. *)

\* The rows that exist for k: stored, replicated, or in a handler's hands.
Holders(k) == {t \in Busy(k) : pc[t] # "get"}
RowsOf(k) ==
  {item.val : item \in {table[k], replica[k]} \ {NoItem}}
    \cup {copy[t] : t \in Holders(k)}

\* Every row carries the terms of one registration, never a blend of two,
\* and every trade that is past its check fits a registration its user made:
\* market, size and expiry, as the clock stood when the request arrived.
\* (the whole-row puts of session_upsert, session_revoke and sign_jupiter_tx)
SignedWithinGrant ==
  /\ \A k \in Keys : \A s \in RowsOf(k) : s.terms \in granted[k]
  /\ \A t \in Tasks :
       pc[t] = "wrote" /\ req[t].op = "sign" =>
         \E g \in granted[req[t].key] :
           /\ req[t].at <= g.exp
           /\ req[t].asset \in g.assets
           /\ req[t].size <= g.perMax
           /\ req[t].size <= g.cap

\* However debits overwrite one another, no row records more spend than the
\* largest cap its user ever registered: the check in check_session_bounds
\* and the spend kept by session_upsert bound the counter together.
UsedWithinSomeCap ==
  \A k \in Keys : \A s \in RowsOf(k) :
    s.used = 0 \/ \E g \in granted[k] : s.used <= g.cap

\* A revocation of k has settled: every copy of the row is revoked, and no
\* registration is on its way.
RevocationSettled(k) ==
  /\ table[k] # NoItem
  /\ \A s \in RowsOf(k) : s.revoked
  /\ ConsistentReads \/ replica[k] # NoItem
  /\ \A t \in Busy(k) : req[t].op # "upsert"

\* Once settled, a revocation holds, and nothing is signed for its user, until
\* the user registers again or the reaper removes the row: no step of a sign
\* or a revoke, however old its read, lifts it (check_session_bounds' first
\* test, session_revoke, the debit's put in sign_jupiter_tx).
SettledRevocationHolds ==
  [][\A k \in Keys : RevocationSettled(k) =>
       \/ /\ RevocationSettled(k)'
          /\ \A t \in Busy(k) : ~(Release(t) \/ SignInteractive(t))
       \/ table'[k] = NoItem
       \/ \E t \in Tasks : ReceiveUpsert(t, k)]_vars

-----------------------------------------------------------------------------
(* What holds as long as a user waits for each answer, or gives up, before *)
(* the next request, and reads are consistent.                             *)

\* What has been signed under a session is covered by the spend its row
\* records, unless and until an abandoned put lands after the user's next
\* request: a signature leaves only after its debit is stored, an upsert or
\* a revoke between two trades loses no debit, a failed sign forfeits one, a
\* put that lands late or twice before the next request changes nothing.
\* (the order of the put and the signature in sign_jupiter_tx, the spend
\* that session_upsert keeps)
SpentCovered ==
  \A k \in Keys \ late :
    spent[k] <= IF table[k] = NoItem THEN 0 ELSE table[k].val.used

-----------------------------------------------------------------------------
(* What the comments and tests of the code say, and what it does breaks. *)

\* "re-registering a session must not reset the spend" (jupiter_session.rs, in
\* session_upsert): an upsert's put, landing at once or late, never lowers
\* the spend that the row it replaces records.
ReRegisteringKeepsSpend ==
  [][\A t \in Tasks :
       LET k == req[t].key IN
       /\ (pc[t] = "put" /\ Write(t)) \/ LateWrite(t)
       /\ req[t].op = "upsert"
       /\ table[k] # NoItem
       => copy[t].used >= table[k].val.used]_vars

\* session_revoke is to "mark the session revoked", and "a revoked session
\* rejects even an in-bounds trade": only a registration lifts a revocation.
RevocationHolds ==
  [][\A t \in Tasks :
       LET k == req[t].key IN
       pc[t] = "put" /\ Write(t) /\ req[t].op # "upsert" /\ table[k] # NoItem =>
         (table[k].val.revoked => copy[t].revoked)]_vars
=============================================================================
