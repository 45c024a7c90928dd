------------------------- MODULE PolyleverageSession -------------------------
(***************************************************************************)
(* Polyleverage sessions (server/src/routes/polyleverage_session.rs): one  *)
(* row per user that mirrors a session on chain.  A client reads the chain *)
(* and sends what it read as an upsert, some time later and in any order;  *)
(* it may leave out the spend, the revoked flag and the version.  The row  *)
(* has no time to live.  Handlers are split at their awaits and fail as in *)
(* JupiterSession, and leave puts behind that may land after the user's    *)
(* next request.                                                           *)
(***************************************************************************)
EXTENDS SessionTable, Sequences

CONSTANTS
  Tasks,
  Overlap,    \* TRUE: a user may send a request before the last is answered
  MaxVersion  \* bound on the versions of the session on chain

Left == -1  \* a field the client left out

\* What the chain holds at one version; bounds are told apart by version.
Snapshots == [used: Nat, revoked: BOOLEAN]

\* A stored row: the version whose bounds it has, and the version it claims.
Rows == [bounds: Nat, used: Nat, revoked: BOOLEAN, seen: Nat \cup {Left}, created: Nat]

ASSUME PolyleverageAssumption ==
  /\ Overlap \in BOOLEAN
  /\ MaxVersion \in Nat \ {0}
  /\ NoItem \notin Rows \cup [val: Rows, ttl: {NoTtl}]

VARIABLES
  chain,  \* chain[k]: the session's versions on chain so far
  pc, req, copy, overtaken, \* as in JupiterSession
  late    \* history: the keys whose row an overtaken put has replaced since
          \* the user's latest request came

taskVars == <<pc, req, copy, overtaken, late>>
vars == <<tableVars, chain, taskVars>>

NoReq == [op |-> "none"]

Init ==
  /\ TableInit
  /\ chain = [k \in Keys |-> <<[used |-> 0, revoked |-> FALSE]>>]
  /\ pc = [t \in Tasks |-> "idle"]
  /\ req = [t \in Tasks |-> NoReq]
  /\ copy = [t \in Tasks |-> NoItem]
  /\ overtaken = {}
  /\ late = {}

-----------------------------------------------------------------------------
\* Mutants of Mirrored: a spend left out is 0; a spend sent is added; a spend
\* left out is stored as left out.
MirroredAfresh(found, r) ==
  [bounds |-> r.bounds, used |-> IF r.used = Left THEN 0 ELSE r.used,
   revoked |-> r.revoked, seen |-> r.seen,
   created |-> IF found = NoItem THEN r.at ELSE found.val.created]

MirroredAdding(found, r) ==
  LET prior == IF found = NoItem THEN [used |-> 0, created |-> r.at] ELSE found.val
  IN [bounds |-> r.bounds,
      used |-> prior.used + (IF r.used = Left THEN 0 ELSE r.used),
      revoked |-> r.revoked, seen |-> r.seen, created |-> prior.created]

MirroredAsSent(found, r) ==
  [bounds |-> r.bounds, used |-> r.used, revoked |-> r.revoked, seen |-> r.seen,
   created |-> IF found = NoItem THEN r.at ELSE found.val.created]

\* The row an upsert leaves: what the client sent, the spend it left out from
\* the row found, and no revocation but one the client sent.
Mirrored(found, r) ==
  LET prior == IF found = NoItem THEN [used |-> 0, created |-> r.at] ELSE found.val
  IN [bounds |-> r.bounds,
      used |-> IF r.used = Left THEN prior.used ELSE r.used,
      revoked |-> r.revoked,
      seen |-> r.seen,
      created |-> prior.created]

Busy(k) == {t \in Tasks : pc[t] # "idle" /\ req[t].key = k}

\* The puts of k that may land although nobody waits for them.
Leftovers(k) == {t \in Busy(k) : pc[t] \in {"orphan", "echo"}}

Receive(t, r) ==
  /\ pc[t] = "idle"
  /\ Overlap \/ Busy(r.key) \subseteq Leftovers(r.key)
  /\ pc' = [pc EXCEPT ![t] = "get"]
  /\ req' = [req EXCEPT ![t] = r]
  /\ overtaken' = overtaken \cup Leftovers(r.key)
  /\ late' = late \ {r.key}
  /\ UNCHANGED <<tableVars, chain, copy>>

Done(t) ==
  /\ pc' = [pc EXCEPT ![t] = "idle"]
  /\ req' = [req EXCEPT ![t] = NoReq]
  /\ copy' = [copy EXCEPT ![t] = NoItem]
  /\ overtaken' = overtaken \ {t}

IssuePut(t, row) ==
  /\ pc' = [pc EXCEPT ![t] = "put"]
  /\ copy' = [copy EXCEPT ![t] = row]
  /\ UNCHANGED <<tableVars, chain, req, overtaken, late>>

\* A mirror of any version read so far, with or without its optional fields:
\* a revoked flag left out reads as false.
ReceiveUpsert(t, k) ==
  \E v \in 1..Len(chain[k]), sendUsed, sendRevoked, sendVersion \in BOOLEAN :
    Receive(t,
      [op |-> "upsert", key |-> k, at |-> now, bounds |-> v,
       used |-> IF sendUsed THEN chain[k][v].used ELSE Left,
       revoked |-> sendRevoked /\ chain[k][v].revoked,
       seen |-> IF sendVersion THEN v ELSE Left])

UpsertGet(t) ==
  /\ pc[t] = "get"
  /\ req[t].op = "upsert"
  /\ \E found \in Reads(req[t].key) : IssuePut(t, Mirrored(found, req[t]))

ReceiveRevoke(t, k) == Receive(t, [op |-> "revoke", key |-> k])

RevokeGet(t) ==
  /\ pc[t] = "get"
  /\ req[t].op = "revoke"
  /\ \E found \in Reads(req[t].key) \ {NoItem} :
       IssuePut(t, [found.val EXCEPT !.revoked = TRUE])

RevokeMisses(t) ==
  /\ pc[t] = "get"
  /\ req[t].op = "revoke"
  /\ NoItem \in Reads(req[t].key)
  /\ Done(t)
  /\ UNCHANGED <<tableVars, chain, late>>

\* The put reaches the table, once or again when the client library retries.
Write(t) ==
  /\ pc[t] \in {"put", "wrote"}
  /\ PutItem(req[t].key, copy[t], NoTtl)
  /\ pc' = [pc EXCEPT ![t] = "wrote"]
  /\ UNCHANGED <<replica, now, chain, req, copy, overtaken, late>>

Reply(t) ==
  /\ pc[t] = "wrote"
  /\ Done(t)
  /\ UNCHANGED <<tableVars, chain, late>>

AbandonGet(t) ==
  /\ pc[t] = "get"
  /\ Done(t)
  /\ UNCHANGED <<tableVars, chain, late>>

AbandonPut(t) ==
  /\ pc[t] \in {"put", "wrote"}
  /\ pc' = [pc EXCEPT ![t] = IF @ = "put" THEN "orphan" ELSE "echo"]
  /\ UNCHANGED <<tableVars, chain, req, copy, overtaken, late>>

LateWrite(t) ==
  /\ pc[t] \in {"orphan", "echo"}
  /\ PutItem(req[t].key, copy[t], NoTtl)
  /\ Done(t)
  /\ late' = IF t \in overtaken THEN late \cup {req[t].key} ELSE late
  /\ UNCHANGED <<replica, now, chain>>

LostWrite(t) ==
  /\ pc[t] \in {"orphan", "echo"}
  /\ Done(t)
  /\ UNCHANGED <<tableVars, chain, late>>

\* The session moves on chain: it spends, is revoked or is created again.
ChainMoves(k) ==
  /\ Len(chain[k]) < MaxVersion
  /\ LET last == chain[k][Len(chain[k])] IN
     \E more \in {0, 1}, revoked \in BOOLEAN :
       chain' = [chain EXCEPT ![k] =
         Append(@, [used |-> last.used + more, revoked |-> revoked])]
  /\ UNCHANGED <<tableVars, taskVars>>

Next ==
  \/ \E t \in Tasks :
       \/ UpsertGet(t) \/ RevokeGet(t) \/ RevokeMisses(t)
       \/ Write(t) \/ Reply(t)
       \/ AbandonGet(t) \/ AbandonPut(t) \/ LateWrite(t) \/ LostWrite(t)
       \/ \E k \in Keys : ReceiveUpsert(t, k) \/ ReceiveRevoke(t, k)
  \/ \E k \in Keys : ChainMoves(k)
  \/ (Tick \/ \E k \in Keys : Replicate(k)) /\ UNCHANGED <<chain, taskVars>>

Spec == Init /\ [][Next]_vars

-----------------------------------------------------------------------------
Requests ==
  [op: {"upsert"}, key: Keys, at: Nat, bounds: Nat, used: Nat \cup {Left},
   revoked: BOOLEAN, seen: Nat \cup {Left}]
    \cup [op: {"revoke"}, key: Keys]

TypeOK ==
  /\ table \in [Keys -> [val: Rows, ttl: {NoTtl}] \cup {NoItem}]
  /\ replica \in [Keys -> [val: Rows, ttl: {NoTtl}] \cup {NoItem}]
  /\ now \in Nat
  /\ chain \in [Keys -> Seq(Snapshots) \ {<<>>}]
  /\ pc \in [Tasks -> {"idle", "get", "put", "wrote", "orphan", "echo"}]
  /\ req \in [Tasks -> Requests \cup {NoReq}]
  /\ copy \in [Tasks -> Rows \cup {NoItem}]
  /\ \A t \in Tasks :
       /\ pc[t] = "idle" <=> req[t] = NoReq
       /\ pc[t] \notin {"idle", "get"} => copy[t] \in Rows
       /\ t \in overtaken => pc[t] \in {"orphan", "echo"}
  /\ overtaken \subseteq Tasks
  /\ late \subseteq Keys

-----------------------------------------------------------------------------
\* The rows that exist for k: stored, replicated, or in a handler's hands.
RowsOf(k) ==
  {item.val : item \in {table[k], replica[k]} \ {NoItem}}
    \cup {copy[t] : t \in {s \in Busy(k) : pc[s] # "get"}}

\* Whatever order mirrors come in and whatever they leave out, a row never
\* runs ahead of the chain: its bounds are of a version the chain has had, the
\* version it claims is that one, and it records no more spend than the chain.
\* (session_upsert's fallbacks, session_revoke's whole-row put)
NeverAheadOfChain ==
  \A k \in Keys : \A row \in RowsOf(k) :
    /\ row.bounds \in 1..Len(chain[k])
    /\ row.seen \in {Left, row.bounds}
    /\ row.used <= chain[k][Len(chain[k])].used

\* "Preserve cumulative-used + created_at across an upsert unless the caller
\* explicitly passes a new cumulative value" (in session_upsert), while a user
\* waits for each answer, or gives up, before the next request, and reads are
\* consistent: the creation time of a stored row stays, its spend changes only
\* to one an upsert sent, and only an upsert lifts a revocation.  A put that
\* fails, repeats or lands late is no exception; one that lands after the
\* user's next request is, with what that request goes on to put.
UpsertPreserves ==
  [][\A k \in Keys : k \notin late' /\ NoItem \notin {table[k], table'[k]} =>
       LET old == table[k].val
           new == table'[k].val
           Upserts == {t \in Busy(k) : req[t].op = "upsert" /\ (Write(t) \/ LateWrite(t))}
       IN /\ new.created = old.created
          /\ new.used # old.used => \E t \in Upserts : new.used = req[t].used
          /\ old.revoked /\ ~new.revoked => Upserts # {}]_vars
=============================================================================
