---------------------------- MODULE IntentSessions ----------------------------
(***************************************************************************)
(* Sessions a user opens by a signed intent, any number per user: the      *)
(* Hyperliquid routes (server/src/routes/hl_session.rs) and the Polymarket *)
(* ones (generic_session.rs), which differ in what an expiry of 0 and a    *)
(* revoke that finds nothing mean.  The table has one key per item, so a   *)
(* session is a row under its id alone and a user's list is an index item: *)
(* create puts the row, gets the index, and puts the index if the id is    *)
(* not yet in it; list gets the index, then each row.                      *)
(*                                                                         *)
(*   idle -ReceiveCreate-> put -Write-> wrote -CreateAppends-> put         *)
(*        -Write-> wrote -Reply-> idle                                     *)
(*   idle -ReceiveRevoke-> get -RevokeGet-> put -Write-> wrote -Reply-> .. *)
(*   idle -ReceiveList-> get -ListIndex-> rows -ListRow-> rows -ListReply->*)
(*                                                                         *)
(* Awaits, failures and late puts are those of JupiterSession: a put left  *)
(* behind may land after later requests of its user.  A request here is    *)
(* one whose intent is signed by its user; nothing in the routes tells an  *)
(* intent sent again from one sent first.                                  *)
(***************************************************************************)
EXTENDS SessionTable

CONSTANTS
  Tasks,     \* request slots
  Users, Ids,
  Intents,   \* the ids and expiries a create's intent may carry
  Kind,      \* "hl" or "gen": which of the two families of routes
  Overlap    \* TRUE: a user may send a request before the last is answered

RowKey(id) == <<"row", id>>
IndexKey(u) == <<"index", u>>

Rows == [owner: Users, exp: Nat, revoked: BOOLEAN]
RowItems == [val: Rows, ttl: Nat \cup {NoTtl}]
IndexItems == [val: [ids: SUBSET Ids], ttl: {NoTtl}]

ASSUME IntentAssumption ==
  /\ Keys = {RowKey(id) : id \in Ids} \cup {IndexKey(u) : u \in Users}
  /\ Intents \subseteq Ids \X Nat
  /\ Kind \in {"hl", "gen"}
  /\ Overlap \in BOOLEAN
  /\ NoItem \notin RowItems \cup IndexItems

VARIABLES
  pc,    \* pc[t]: where the request in slot t is
  req,   \* req[t]: the request
  put,   \* put[t]: the key and the item of its latest put
  seen,  \* seen[t]: a list's ids still to read, and the rows it will show
  overtaken, \* as in JupiterSession
  said,  \* history, said[u][id]: the last answer u has about id, "nothing"
         \* from the moment u asks for a change of it, or an overtaken put
         \* of u's lands on it
  met    \* history: the requests in hand that an overtaken put of their own
         \* user has met, by landing since they came

taskVars == <<pc, req, put, seen, overtaken>>
historyVars == <<said, met>>
vars == <<tableVars, taskVars, historyVars>>

NoReq == [op |-> "none"]
NoPut == [key |-> NoItem]
NoneSeen == [todo |-> {}, shown |-> {}]

Create(u, id, exp) == [op |-> "create", user |-> u, id |-> id, exp |-> exp]
Revoke(u, id) == [op |-> "revoke", user |-> u, id |-> id]
List(u) == [op |-> "list", user |-> u]

Init ==
  /\ TableInit
  /\ pc = [t \in Tasks |-> "idle"]
  /\ req = [t \in Tasks |-> NoReq]
  /\ put = [t \in Tasks |-> NoPut]
  /\ seen = [t \in Tasks |-> NoneSeen]
  /\ overtaken = {}
  /\ said = [u \in Users |-> [id \in Ids |-> "nothing"]]
  /\ met = {}

-----------------------------------------------------------------------------
(* The pure part of the handlers. *)

\* Mutant of Ttl: the expiry, whatever it is.
AlwaysTtl(exp) == exp

\* A Polymarket session with expiry 0 never expires.
Ttl(exp) == IF Kind = "gen" /\ exp = 0 THEN NoTtl ELSE exp

\* Mutant of RowPut: the row goes under the index's prefix.
RowPutAsIndex(id, row) == [key |-> IndexKey(id), val |-> row, ttl |-> Ttl(row.exp)]

RowPut(id, row) == [key |-> RowKey(id), val |-> row, ttl |-> Ttl(row.exp)]
IndexPut(u, ids) == [key |-> IndexKey(u), val |-> [ids |-> ids], ttl |-> NoTtl]

Created(r) == [owner |-> r.user, exp |-> r.exp, revoked |-> FALSE]

\* The ids an index item holds.
IdsIn(item) == IF item = NoItem THEN {} ELSE item.val.ids

\* Mutant of Appended: the index is written afresh.
Replaced(ids, id) == {id}

Appended(ids, id) == ids \cup {id}

\* Mutant of Owns: any row will do.
Found(item, u) == item # NoItem

\* The ownership test of revoke, get and list.
Owns(item, u) == item # NoItem /\ item.val.owner = u

\* Mutant of Shown: every row found is shown.
ShownToAll(id, item, u) == IF item = NoItem THEN {} ELSE {<<id, item.val>>}

\* What list shows of a row it read.
Shown(id, item, u) == IF Owns(item, u) THEN {<<id, item.val>>} ELSE {}

-----------------------------------------------------------------------------
(* Control of a task. *)

Busy(u) == {t \in Tasks : pc[t] # "idle" /\ req[t].user = u}

\* The puts of u that may land although nobody waits for them.
Leftovers(u) == {t \in Busy(u) : pc[t] = "orphan"}

\* What the user waits for, not what the store still has on its way.
Exclusive(u) == Overlap \/ Busy(u) \subseteq Leftovers(u)

Accept(t, r, label) ==
  /\ pc[t] = "idle"
  /\ Exclusive(r.user)
  /\ pc' = [pc EXCEPT ![t] = label]
  /\ req' = [req EXCEPT ![t] = r]
  /\ overtaken' = overtaken \cup Leftovers(r.user)

Done(t) ==
  /\ pc' = [pc EXCEPT ![t] = "idle"]
  /\ req' = [req EXCEPT ![t] = NoReq]
  /\ put' = [put EXCEPT ![t] = NoPut]
  /\ seen' = [seen EXCEPT ![t] = NoneSeen]
  /\ overtaken' = overtaken \ {t}

IssuePut(t, p) ==
  /\ pc' = [pc EXCEPT ![t] = "put"]
  /\ put' = [put EXCEPT ![t] = p]
  /\ UNCHANGED overtaken

\* u asks for a change of a session.
Ask(u, id) == said' = [said EXCEPT ![u][id] = "nothing"] /\ UNCHANGED met

\* The request in hand is done with, and leaves said as it is.
Leave(t) == met' = met \ {t} /\ UNCHANGED said

\* Its answer counts unless an overtaken put landed while it was worked out.
Say(t, answer) ==
  /\ said' = [said EXCEPT ![req[t].user][req[t].id] = IF t \in met THEN "nothing" ELSE answer]
  /\ met' = met \ {t}

\* A put of u's lands on a row, or on the index of all of u's ids.
Unsay(u, p) ==
  /\ said' = [said EXCEPT ![u] =
       [id \in Ids |-> IF p.key \in {RowKey(id), IndexKey(u)} THEN "nothing" ELSE @[id]]]
  /\ met' = met \cup (Busy(u) \ Leftovers(u))

-----------------------------------------------------------------------------
(* The routes. *)

\* create: the row's put is the first thing it awaits.
ReceiveCreate(t, u) ==
  \E intent \in Intents : LET r == Create(u, intent[1], intent[2]) IN
    /\ Accept(t, r, "put")
    /\ put' = [put EXCEPT ![t] = RowPut(r.id, Created(r))]
    /\ Ask(u, r.id)
    /\ UNCHANGED <<tableVars, seen>>

\* create, its row stored: the index is read, and written if it lacks the id.
CreateAppends(t) ==
  /\ pc[t] = "wrote"
  /\ req[t].op = "create"
  /\ put[t].key = RowKey(req[t].id)
  /\ \E index \in Reads(IndexKey(req[t].user)) :
       \/ /\ req[t].id \notin IdsIn(index)
          /\ IssuePut(t, IndexPut(req[t].user, Appended(IdsIn(index), req[t].id)))
          /\ UNCHANGED <<req, seen, historyVars>>
       \/ /\ req[t].id \in IdsIn(index)
          /\ Done(t)
          /\ Say(t, "active")
  /\ UNCHANGED tableVars

\* create, its index stored.
CreateReply(t) ==
  /\ pc[t] = "wrote"
  /\ req[t].op = "create"
  /\ put[t].key = IndexKey(req[t].user)
  /\ Done(t)
  /\ Say(t, "active")
  /\ UNCHANGED tableVars

ReceiveRevoke(t, u, id) ==
  /\ Accept(t, Revoke(u, id), "get")
  /\ Ask(u, id)
  /\ UNCHANGED <<tableVars, put, seen>>

RevokeGet(t) ==
  /\ pc[t] = "get"
  /\ req[t].op = "revoke"
  /\ \E found \in Reads(RowKey(req[t].id)) :
       /\ Owns(found, req[t].user)
       /\ IssuePut(t, RowPut(req[t].id, [found.val EXCEPT !.revoked = TRUE]))
  /\ UNCHANGED <<tableVars, req, seen, historyVars>>

\* No row, or another user's: nothing is written.  A Hyperliquid revoke says
\* so; the Polymarket one answers "revoked" all the same.
RevokeMisses(t) ==
  /\ pc[t] = "get"
  /\ req[t].op = "revoke"
  /\ \E found \in Reads(RowKey(req[t].id)) : ~Owns(found, req[t].user)
  /\ Done(t)
  /\ IF Kind = "gen" THEN Say(t, "revoked") ELSE Leave(t)
  /\ UNCHANGED tableVars

RevokeReply(t) ==
  /\ pc[t] = "wrote"
  /\ req[t].op = "revoke"
  /\ Done(t)
  /\ Say(t, "revoked")
  /\ UNCHANGED tableVars

ReceiveList(t, u) ==
  /\ Accept(t, List(u), "get")
  /\ UNCHANGED <<tableVars, put, seen, historyVars>>

ListIndex(t) ==
  /\ pc[t] = "get"
  /\ req[t].op = "list"
  /\ \E index \in Reads(IndexKey(req[t].user)) :
       seen' = [seen EXCEPT ![t].todo = IdsIn(index)]
  /\ pc' = [pc EXCEPT ![t] = "rows"]
  /\ UNCHANGED <<tableVars, req, put, overtaken, historyVars>>

\* One row is read, and shown if it is the asker's.
ListRow(t) ==
  /\ pc[t] = "rows"
  /\ \E id \in seen[t].todo : \E found \in Reads(RowKey(id)) :
       seen' = [seen EXCEPT ![t] =
         [todo |-> @.todo \ {id},
          shown |-> @.shown \cup Shown(id, found, req[t].user)]]
  /\ UNCHANGED <<tableVars, pc, req, put, overtaken, historyVars>>

ListReply(t) ==
  /\ pc[t] = "rows"
  /\ seen[t].todo = {}
  /\ Done(t)
  /\ Leave(t)
  /\ UNCHANGED tableVars

\* A put reaches the table, once or again when the client library retries.
Write(t) ==
  /\ pc[t] \in {"put", "wrote"}
  /\ PutItem(put[t].key, put[t].val, put[t].ttl)
  /\ pc' = [pc EXCEPT ![t] = "wrote"]
  /\ UNCHANGED <<replica, now, req, put, seen, overtaken, historyVars>>

\* The handler ends at an await: a store error, a client that left, a crash.
AbandonGet(t) ==
  /\ pc[t] \in {"get", "rows"}
  /\ Done(t)
  /\ Leave(t)
  /\ UNCHANGED tableVars

AbandonPut(t) ==
  /\ pc[t] \in {"put", "wrote"}
  /\ pc' = [pc EXCEPT ![t] = "orphan"]
  /\ Leave(t)
  /\ UNCHANGED <<tableVars, req, put, seen, overtaken>>

\* Its put lands all the same, for the first time or again, or never.
LateWrite(t) ==
  /\ pc[t] = "orphan"
  /\ PutItem(put[t].key, put[t].val, put[t].ttl)
  /\ Done(t)
  /\ IF t \in overtaken
     THEN Unsay(req[t].user, put[t])
     ELSE UNCHANGED historyVars
  /\ UNCHANGED <<replica, now>>

LostWrite(t) ==
  /\ pc[t] = "orphan"
  /\ Done(t)
  /\ UNCHANGED <<tableVars, historyVars>>

-----------------------------------------------------------------------------
TaskStep(t) ==
  \/ CreateAppends(t) \/ CreateReply(t)
  \/ RevokeGet(t) \/ RevokeMisses(t) \/ RevokeReply(t)
  \/ ListIndex(t) \/ ListRow(t) \/ ListReply(t)
  \/ Write(t) \/ AbandonGet(t) \/ AbandonPut(t) \/ LateWrite(t) \/ LostWrite(t)

ReceiveStep(t, u) ==
  \/ ReceiveCreate(t, u) \/ ReceiveList(t, u)
  \/ \E id \in Ids : ReceiveRevoke(t, u, id)

Next ==
  \/ \E t \in Tasks : TaskStep(t) \/ \E u \in Users : ReceiveStep(t, u)
  \/ (\E k \in Keys : Reap(k) \/ Replicate(k)) /\ UNCHANGED <<taskVars, historyVars>>
  \/ Tick /\ UNCHANGED <<taskVars, historyVars>>

Spec == Init /\ [][Next]_vars

-----------------------------------------------------------------------------
Requests ==
  [op: {"create"}, user: Users, id: Ids, exp: Nat]
    \cup [op: {"revoke"}, user: Users, id: Ids]
    \cup [op: {"list"}, user: Users]

\* A put is of a row under a row's key, or of an index under an index's.
IsPut(p) ==
  \/ \E id \in Ids :
       p.key = RowKey(id) /\ p \in [key: {RowKey(id)}, val: Rows, ttl: Nat \cup {NoTtl}]
  \/ \E u \in Users :
       p.key = IndexKey(u) /\ p \in [key: {IndexKey(u)}, val: [ids: SUBSET Ids], ttl: {NoTtl}]

\* The shape of the state: rows under row keys, indexes under index keys.
TypeOK ==
  /\ \A copyOf \in {table, replica} :
       /\ DOMAIN copyOf = Keys
       /\ \A id \in Ids : copyOf[RowKey(id)] \in RowItems \cup {NoItem}
       /\ \A u \in Users : copyOf[IndexKey(u)] \in IndexItems \cup {NoItem}
  /\ now \in Nat
  /\ pc \in [Tasks -> {"idle", "get", "put", "wrote", "rows", "orphan"}]
  /\ req \in [Tasks -> Requests \cup {NoReq}]
  /\ DOMAIN put = Tasks
  /\ seen \in [Tasks -> [todo: SUBSET Ids, shown: SUBSET (Ids \X Rows)]]
  /\ said \in [Users -> [Ids -> {"nothing", "active", "revoked"}]]
  /\ overtaken \subseteq {t \in Tasks : pc[t] = "orphan"}
  /\ met \subseteq {t \in Tasks : pc[t] \notin {"idle", "orphan"}}
  /\ \A t \in Tasks :
       /\ pc[t] = "idle" <=> req[t] = NoReq
       /\ pc[t] \in {"put", "wrote", "orphan"} =>
            IsPut(put[t]) /\ req[t].op \in {"create", "revoke"}
       /\ pc[t] \in {"idle", "get", "rows"} => put[t] = NoPut
       /\ pc[t] # "rows" => seen[t] = NoneSeen

-----------------------------------------------------------------------------
(* What holds while a user sends a request only when the last has ended    *)
(* for it, and reads are consistent.  Another user's requests may overlap, *)
(* under the same ids too, and puts that were abandoned stay on their way. *)

\* A create that was answered is in its user's index, whatever was put and
\* dropped before it, and its row, while still the user's, is active; a
\* revoke that was answered leaves no active row of that user.  A create that
\* ended between its two puts was not answered.  An answer stands until an
\* abandoned put that a later request overtook lands: on the row it undoes
\* what was said of that id, on the index of every id of the user.  The next
\* answer stands again.
\* (create's row put, index get and index put; the reply of revoke)
AnswersHold ==
  \A u \in Users, id \in Ids :
    LET row == table[RowKey(id)]
        active == Owns(row, u) /\ ~row.val.revoked
    IN
    /\ said[u][id] = "active" =>
         id \in IdsIn(table[IndexKey(u)]) /\ (Owns(row, u) => active)
    /\ said[u][id] = "revoked" => ~active

\* A list's reply agrees with the table as it is when it leaves: a session
\* answered active and still stored for the asker is in it as stored, and what
\* it shows otherwise has since left the table or passed to another user.
\* Another user's puts may land anywhere among its reads; of the asker's own,
\* none that was abandoned.
\* (list's index get and its gets of the rows, one await each)
ListAgrees ==
  [][\A t \in Tasks : ListReply(t) /\ t \notin met =>
       LET u == req[t].user
           own == {id \in Ids : Owns(table[RowKey(id)], u)}
       IN
       /\ \A id \in own : said[u][id] = "active" =>
            <<id, table[RowKey(id)].val>> \in seen[t].shown
       /\ \A s \in seen[t].shown :
            s[2].owner = u /\ (s[1] \in own => s[2] = table[RowKey(s[1])].val)]_vars

\* Whatever two users do under one id, a row that stays with its owner
\* changes only by that owner's requests: another's create replaces it, but
\* another's revoke, however old its read, never touches it.
OwnerChanges ==
  [][\A id \in Ids :
       LET k == RowKey(id) IN
       /\ NoItem \notin {table[k], table'[k]}
       /\ table[k].val # table'[k].val
       /\ table[k].val.owner = table'[k].val.owner
       => \E t \in Busy(table[k].val.owner) : Write(t) \/ LateWrite(t)]_vars

\* "expiry == 0 means never" (generic_session.rs, in create): no put of such a
\* session, by create or by revoke, lets the reaper have it.
ZeroNeverExpires ==
  [][Kind = "gen" =>
       \A id \in Ids : LET k == RowKey(id) IN
         table[k] # NoItem /\ table[k].val.exp = 0 => table'[k] # NoItem]_vars

-----------------------------------------------------------------------------
\* "Append the id to the user's index (idempotent)" (hl_session.rs, in create):
\* a put of an index takes no id out of it.
IndexOnlyGrows ==
  [][\A t \in Tasks, u \in Users :
       pc[t] = "put" /\ Write(t) /\ put[t].key = IndexKey(u) =>
         IdsIn(table[IndexKey(u)]) \subseteq put[t].val.ids]_vars
=============================================================================
