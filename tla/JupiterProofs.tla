--------------------------- MODULE JupiterProofs ---------------------------
(***************************************************************************)
(* Theorems about JupiterSession, for every set of users, request slots    *)
(* and terms.  Those of the first part need no assumption on how requests  *)
(* overlap or on how stale a read is.  Those of the second and the third   *)
(* are about users that send one request at a time, waiting for its answer *)
(* or giving it up, and a get that sees the latest put: the spend a row    *)
(* records covers what was signed, and the sessions implement SpendLimit,  *)
(* until a put that was given up lands after the user's next request, or   *)
(* after the row was reaped.                                               *)
(***************************************************************************)
EXTENDS JupiterRefinement, TLAPS

-----------------------------------------------------------------------------
(* The pure operators keep a row a row. *)

LEMMA ConstantTypes ==
  /\ Sizes \subseteq Nat
  /\ TermSet \subseteq Terms
  /\ SpentBound \in Nat
  BY JupiterAssumption

LEMMA ReadsItems ==
  ASSUME TypeOK, NEW k \in Keys, NEW found \in Reads(k)
  PROVE  found \in Items \cup {NoItem}
  BY DEF TypeOK, Reads

LEMMA DebitedSession ==
  ASSUME NEW s \in Session, NEW size \in Nat
  PROVE  /\ Debited(s, size) \in Session
         /\ Debited(s, size).terms = s.terms
         /\ Debited(s, size).used = s.used + size
         /\ Debited(s, size).revoked = s.revoked
  BY DEF Debited, Session

LEMMA RevokedSession ==
  ASSUME NEW s \in Session
  PROVE  /\ Revoked(s) \in Session
         /\ Revoked(s).terms = s.terms
         /\ Revoked(s).used = s.used
         /\ Revoked(s).revoked
  BY DEF Revoked, Session

LEMMA RegisteredSession ==
  ASSUME NEW found \in Items \cup {NoItem}, NEW terms \in TermSet, NEW at \in Nat
  PROVE  /\ Registered(found, terms, at) \in Session
         /\ Registered(found, terms, at).terms = terms
         /\ Registered(found, terms, at).used =
              IF found = NoItem THEN 0 ELSE found.val.used
  BY JupiterAssumption DEF Registered, Session, Items

\* What the op of a request says of its other fields.
LEMMA RequestFields ==
  ASSUME NEW r \in Requests \cup {NoReq}
  PROVE  /\ r # NoReq => r.key \in Keys
         /\ r.op = "upsert" => /\ r # NoReq
                               /\ r.key \in Keys
                               /\ r.at \in Nat
                               /\ r.terms \in TermSet
         /\ r.op = "revoke" => r # NoReq /\ r.key \in Keys
         /\ r.op = "sign" => /\ r # NoReq
                             /\ r.key \in Keys
                             /\ r.at \in Nat
                             /\ r.asset \in Assets
                             /\ r.size \in Nat
         /\ r # NoReq => r.op \in {"upsert", "revoke", "sign"}
  <1>1. CASE r = NoReq
    BY <1>1 DEF NoReq
  <1>2. CASE r \in [op: {"upsert"}, key: Keys, at: Nat, terms: TermSet]
    BY <1>2 DEF NoReq
  <1>3. CASE r \in [op: {"revoke"}, key: Keys]
    BY <1>3 DEF NoReq
  <1>4. CASE r \in [op: {"sign"}, key: Keys, at: Nat,
                    asset: Assets, size: Sizes, signable: BOOLEAN]
    <2>1. r.size \in Sizes /\ r.op = "sign" /\ r.key \in Keys
             /\ r.at \in Nat /\ r.asset \in Assets
      BY <1>4
    <2>2. r.size \in Nat
      BY <2>1, ConstantTypes
    <2> QED BY <2>1, <2>2 DEF NoReq
  <1> QED
    BY <1>1, <1>2, <1>3, <1>4 DEF Requests

-----------------------------------------------------------------------------
(* Type correctness. *)

\* The start of a request, the end of one and the issue of a put.
LEMMA ReceiveType ==
  ASSUME TypeOK, NEW t \in Tasks, NEW r \in Requests, Receive(t, r),
         granted' \in [Keys -> SUBSET TermSet]
  PROVE  TypeOK'
  <1>1. r # NoReq
    BY DEF Requests, NoReq
  <1>2. \A u \in Leftovers(r.key) : u \in Tasks /\ pc[u] \in {"orphan", "echo"}
    BY DEF Leftovers, Busy
  <1>3. /\ overtaken' \subseteq Tasks
        /\ \A u \in Tasks : u \in overtaken' => pc'[u] \in {"orphan", "echo"}
    BY <1>2 DEF TypeOK, Receive
  <1> QED
    BY <1>1, <1>3 DEF TypeOK, Receive, tableVars

LEMMA DoneType ==
  ASSUME TypeOK, NEW t \in Tasks, Done(t),
         table' \in [Keys -> Items \cup {NoItem}],
         spent' \in [Keys -> Nat],
         late' \subseteq Keys,
         UNCHANGED <<replica, now, granted>>
  PROVE  TypeOK'
  BY DEF TypeOK, Done

LEMMA IssuePutType ==
  ASSUME TypeOK, NEW t \in Tasks, NEW s \in Session, IssuePut(t, s),
         pc[t] = "get", req[t] # NoReq, UNCHANGED <<tableVars, historyVars>>
  PROVE  TypeOK'
  BY DEF TypeOK, IssuePut, tableVars, historyVars

LEMMA TypeInductive == TypeOK /\ [Next]_vars => TypeOK'
  <1> SUFFICES ASSUME TypeOK, [Next]_vars PROVE TypeOK'
    OBVIOUS
  <1> USE DEF tableVars, historyVars, taskVars
  <1>1. ASSUME NEW t \in Tasks, NEW k \in Keys, ReceiveUpsert(t, k) PROVE TypeOK'
    <2>1. PICK terms \in TermSet : Receive(t, Upsert(k, terms)) /\
             granted' = [granted EXCEPT ![k] = @ \cup {terms}]
      BY <1>1 DEF ReceiveUpsert
    <2>2. Upsert(k, terms) \in Requests
      BY DEF Upsert, Requests, TypeOK
    <2>3. granted' \in [Keys -> SUBSET TermSet]
      BY <2>1 DEF TypeOK
    <2> QED BY <2>1, <2>2, <2>3, ReceiveType
  <1>2. ASSUME NEW t \in Tasks, NEW k \in Keys, ReceiveRevoke(t, k) PROVE TypeOK'
    <2>1. Revoke(k) \in Requests
      BY DEF Revoke, Requests
    <2> QED BY <1>2, <2>1, ReceiveType DEF ReceiveRevoke, TypeOK
  <1>3. ASSUME NEW t \in Tasks, NEW k \in Keys, ReceiveSign(t, k) PROVE TypeOK'
    <2>1. PICK asset \in Assets, size \in Sizes, signable \in BOOLEAN :
             Receive(t, Sign(k, asset, size, signable)) /\ UNCHANGED granted
      BY <1>3 DEF ReceiveSign
    <2>2. Sign(k, asset, size, signable) \in Requests
      BY DEF Sign, Requests, TypeOK
    <2> QED BY <2>1, <2>2, ReceiveType DEF TypeOK
  <1>4. ASSUME NEW t \in Tasks, UpsertGet(t) PROVE TypeOK'
    <2>1. req[t] \in Requests \cup {NoReq}
      BY DEF TypeOK
    <2>2. req[t] # NoReq /\ req[t].key \in Keys /\ req[t].terms \in TermSet
            /\ req[t].at \in Nat
      BY <1>4, <2>1, RequestFields DEF UpsertGet
    <2>3. PICK found \in Reads(req[t].key) :
             IssuePut(t, Registered(found, req[t].terms, req[t].at))
      BY <1>4 DEF UpsertGet
    <2>4. Registered(found, req[t].terms, req[t].at) \in Session
      BY <2>2, ReadsItems, RegisteredSession
    <2> QED BY <1>4, <2>2, <2>3, <2>4, IssuePutType DEF UpsertGet
  <1>5. ASSUME NEW t \in Tasks, RevokeGet(t) PROVE TypeOK'
    <2>1. req[t] \in Requests \cup {NoReq}
      BY DEF TypeOK
    <2>2. req[t] # NoReq /\ req[t].key \in Keys
      BY <1>5, <2>1, RequestFields DEF RevokeGet
    <2>3. PICK found \in Reads(req[t].key) :
             \/ found # NoItem /\ IssuePut(t, Revoked(found.val))
             \/ found = NoItem /\ Done(t)
      BY <1>5 DEF RevokeGet
    <2>4. CASE found # NoItem /\ IssuePut(t, Revoked(found.val))
      <3>1. found.val \in Session
        BY <2>2, <2>4, ReadsItems DEF Items
      <3> QED BY <1>5, <2>2, <2>4, <3>1, RevokedSession, IssuePutType DEF RevokeGet
    <2>5. CASE found = NoItem /\ Done(t)
      BY <1>5, <2>5, DoneType DEF RevokeGet, TypeOK
    <2> QED BY <2>3, <2>4, <2>5
  <1>6. ASSUME NEW t \in Tasks, SignDebits(t) PROVE TypeOK'
    <2>1. req[t] \in Requests \cup {NoReq}
      BY DEF TypeOK
    <2>2. req[t] # NoReq /\ req[t].key \in Keys /\ req[t].size \in Nat
      BY <1>6, <2>1, RequestFields DEF SignDebits
    <2>3. PICK found \in Reads(req[t].key) \ {NoItem} :
             IssuePut(t, Debited(found.val, req[t].size))
      BY <1>6 DEF SignDebits
    <2>4. found.val \in Session
      BY <2>2, ReadsItems DEF Items
    <2> QED BY <1>6, <2>2, <2>3, <2>4, DebitedSession, IssuePutType DEF SignDebits
  <1>7. ASSUME NEW t \in Tasks,
               \/ SignRejected(t) \/ SignInteractive(t) \/ Reply(t)
               \/ SignFails(t) \/ AbandonGet(t) \/ LostWrite(t)
        PROVE  TypeOK'
    <2>1. Done(t) /\ UNCHANGED <<tableVars, historyVars>>
      BY <1>7 DEF SignRejected, SignInteractive, Reply, SignFails, AbandonGet, LostWrite
    <2> QED BY <2>1, DoneType DEF TypeOK
  <1>8. ASSUME NEW t \in Tasks, Write(t) PROVE TypeOK'
    <2>1. copy[t] \in Session /\ copy[t].terms.exp \in Nat
      BY <1>8 DEF Write, TypeOK, Session, Terms
    <2>2. table' \in [Keys -> Items \cup {NoItem}]
      BY <1>8, <2>1 DEF Write, PutItem, TypeOK, Items
    <2> QED BY <1>8, <2>2 DEF Write, TypeOK
  <1>9. ASSUME NEW t \in Tasks, LateWrite(t) PROVE TypeOK'
    <2>1. copy[t] \in Session /\ copy[t].terms.exp \in Nat
      BY <1>9 DEF LateWrite, TypeOK, Session, Terms
    <2>2. table' \in [Keys -> Items \cup {NoItem}]
      BY <1>9, <2>1 DEF LateWrite, PutItem, TypeOK, Items
    <2>3. req[t].key \in Keys
      BY <1>9, RequestFields DEF LateWrite, TypeOK
    <2>4. late' \subseteq Keys
      BY <1>9, <2>3 DEF LateWrite, TypeOK
    <2> QED BY <1>9, <2>2, <2>4, DoneType DEF LateWrite, TypeOK
  <1>10. ASSUME NEW t \in Tasks, Release(t) PROVE TypeOK'
    <2>1. req[t] \in Requests \cup {NoReq}
      BY DEF TypeOK
    <2>2. req[t].key \in Keys /\ req[t].size \in Nat
      BY <1>10, <2>1, RequestFields DEF Release
    <2> DEFINE k == req[t].key
               n == spent[k] + req[t].size
    <2>3. /\ spent' = [spent EXCEPT ![k] = IF n > SpentBound THEN SpentBound ELSE n]
          /\ n \in Nat
      BY <1>10, <2>2 DEF Release, CountSpent, TypeOK
    <2>4. spent' \in [Keys -> Nat]
      BY <2>2, <2>3, ConstantTypes DEF TypeOK
    <2> QED BY <1>10, <2>4, DoneType DEF Release, TypeOK
  <1>11. ASSUME NEW t \in Tasks, AbandonPut(t) PROVE TypeOK'
    BY <1>11 DEF AbandonPut, TypeOK
  <1>12. ASSUME NEW k \in Keys, ReapSession(k) PROVE TypeOK'
    <2>1. \A u \in Leftovers(k) : u \in Tasks /\ pc[u] \in {"orphan", "echo"}
      BY DEF Leftovers, Busy
    <2> QED BY <1>12, <2>1 DEF ReapSession, Reap, DeleteItem, TypeOK
  <1>13. ASSUME NEW k \in Keys, Replicate(k), UNCHANGED <<taskVars, historyVars>>
         PROVE  TypeOK'
    BY <1>13 DEF Replicate, TypeOK
  <1>14. CASE Tick /\ UNCHANGED <<taskVars, historyVars>>
    BY <1>14 DEF Tick, TypeOK
  <1>15. CASE UNCHANGED vars
    BY <1>15 DEF vars, TypeOK
  <1> QED
    BY <1>1, <1>2, <1>3, <1>4, <1>5, <1>6, <1>7, <1>8, <1>9, <1>10, <1>11, <1>12,
       <1>13, <1>14, <1>15
       DEF Next, TaskStep, ReceiveStep, TableStep

\* Every reachable state has its type, and a request past its get holds a
\* whole session row to put.
THEOREM TypeCorrect == Spec => []TypeOK
  <1>1. Init => TypeOK
    BY TableAssumption DEF Init, TableInit, TypeOK
  <1> QED
    BY <1>1, TypeInductive, PTL DEF Spec

-----------------------------------------------------------------------------
(* What any overlap and any stale read leave standing. *)

\* Row s keeps within the registrations G.
RowFits(s, G) ==
  /\ s.terms \in G
  /\ s.used = 0 \/ \E g \in G : s.used <= g.cap

\* Row s, debited for the trade of request r, allows it.
TradeFits(r, s) ==
  /\ ~s.revoked
  /\ r.at <= s.terms.exp
  /\ r.asset \in s.terms.assets
  /\ r.size <= s.terms.perMax
  /\ r.size <= s.terms.cap

\* SignedWithinGrant and UsedWithinSomeCap, with what keeps them: an upsert's
\* terms are recorded before its row exists, a trade's row allowed the trade.
GrantInv ==
  /\ \A k \in Keys :
       /\ table[k] # NoItem => RowFits(table[k].val, granted[k])
       /\ replica[k] # NoItem => RowFits(replica[k].val, granted[k])
  /\ \A t \in Tasks :
       /\ pc[t] \notin {"idle", "get"} => RowFits(copy[t], granted[req[t].key])
       /\ pc[t] = "get" /\ req[t].op = "upsert" =>
            req[t].terms \in granted[req[t].key]
       /\ pc[t] \notin {"idle", "get"} /\ req[t].op = "sign" =>
            TradeFits(req[t], copy[t])

LEMMA RowFitsGrows ==
  ASSUME NEW s, NEW G, NEW H, G \subseteq H, RowFits(s, G)
  PROVE  RowFits(s, H)
  BY DEF RowFits

\* The key of a request in flight.
LEMMA BusyKey ==
  ASSUME TypeOK, NEW t \in Tasks, pc[t] # "idle"
  PROVE  req[t] \in Requests /\ req[t].key \in Keys
  BY RequestFields DEF TypeOK

LEMMA ReceiveGrant ==
  ASSUME TypeOK, GrantInv, NEW t \in Tasks, NEW r \in Requests, Receive(t, r),
         \A k \in Keys : granted[k] \subseteq granted'[k],
         r.op = "upsert" => r.terms \in granted'[r.key]
  PROVE  GrantInv'
  <1> USE DEF Receive, tableVars
  <1>1. ASSUME NEW k \in Keys
        PROVE  /\ table'[k] # NoItem => RowFits(table'[k].val, granted'[k])
               /\ replica'[k] # NoItem => RowFits(replica'[k].val, granted'[k])
    BY RowFitsGrows DEF GrantInv
  <1>2. ASSUME NEW u \in Tasks
        PROVE  /\ pc'[u] \notin {"idle", "get"} =>
                    RowFits(copy'[u], granted'[req'[u].key])
               /\ pc'[u] = "get" /\ req'[u].op = "upsert" =>
                    req'[u].terms \in granted'[req'[u].key]
               /\ pc'[u] \notin {"idle", "get"} /\ req'[u].op = "sign" =>
                    TradeFits(req'[u], copy'[u])
    <2>1. CASE u = t
      BY <2>1 DEF TypeOK
    <2>2. CASE u # t
      <3>1. pc'[u] = pc[u] /\ req'[u] = req[u] /\ copy'[u] = copy[u]
        BY <2>2 DEF TypeOK
      <3>2. pc[u] # "idle" => granted[req[u].key] \subseteq granted'[req[u].key]
        BY BusyKey
      <3> QED BY <3>1, <3>2, RowFitsGrows DEF GrantInv
    <2> QED BY <2>1, <2>2
  <1> QED BY <1>1, <1>2 DEF GrantInv

\* A task step: only t moves, no registration, no new replica.
LEMMA StepGrant ==
  ASSUME TypeOK, GrantInv, NEW t \in Tasks,
         UNCHANGED <<replica, granted>>,
         \A u \in Tasks \ {t} :
           pc'[u] = pc[u] /\ req'[u] = req[u] /\ copy'[u] = copy[u],
         \A k \in Keys :
           table'[k] = table[k] \/ table'[k] = NoItem
             \/ RowFits(table'[k].val, granted[k]),
         pc'[t] # "get",
         pc'[t] # "idle" =>
           /\ req'[t] = req[t]
           /\ RowFits(copy'[t], granted[req[t].key])
           /\ req[t].op = "sign" => TradeFits(req[t], copy'[t])
  PROVE  GrantInv'
  <1>1. ASSUME NEW k \in Keys
        PROVE  /\ table'[k] # NoItem => RowFits(table'[k].val, granted'[k])
               /\ replica'[k] # NoItem => RowFits(replica'[k].val, granted'[k])
    BY DEF GrantInv
  <1>2. ASSUME NEW u \in Tasks
        PROVE  /\ pc'[u] \notin {"idle", "get"} =>
                    RowFits(copy'[u], granted'[req'[u].key])
               /\ pc'[u] = "get" /\ req'[u].op = "upsert" =>
                    req'[u].terms \in granted'[req'[u].key]
               /\ pc'[u] \notin {"idle", "get"} /\ req'[u].op = "sign" =>
                    TradeFits(req'[u], copy'[u])
    <2>1. CASE u = t
      BY <2>1
    <2>2. CASE u # t
      BY <2>2 DEF GrantInv
    <2> QED BY <2>1, <2>2
  <1> QED BY <1>1, <1>2 DEF GrantInv

LEMMA DoneGrant ==
  ASSUME TypeOK, GrantInv, NEW t \in Tasks, Done(t), UNCHANGED <<replica, granted>>,
         \A k \in Keys :
           table'[k] = table[k] \/ table'[k] = NoItem
             \/ RowFits(table'[k].val, granted[k])
  PROVE  GrantInv'
  <1>1. /\ pc'[t] = "idle"
        /\ \A u \in Tasks \ {t} :
             pc'[u] = pc[u] /\ req'[u] = req[u] /\ copy'[u] = copy[u]
    BY DEF Done, TypeOK
  <1> QED BY <1>1, StepGrant

LEMMA IssuePutGrant ==
  ASSUME TypeOK, GrantInv, NEW t \in Tasks, NEW s, IssuePut(t, s),
         UNCHANGED <<tableVars, historyVars>>,
         RowFits(s, granted[req[t].key]),
         req[t].op = "sign" => TradeFits(req[t], s)
  PROVE  GrantInv'
  <1>1. /\ pc'[t] = "put"
        /\ copy'[t] = s
        /\ req'[t] = req[t]
        /\ \A u \in Tasks \ {t} :
             pc'[u] = pc[u] /\ req'[u] = req[u] /\ copy'[u] = copy[u]
    BY DEF IssuePut, TypeOK
  <1> QED BY <1>1, StepGrant DEF tableVars, historyVars

\* What a handler reads keeps within the registrations.
LEMMA ReadFits ==
  ASSUME TypeOK, GrantInv, NEW k \in Keys, NEW found \in Reads(k), found # NoItem
  PROVE  found.val \in Session /\ RowFits(found.val, granted[k])
  BY ReadsItems DEF GrantInv, Reads, Items

\* The debit of a trade that passed check_session_bounds.
LEMMA DebitFits ==
  ASSUME NEW s \in Session, NEW G, RowFits(s, G),
         NEW r \in Requests, r.op = "sign",
         WithinBounds(s, r.asset, r.size, r.at)
  PROVE  RowFits(Debited(s, r.size), G) /\ TradeFits(r, Debited(s, r.size))
  <1>1. r.size \in Nat /\ r.at \in Nat
    BY RequestFields
  <1>2. /\ s.used \in Nat
        /\ s.terms.exp \in Nat
        /\ s.terms.cap \in Int
        /\ s.terms.perMax \in Int
    BY DEF Session, Terms, Amounts
  <1>3. /\ s.used + r.size <= s.terms.cap
        /\ r.size <= s.terms.cap
        /\ r.size <= s.terms.perMax
        /\ r.at <= s.terms.exp
    BY <1>1, <1>2 DEF WithinBounds
  <1>4. /\ Debited(s, r.size).terms = s.terms
        /\ Debited(s, r.size).used = s.used + r.size
        /\ Debited(s, r.size).revoked = s.revoked
    BY <1>1, DebitedSession
  <1> QED BY <1>3, <1>4 DEF RowFits, TradeFits, WithinBounds

LEMMA GrantInductive == TypeOK /\ GrantInv /\ [Next]_vars => GrantInv'
  <1> SUFFICES ASSUME TypeOK, GrantInv, [Next]_vars PROVE GrantInv'
    OBVIOUS
  <1> USE DEF tableVars, historyVars, taskVars
  <1>1. ASSUME NEW t \in Tasks, NEW k \in Keys, ReceiveUpsert(t, k) PROVE GrantInv'
    <2>1. PICK terms \in TermSet : Receive(t, Upsert(k, terms)) /\
             granted' = [granted EXCEPT ![k] = @ \cup {terms}]
      BY <1>1 DEF ReceiveUpsert
    <2>2. Upsert(k, terms) \in Requests
      BY DEF Upsert, Requests, TypeOK
    <2>3. \A j \in Keys : granted[j] \subseteq granted'[j]
      BY <2>1 DEF TypeOK
    <2>4. Upsert(k, terms).terms \in granted'[Upsert(k, terms).key]
      BY <2>1 DEF Upsert, TypeOK
    <2> QED BY <2>1, <2>2, <2>3, <2>4, ReceiveGrant
  <1>2. ASSUME NEW t \in Tasks, NEW k \in Keys, ReceiveRevoke(t, k) PROVE GrantInv'
    <2>1. Revoke(k) \in Requests /\ Revoke(k).op # "upsert"
      BY DEF Revoke, Requests
    <2> QED BY <1>2, <2>1, ReceiveGrant DEF ReceiveRevoke
  <1>3. ASSUME NEW t \in Tasks, NEW k \in Keys, ReceiveSign(t, k) PROVE GrantInv'
    <2>1. PICK asset \in Assets, size \in Sizes, signable \in BOOLEAN :
             Receive(t, Sign(k, asset, size, signable)) /\ UNCHANGED granted
      BY <1>3 DEF ReceiveSign
    <2>2. Sign(k, asset, size, signable) \in Requests
      BY DEF Sign, Requests, TypeOK
    <2>3. Sign(k, asset, size, signable).op # "upsert"
      BY DEF Sign
    <2> QED BY <2>1, <2>2, <2>3, ReceiveGrant
  <1>4. ASSUME NEW t \in Tasks, UpsertGet(t) PROVE GrantInv'
    <2>1. PICK found \in Reads(req[t].key) :
             IssuePut(t, Registered(found, req[t].terms, req[t].at))
      BY <1>4 DEF UpsertGet
    <2>2. req[t] \in Requests /\ req[t].key \in Keys
      BY <1>4, BusyKey DEF UpsertGet
    <2>3. req[t].terms \in TermSet /\ req[t].at \in Nat /\ req[t].op # "sign"
      BY <1>4, <2>2, RequestFields DEF UpsertGet
    <2>4. req[t].terms \in granted[req[t].key]
      BY <1>4 DEF UpsertGet, GrantInv
    <2> DEFINE s == Registered(found, req[t].terms, req[t].at)
    <2>5. s.terms = req[t].terms /\ s.used = IF found = NoItem THEN 0 ELSE found.val.used
      BY <2>2, <2>3, ReadsItems, RegisteredSession
    <2>6. RowFits(s, granted[req[t].key])
      BY <2>2, <2>4, <2>5, ReadFits DEF RowFits
    <2> QED BY <1>4, <2>1, <2>3, <2>6, IssuePutGrant DEF UpsertGet
  <1>5. ASSUME NEW t \in Tasks, RevokeGet(t) PROVE GrantInv'
    <2>1. PICK found \in Reads(req[t].key) :
             \/ found # NoItem /\ IssuePut(t, Revoked(found.val))
             \/ found = NoItem /\ Done(t)
      BY <1>5 DEF RevokeGet
    <2>2. CASE found # NoItem /\ IssuePut(t, Revoked(found.val))
      <3>1. req[t].key \in Keys
        BY <1>5, BusyKey DEF RevokeGet
      <3>2. found.val \in Session /\ RowFits(found.val, granted[req[t].key])
        BY <2>2, <3>1, ReadFits
      <3>3. RowFits(Revoked(found.val), granted[req[t].key])
        BY <3>2, RevokedSession DEF RowFits
      <3> QED BY <1>5, <2>2, <3>3, IssuePutGrant DEF RevokeGet
    <2>3. CASE found = NoItem /\ Done(t)
      BY <1>5, <2>3, DoneGrant DEF RevokeGet
    <2> QED BY <2>1, <2>2, <2>3
  <1>6. ASSUME NEW t \in Tasks, SignDebits(t) PROVE GrantInv'
    <2>1. PICK found \in Reads(req[t].key) \ {NoItem} :
             /\ WithinBounds(found.val, req[t].asset, req[t].size, req[t].at)
             /\ IssuePut(t, Debited(found.val, req[t].size))
      BY <1>6 DEF SignDebits
    <2>2. req[t] \in Requests /\ req[t].key \in Keys
      BY <1>6, BusyKey DEF SignDebits
    <2>3. found.val \in Session /\ RowFits(found.val, granted[req[t].key])
      BY <2>2, ReadFits
    <2> QED BY <1>6, <2>1, <2>2, <2>3, DebitFits, IssuePutGrant DEF SignDebits
  <1>7. ASSUME NEW t \in Tasks,
               \/ SignRejected(t) \/ SignInteractive(t) \/ Reply(t) \/ Release(t)
               \/ SignFails(t) \/ AbandonGet(t) \/ LostWrite(t)
        PROVE  GrantInv'
    <2>1. Done(t) /\ UNCHANGED <<tableVars, granted>>
      BY <1>7 DEF SignRejected, SignInteractive, Reply, Release, SignFails,
                  AbandonGet, LostWrite
    <2> QED BY <2>1, DoneGrant
  <1>8. ASSUME NEW t \in Tasks, Write(t) PROVE GrantInv'
    <2>1. req[t].key \in Keys /\ RowFits(copy[t], granted[req[t].key])
      BY <1>8, BusyKey DEF Write, GrantInv
    <2>2. \A k \in Keys : table'[k] = table[k] \/ RowFits(table'[k].val, granted[k])
      BY <1>8, <2>1 DEF Write, PutItem, TypeOK
    <2>3. /\ pc'[t] = "wrote"
          /\ UNCHANGED <<replica, granted, req, copy>>
          /\ \A u \in Tasks \ {t} : pc'[u] = pc[u]
      BY <1>8 DEF Write, TypeOK
    <2>4. req[t].op = "sign" => TradeFits(req[t], copy[t])
      BY <1>8 DEF Write, GrantInv
    <2> QED BY <2>1, <2>2, <2>3, <2>4, StepGrant
  <1>9. ASSUME NEW t \in Tasks, LateWrite(t) PROVE GrantInv'
    <2>1. req[t].key \in Keys /\ RowFits(copy[t], granted[req[t].key])
      BY <1>9, BusyKey DEF LateWrite, GrantInv
    <2>2. \A k \in Keys : table'[k] = table[k] \/ RowFits(table'[k].val, granted[k])
      BY <1>9, <2>1 DEF LateWrite, PutItem, TypeOK
    <2> QED BY <1>9, <2>2, DoneGrant DEF LateWrite
  <1>10. ASSUME NEW t \in Tasks, AbandonPut(t) PROVE GrantInv'
    <2>1. /\ pc'[t] \in {"orphan", "echo"}
          /\ \A u \in Tasks \ {t} : pc'[u] = pc[u]
          /\ UNCHANGED <<tableVars, granted, req, copy>>
      BY <1>10 DEF AbandonPut, TypeOK
    <2>2. /\ RowFits(copy[t], granted[req[t].key])
          /\ req[t].op = "sign" => TradeFits(req[t], copy[t])
      BY <1>10 DEF AbandonPut, GrantInv
    <2> QED BY <2>1, <2>2, StepGrant
  <1>11. ASSUME NEW k \in Keys, ReapSession(k) PROVE GrantInv'
    <2>1. /\ \A j \in Keys : table'[j] \in {table[j], NoItem}
          /\ UNCHANGED <<replica, pc, req, copy, granted>>
      BY <1>11 DEF ReapSession, Reap, DeleteItem, TypeOK
    <2> QED BY <2>1 DEF GrantInv
  <1>12. ASSUME NEW k \in Keys, Replicate(k), UNCHANGED <<taskVars, historyVars>>
         PROVE  GrantInv'
    <2>1. /\ \A j \in Keys : replica'[j] \in {replica[j], table[j]}
          /\ UNCHANGED <<table, pc, req, copy, granted>>
      BY <1>12 DEF Replicate, TypeOK
    <2> QED BY <2>1 DEF GrantInv
  <1>13. CASE \/ Tick /\ UNCHANGED <<taskVars, historyVars>>
              \/ UNCHANGED vars
    BY <1>13 DEF Tick, vars, GrantInv
  <1> QED
    BY <1>1, <1>2, <1>3, <1>4, <1>5, <1>6, <1>7, <1>8, <1>9, <1>10, <1>11, <1>12, <1>13
       DEF Next, TaskStep, ReceiveStep, TableStep

LEMMA GrantsHold == Spec => [](TypeOK /\ GrantInv)
  <1>1. Init => TypeOK /\ GrantInv
    BY TableAssumption DEF Init, TableInit, TypeOK, GrantInv
  <1> QED
    BY <1>1, TypeInductive, GrantInductive, PTL DEF Spec

\* A row in RowsOf(k) is stored, replicated or held by a task busy with k.
LEMMA RowsOfFit ==
  ASSUME TypeOK, GrantInv, NEW k \in Keys, NEW s \in RowsOf(k)
  PROVE  RowFits(s, granted[k])
  BY DEF RowsOf, Holders, Busy, GrantInv

\* Whatever overlaps and however stale the reads, every trade past its check
\* fits a registration its user made, and no row blends two registrations.
THEOREM TradesWithinGrant == Spec => []SignedWithinGrant
  <1>1. TypeOK /\ GrantInv => SignedWithinGrant
    <2> SUFFICES ASSUME TypeOK, GrantInv PROVE SignedWithinGrant
      OBVIOUS
    <2>1. \A k \in Keys : \A s \in RowsOf(k) : s.terms \in granted[k]
      BY RowsOfFit DEF RowFits
    <2>2. ASSUME NEW t \in Tasks, pc[t] = "wrote", req[t].op = "sign"
          PROVE  \E g \in granted[req[t].key] :
                   /\ req[t].at <= g.exp
                   /\ req[t].asset \in g.assets
                   /\ req[t].size <= g.perMax
                   /\ req[t].size <= g.cap
      <3>1. copy[t].terms \in granted[req[t].key] /\ TradeFits(req[t], copy[t])
        BY <2>2 DEF GrantInv, RowFits
      <3> QED BY <3>1 DEF TradeFits
    <2> QED BY <2>1, <2>2 DEF SignedWithinGrant
  <1> QED BY <1>1, GrantsHold, PTL

\* However debits overwrite one another, no row records more spend than the
\* largest cap registered for its user.
THEOREM SpendWithinCap == Spec => []UsedWithinSomeCap
  <1>1. TypeOK /\ GrantInv => UsedWithinSomeCap
    BY RowsOfFit DEF UsedWithinSomeCap, RowFits
  <1> QED BY <1>1, GrantsHold, PTL

-----------------------------------------------------------------------------
(* A settled revocation. *)

\* While k's revocation is settled: its stored item, what a get returns and
\* every row a handler is about to put are revoked.
LEMMA SettledFacts ==
  ASSUME TypeOK, NEW k \in Keys, RevocationSettled(k)
  PROVE  /\ table[k] # NoItem /\ table[k].val.revoked
         /\ \A found \in Reads(k) : found # NoItem /\ found.val.revoked
         /\ \A t \in Tasks : pc[t] # "idle" /\ req[t].key = k =>
              /\ req[t].op # "upsert"
              /\ pc[t] # "get" => copy[t].revoked
  BY DEF RevocationSettled, RowsOf, Holders, Busy, Reads

\* A task step that puts no unrevoked row leaves it settled.
LEMMA SettledStep ==
  ASSUME TypeOK, NEW k \in Keys, RevocationSettled(k), NEW t \in Tasks,
         UNCHANGED replica,
         \A u \in Tasks \ {t} :
           pc'[u] = pc[u] /\ req'[u] = req[u] /\ copy'[u] = copy[u],
         table'[k] # NoItem /\ table'[k].val.revoked,
         pc'[t] # "idle" /\ req'[t].key = k =>
           /\ req'[t].op # "upsert"
           /\ pc'[t] # "get" => copy'[t].revoked
  PROVE  RevocationSettled(k)'
  <1>1. /\ replica'[k] # NoItem => replica'[k].val.revoked
        /\ ConsistentReads \/ replica'[k] # NoItem
    BY DEF RevocationSettled, RowsOf
  <1>2. \A u \in Tasks : pc'[u] # "idle" /\ req'[u].key = k =>
          /\ req'[u].op # "upsert"
          /\ pc'[u] # "get" => copy'[u].revoked
    BY SettledFacts
  <1>3. /\ table'[k] # NoItem /\ \A s \in RowsOf(k)' : s.revoked
        /\ \A u \in Busy(k)' : req'[u].op # "upsert"
    BY <1>1, <1>2 DEF RowsOf, Holders, Busy
  <1> QED BY <1>1, <1>3 DEF RevocationSettled

LEMMA SettledNext ==
  ASSUME TypeOK, GrantInv, Next, NEW k \in Keys, RevocationSettled(k)
  PROVE  \/ /\ RevocationSettled(k)'
            /\ \A t \in Busy(k) : ~(Release(t) \/ SignInteractive(t))
         \/ table'[k] = NoItem
         \/ \E t \in Tasks : ReceiveUpsert(t, k)
  <1> USE DEF tableVars, historyVars, taskVars
  <1>1. ASSUME NEW t \in Busy(k) PROVE ~Release(t)
    <2> SUFFICES ASSUME Release(t) PROVE FALSE
      OBVIOUS
    <2>1. ~copy[t].revoked
      BY DEF Release, GrantInv, TradeFits, Busy
    <2> QED BY <2>1, SettledFacts DEF Release, Busy
  <1>2. ASSUME NEW t \in Busy(k) PROVE ~SignInteractive(t)
    BY <1>2, SettledFacts DEF SignInteractive, Busy
  <1> SUFFICES \/ RevocationSettled(k)' \/ table'[k] = NoItem
               \/ \E t \in Tasks : ReceiveUpsert(t, k)
    BY <1>1, <1>2
  <1>3. ASSUME NEW t \in Tasks, NEW j \in Keys, ReceiveStep(t, j),
               ~ReceiveUpsert(t, k)
        PROVE  RevocationSettled(k)'
    <2>1. ASSUME NEW r, Receive(t, r), r.op = "upsert" => r.key # k
          PROVE  RevocationSettled(k)'
      <3>1. /\ pc'[t] = "get" /\ req'[t] = r
            /\ UNCHANGED <<table, replica>>
            /\ \A u \in Tasks \ {t} :
                 pc'[u] = pc[u] /\ req'[u] = req[u] /\ copy'[u] = copy[u]
        BY <2>1 DEF Receive, TypeOK
      <3> QED BY <2>1, <3>1, SettledFacts, SettledStep
    <2>2. CASE ReceiveUpsert(t, j)
      <3>1. PICK terms \in TermSet : Receive(t, Upsert(j, terms))
        BY <2>2 DEF ReceiveUpsert
      <3>2. Upsert(j, terms).key # k
        BY <1>3, <2>2 DEF Upsert
      <3> QED BY <2>1, <3>1, <3>2
    <2>3. CASE ReceiveRevoke(t, j)
      BY <2>1, <2>3 DEF ReceiveRevoke, Revoke
    <2>4. CASE ReceiveSign(t, j)
      <3>1. PICK asset \in Assets, size \in Sizes, signable \in BOOLEAN :
               Receive(t, Sign(j, asset, size, signable))
        BY <2>4 DEF ReceiveSign
      <3>2. Sign(j, asset, size, signable).op # "upsert"
        BY DEF Sign
      <3> QED BY <2>1, <3>1, <3>2
    <2> QED BY <1>3, <2>2, <2>3, <2>4 DEF ReceiveStep
  <1>4. ASSUME NEW t \in Tasks, NEW s, IssuePut(t, s), UNCHANGED tableVars,
               req[t].key = k => req[t].op # "upsert" /\ s.revoked
        PROVE  RevocationSettled(k)'
    <2>1. /\ pc'[t] = "put" /\ req'[t] = req[t] /\ copy'[t] = s
          /\ \A u \in Tasks \ {t} :
               pc'[u] = pc[u] /\ req'[u] = req[u] /\ copy'[u] = copy[u]
      BY <1>4 DEF IssuePut, TypeOK
    <2> QED BY <1>4, <2>1, SettledFacts, SettledStep
  <1>5. ASSUME NEW t \in Tasks, Done(t), UNCHANGED replica,
               table'[k] # NoItem /\ table'[k].val.revoked
        PROVE  RevocationSettled(k)'
    <2>1. /\ pc'[t] = "idle"
          /\ \A u \in Tasks \ {t} :
               pc'[u] = pc[u] /\ req'[u] = req[u] /\ copy'[u] = copy[u]
      BY <1>5 DEF Done, TypeOK
    <2> QED BY <1>5, <2>1, SettledStep
  <1>6. ASSUME NEW t \in Tasks, UpsertGet(t) PROVE RevocationSettled(k)'
    <2>1. PICK found \in Reads(req[t].key) :
             IssuePut(t, Registered(found, req[t].terms, req[t].at))
      BY <1>6 DEF UpsertGet
    <2>2. req[t].key # k
      BY <1>6, SettledFacts DEF UpsertGet
    <2> QED BY <1>4, <1>6, <2>1, <2>2 DEF UpsertGet
  <1>7. ASSUME NEW t \in Tasks, RevokeGet(t) PROVE RevocationSettled(k)'
    <2>1. PICK found \in Reads(req[t].key) :
             \/ found # NoItem /\ IssuePut(t, Revoked(found.val))
             \/ found = NoItem /\ Done(t)
      BY <1>7 DEF RevokeGet
    <2>2. CASE found # NoItem /\ IssuePut(t, Revoked(found.val))
      <3>1. req[t].key \in Keys
        BY <1>7, BusyKey DEF RevokeGet
      <3>2. Revoked(found.val).revoked
        BY <2>2, <3>1, ReadFits, RevokedSession
      <3> QED BY <1>4, <1>7, <2>2, <3>2 DEF RevokeGet
    <2>3. CASE found = NoItem /\ Done(t)
      BY <1>5, <1>7, <2>3, SettledFacts DEF RevokeGet
    <2> QED BY <2>1, <2>2, <2>3
  <1>8. ASSUME NEW t \in Tasks, SignDebits(t) PROVE RevocationSettled(k)'
    <2>1. PICK found \in Reads(req[t].key) \ {NoItem} :
             /\ WithinBounds(found.val, req[t].asset, req[t].size, req[t].at)
             /\ IssuePut(t, Debited(found.val, req[t].size))
      BY <1>8 DEF SignDebits
    <2>2. req[t].key # k
      BY <2>1, SettledFacts DEF WithinBounds
    <2> QED BY <1>4, <1>8, <2>1, <2>2 DEF SignDebits
  <1>9. ASSUME NEW t \in Tasks,
               \/ SignRejected(t) \/ SignInteractive(t) \/ Reply(t) \/ Release(t)
               \/ SignFails(t) \/ AbandonGet(t) \/ LostWrite(t)
        PROVE  RevocationSettled(k)'
    <2>1. Done(t) /\ UNCHANGED tableVars
      BY <1>9 DEF SignRejected, SignInteractive, Reply, Release, SignFails,
                  AbandonGet, LostWrite
    <2> QED BY <1>5, <2>1, SettledFacts
  <1>10. ASSUME NEW t \in Tasks, Write(t) PROVE RevocationSettled(k)'
    <2>1. /\ pc'[t] = "wrote"
          /\ UNCHANGED <<replica, req, copy>>
          /\ \A u \in Tasks \ {t} : pc'[u] = pc[u]
      BY <1>10 DEF Write, TypeOK
    <2>2. /\ pc[t] # "idle" /\ pc[t] # "get"
          /\ table' = [table EXCEPT ![req[t].key] =
               [val |-> copy[t], ttl |-> copy[t].terms.exp]]
      BY <1>10 DEF Write, PutItem
    <2>3. table'[k] # NoItem /\ table'[k].val.revoked
      <3>1. CASE req[t].key = k
        <4>1. table'[k] = [val |-> copy[t], ttl |-> copy[t].terms.exp]
          BY <2>2, <3>1 DEF TypeOK
        <4>2. table'[k] # NoItem
          BY <1>10, <4>1, JupiterAssumption DEF TypeOK, Items, Session, Terms, Write
        <4> QED BY <2>2, <3>1, <4>1, <4>2, SettledFacts
      <3>2. CASE req[t].key # k
        BY <2>2, <3>2, SettledFacts DEF TypeOK
      <3> QED BY <3>1, <3>2
    <2> QED BY <2>1, <2>2, <2>3, SettledFacts, SettledStep
  <1>11. ASSUME NEW t \in Tasks, LateWrite(t) PROVE RevocationSettled(k)'
    <2>1. /\ pc[t] # "idle" /\ pc[t] # "get"
          /\ table' = [table EXCEPT ![req[t].key] =
               [val |-> copy[t], ttl |-> copy[t].terms.exp]]
      BY <1>11 DEF LateWrite, PutItem
    <2>2. table'[k] # NoItem /\ table'[k].val.revoked
      <3>1. CASE req[t].key = k
        <4>1. table'[k] = [val |-> copy[t], ttl |-> copy[t].terms.exp]
          BY <2>1, <3>1 DEF TypeOK
        <4>2. table'[k] # NoItem
          BY <1>11, <4>1, JupiterAssumption DEF TypeOK, Items, Session, Terms, LateWrite
        <4> QED BY <2>1, <3>1, <4>1, <4>2, SettledFacts
      <3>2. CASE req[t].key # k
        BY <2>1, <3>2, SettledFacts DEF TypeOK
      <3> QED BY <3>1, <3>2
    <2> QED BY <1>5, <1>11, <2>2 DEF LateWrite
  <1>12. ASSUME NEW t \in Tasks, AbandonPut(t) PROVE RevocationSettled(k)'
    <2>1. /\ pc[t] # "idle" /\ pc[t] # "get"
          /\ UNCHANGED <<table, replica, req, copy>>
          /\ \A u \in Tasks \ {t} : pc'[u] = pc[u]
      BY <1>12 DEF AbandonPut, TypeOK
    <2> QED BY <2>1, SettledFacts, SettledStep
  <1>13. ASSUME NEW j \in Keys, ReapSession(j)
         PROVE  RevocationSettled(k)' \/ table'[k] = NoItem
    <2>1. UNCHANGED <<replica, pc, req, copy>>
      BY <1>13 DEF ReapSession, Reap
    <2>2. CASE j = k
      BY <1>13, <2>2 DEF ReapSession, Reap, DeleteItem, TypeOK
    <2>3. CASE j # k
      <3>1. table'[k] = table[k]
        BY <1>13, <2>3 DEF ReapSession, Reap, DeleteItem, TypeOK
      <3> QED BY <2>1, <3>1 DEF RevocationSettled, RowsOf, Holders, Busy
    <2> QED BY <2>2, <2>3
  <1>14. ASSUME NEW j \in Keys, Replicate(j), UNCHANGED taskVars
         PROVE  RevocationSettled(k)'
    <2>1. UNCHANGED <<table, pc, req, copy>> /\ replica'[k] \in {replica[k], table[k]}
      BY <1>14 DEF Replicate, TypeOK
    <2> QED BY <2>1 DEF RevocationSettled, RowsOf, Holders, Busy
  <1>15. CASE Tick /\ UNCHANGED taskVars
    BY <1>15 DEF Tick, RevocationSettled, RowsOf, Holders, Busy
  <1> QED
    BY <1>3, <1>6, <1>7, <1>8, <1>9, <1>10, <1>11, <1>12, <1>13, <1>14, <1>15
       DEF Next, TaskStep, TableStep

\* Once every copy of a row is revoked, no signature is made for its user and
\* no handler lifts the revocation, until a registration or the reaper does.
THEOREM RevocationSettles == Spec => SettledRevocationHolds
  <1>1. TypeOK /\ GrantInv /\ [Next]_vars =>
          [\A k \in Keys : RevocationSettled(k) =>
             \/ /\ RevocationSettled(k)'
                /\ \A t \in Busy(k) : ~(Release(t) \/ SignInteractive(t))
             \/ table'[k] = NoItem
             \/ \E t \in Tasks : ReceiveUpsert(t, k)]_vars
    BY SettledNext
  <1> QED BY <1>1, GrantsHold, PTL DEF Spec, SettledRevocationHolds

-----------------------------------------------------------------------------
(* One request of a user at a time: the inductive invariant. *)

\* One request per user that none has overtaken.
OnePerKey ==
  \A t, u \in Tasks \ overtaken :
    pc[t] # "idle" /\ pc[u] # "idle" /\ req[t].key = req[u].key => t = u

\* What request r, at p, holds against the item stored for its user: the row
\* it will put is its own change of that item, the row it has put is that
\* item, and a debit that was put leaves room for the trade.
Follows(p, r, c, item, n) ==
  /\ p \in {"put", "orphan"} =>
       /\ r.op = "upsert" => c = Registered(item, r.terms, r.at)
       /\ r.op = "revoke" => item # NoItem /\ c = Revoked(item.val)
       /\ r.op = "sign" => /\ item # NoItem
                           /\ WithinBounds(item.val, r.asset, r.size, r.at)
                           /\ c = Debited(item.val, r.size)
  /\ p \in {"wrote", "echo"} => item # NoItem /\ item.val = c
  /\ p = "wrote" /\ r.op = "sign" => n + r.size <= c.used

TaskSerial(t) ==
  pc[t] # "idle" =>
    /\ t \notin overtaken /\ req[t].key \notin late =>
         Follows(pc[t], req[t], copy[t], table[req[t].key], spent[req[t].key])
    /\ req[t].op = "upsert" => req[t].at <= now

RowSerial(k) ==
  /\ table[k] # NoItem => table[k].ttl = table[k].val.terms.exp
  /\ k \notin late => spent[k] <= IF table[k] = NoItem THEN 0 ELSE table[k].val.used

SerialInv ==
  /\ OnePerKey
  /\ \A t \in Tasks : TaskSerial(t)
  /\ \A k \in Keys : RowSerial(k)

-----------------------------------------------------------------------------
(* Steps of one task. *)

OthersStay(t) ==
  \A u \in Tasks \ {t} : /\ pc'[u] = pc[u] /\ req'[u] = req[u] /\ copy'[u] = copy[u]
                         /\ u \in overtaken' <=> u \in overtaken

\* Task t ends or goes on with its request; at most its user's row changes.  An
\* overtaken one ends, and is lost or marks its user.
LEMMA SerialStep ==
  ASSUME TypeOK, SerialInv, NEW t \in Tasks, pc[t] # "idle",
         NEW k \in Keys, k = req[t].key,
         OthersStay(t), UNCHANGED now,
         \A j \in Keys \ {k} : /\ table'[j] = table[j] /\ spent'[j] = spent[j]
                               /\ j \in late' <=> j \in late,
         k \in late => k \in late',
         RowSerial(k)',
         t \in overtaken =>
           k \in late' \/ (table'[k] = table[k] /\ spent'[k] = spent[k]),
         pc'[t] # "idle" =>
           /\ t \notin overtaken
           /\ req'[t] = req[t]
           /\ k \notin late' => Follows(pc'[t], req[t], copy'[t], table'[k], spent'[k])
  PROVE  SerialInv'
  <1>1. OnePerKey'
    BY DEF SerialInv, OnePerKey, OthersStay
  <1>2. ASSUME NEW u \in Tasks PROVE TaskSerial(u)'
    <2>1. CASE u = t
      BY <2>1 DEF SerialInv, TaskSerial
    <2>2. CASE u # t /\ pc[u] # "idle"
      <3>1. req[u].key \in Keys
        BY <2>2, BusyKey
      <3>2. CASE req[u].key # k
        BY <2>2, <3>1, <3>2 DEF SerialInv, TaskSerial, OthersStay
      <3>3. CASE req[u].key = k /\ t \notin overtaken
        <4>1. u \in overtaken
          BY <2>2, <3>3 DEF SerialInv, OnePerKey
        <4> QED BY <2>2, <4>1 DEF SerialInv, TaskSerial, OthersStay
      <3>4. CASE req[u].key = k /\ t \in overtaken
        BY <2>2, <3>4 DEF SerialInv, TaskSerial, OthersStay
      <3> QED BY <3>2, <3>3, <3>4
    <2>3. CASE u # t /\ pc[u] = "idle"
      BY <2>3 DEF TaskSerial, OthersStay
    <2> QED BY <2>1, <2>2, <2>3
  <1>3. ASSUME NEW j \in Keys PROVE RowSerial(j)'
    <2>1. CASE j = k
      BY <2>1
    <2>2. CASE j # k
      BY <2>2 DEF SerialInv, RowSerial
    <2> QED BY <2>1, <2>2
  <1> QED BY <1>1, <1>2, <1>3 DEF SerialInv

\* A request starts: those still in flight for its user are overtaken.
LEMMA ReceiveSerial ==
  ASSUME ~Overlap, TypeOK, SerialInv, NEW t \in Tasks, NEW r \in Requests,
         Receive(t, r), r.op = "upsert" => r.at <= now
  PROVE  SerialInv'
  <1>1. /\ pc'[t] = "get" /\ req'[t] = r /\ t \notin Busy(r.key)
        /\ \A u \in Tasks \ {t} : pc'[u] = pc[u] /\ req'[u] = req[u] /\ copy'[u] = copy[u]
        /\ overtaken' = overtaken \cup Busy(r.key)
        /\ UNCHANGED <<table, now, spent, late>>
    BY DEF Receive, Exclusive, tableVars, TypeOK, Leftovers, Busy
  <1>2. OnePerKey'
    BY <1>1 DEF SerialInv, OnePerKey, Busy
  <1>3. ASSUME NEW u \in Tasks PROVE TaskSerial(u)'
    <2>1. CASE u = t
      BY <1>1, <2>1 DEF TaskSerial, Follows
    <2>2. CASE u # t
      BY <1>1, <2>2 DEF SerialInv, TaskSerial
    <2> QED BY <2>1, <2>2
  <1>4. \A k \in Keys : RowSerial(k)'
    BY <1>1 DEF SerialInv, RowSerial
  <1> QED BY <1>2, <1>3, <1>4 DEF SerialInv

LEMMA DoneSerial ==
  ASSUME TypeOK, SerialInv, NEW t \in Tasks, pc[t] # "idle", Done(t),
         UNCHANGED <<table, now, spent, late>>
  PROVE  SerialInv'
  <1> PICK k \in Keys : k = req[t].key
    BY BusyKey
  <1>1. pc'[t] = "idle" /\ OthersStay(t)
    BY DEF Done, TypeOK, OthersStay
  <1>2. RowSerial(k)'
    BY DEF SerialInv, RowSerial
  <1> QED BY <1>1, <1>2, SerialStep

LEMMA IssuePutSerial ==
  ASSUME TypeOK, SerialInv, NEW t \in Tasks, pc[t] = "get", NEW s, IssuePut(t, s),
         UNCHANGED <<tableVars, historyVars>>,
         Follows("put", req[t], s, table[req[t].key], spent[req[t].key])
  PROVE  SerialInv'
  <1> PICK k \in Keys : k = req[t].key
    BY BusyKey
  <1>1. /\ pc'[t] = "put" /\ req'[t] = req[t] /\ copy'[t] = s
        /\ OthersStay(t) /\ t \notin overtaken
        /\ UNCHANGED <<table, now, spent, late>>
    BY DEF IssuePut, TypeOK, OthersStay, tableVars, historyVars
  <1>2. RowSerial(k)'
    BY <1>1 DEF SerialInv, RowSerial
  <1> QED BY <1>1, <1>2, SerialStep

\* The put of a task's row.
LEMMA PutRow ==
  ASSUME TypeOK, SerialInv, NEW t \in Tasks, pc[t] \notin {"idle", "get"},
         PutItem(req[t].key, copy[t], copy[t].terms.exp)
  PROVE  /\ req[t].key \in Keys
         /\ table'[req[t].key] # NoItem
         /\ table'[req[t].key].val = copy[t]
         /\ table'[req[t].key].ttl = copy[t].terms.exp
         /\ \A k \in Keys \ {req[t].key} : table'[k] = table[k]
  <1>1. req[t].key \in Keys /\ copy[t] \in Session
    BY BusyKey DEF TypeOK
  <1>2. [val |-> copy[t], ttl |-> copy[t].terms.exp] \in Items
    BY <1>1 DEF Items, Session, Terms
  <1> QED BY <1>1, <1>2, JupiterAssumption DEF PutItem, TypeOK

\* It never lowers the spend recorded, and raises it by the size of a trade.
LEMMA PutCovers ==
  ASSUME TypeOK, SerialInv, NEW t \in Tasks, pc[t] \notin {"idle", "get"},
         t \notin overtaken, req[t].key \notin late
  PROVE  /\ spent[req[t].key] <= copy[t].used
         /\ pc[t] \in {"put", "wrote"} /\ req[t].op = "sign" =>
              spent[req[t].key] + req[t].size <= copy[t].used
  <1> DEFINE k == req[t].key
  <1>1. /\ req[t] \in Requests /\ k \in Keys
        /\ copy[t] \in Session
        /\ spent[k] \in Nat
        /\ table[k] \in Items \cup {NoItem}
    BY BusyKey DEF TypeOK
  <1>2. /\ Follows(pc[t], req[t], copy[t], table[k], spent[k])
        /\ spent[k] <= IF table[k] = NoItem THEN 0 ELSE table[k].val.used
    BY <1>1 DEF SerialInv, TaskSerial, RowSerial
  <1>3. /\ pc[t] \in {"put", "wrote", "orphan", "echo"}
        /\ req[t].op \in {"upsert", "revoke", "sign"}
    BY <1>1, RequestFields DEF TypeOK
  <1>4. CASE pc[t] \in {"wrote", "echo"}
    BY <1>1, <1>2, <1>4 DEF Follows
  <1>5. CASE pc[t] \in {"put", "orphan"} /\ req[t].op = "upsert"
    <2>1. copy[t] = Registered(table[k], req[t].terms, req[t].at)
      BY <1>2, <1>5 DEF Follows
    <2>2. copy[t].used = IF table[k] = NoItem THEN 0 ELSE table[k].val.used
      BY <2>1 DEF Registered
    <2> QED BY <1>2, <1>5, <2>2
  <1>6. CASE pc[t] \in {"put", "orphan"} /\ req[t].op = "revoke"
    <2>1. table[k] # NoItem /\ copy[t] = Revoked(table[k].val)
      BY <1>2, <1>6 DEF Follows
    <2>2. copy[t].used = table[k].val.used
      BY <1>1, <2>1, RevokedSession DEF Items
    <2> QED BY <1>2, <1>6, <2>1, <2>2
  <1>7. CASE pc[t] \in {"put", "orphan"} /\ req[t].op = "sign"
    <2>1. table[k] # NoItem /\ copy[t] = Debited(table[k].val, req[t].size)
      BY <1>2, <1>7 DEF Follows
    <2>2. req[t].size \in Nat /\ table[k].val \in Session
      BY <1>1, <1>7, <2>1, RequestFields DEF Items
    <2>3. copy[t].used = table[k].val.used + req[t].size /\ table[k].val.used \in Nat
      BY <2>1, <2>2, DebitedSession DEF Session
    <2> QED BY <1>1, <1>2, <2>1, <2>2, <2>3
  <1> QED BY <1>3, <1>4, <1>5, <1>6, <1>7

LEMMA WriteSerial ==
  ASSUME TypeOK, SerialInv, NEW t \in Tasks, Write(t)
  PROVE  SerialInv'
  <1> PICK k \in Keys : k = req[t].key
    BY BusyKey DEF Write
  <1>1. /\ pc[t] \in {"put", "wrote"}
        /\ pc'[t] = "wrote"
        /\ OthersStay(t) /\ t \notin overtaken
        /\ UNCHANGED <<now, req, copy, spent, late>>
    BY DEF Write, TypeOK, OthersStay, historyVars
  <1>2. /\ k \in Keys /\ table'[k] # NoItem /\ table'[k].val = copy[t]
        /\ table'[k].ttl = copy[t].terms.exp
        /\ \A j \in Keys \ {k} : table'[j] = table[j]
    BY <1>1, PutRow DEF Write
  <1>3. k \notin late => /\ spent[k] <= copy[t].used
                         /\ req[t].op = "sign" => spent[k] + req[t].size <= copy[t].used
    BY <1>1, PutCovers
  <1>4. RowSerial(k)'
    BY <1>1, <1>2, <1>3 DEF RowSerial
  <1>5. k \notin late => Follows(pc'[t], req[t], copy'[t], table'[k], spent'[k])
    BY <1>1, <1>2, <1>3 DEF Follows
  <1> QED BY <1>1, <1>2, <1>4, <1>5, SerialStep

LEMMA LateWriteSerial ==
  ASSUME TypeOK, SerialInv, NEW t \in Tasks, LateWrite(t)
  PROVE  SerialInv'
  <1> PICK k \in Keys : k = req[t].key
    BY BusyKey DEF LateWrite
  <1>1. /\ pc[t] \in {"orphan", "echo"}
        /\ pc'[t] = "idle"
        /\ OthersStay(t)
        /\ UNCHANGED <<now, spent>>
        /\ late' = IF t \in overtaken THEN late \cup {k} ELSE late
    BY DEF LateWrite, Done, TypeOK, OthersStay, historyVars
  <1>2. /\ k \in Keys /\ table'[k] # NoItem /\ table'[k].val = copy[t]
        /\ table'[k].ttl = copy[t].terms.exp
        /\ \A j \in Keys \ {k} : table'[j] = table[j]
    BY <1>1, PutRow DEF LateWrite
  <1>3. RowSerial(k)'
    BY <1>1, <1>2, PutCovers DEF RowSerial
  <1> QED BY <1>1, <1>2, <1>3, SerialStep

LEMMA ReleaseSerial ==
  ASSUME TypeOK, SerialInv, NEW t \in Tasks, Release(t)
  PROVE  SerialInv'
  <1> PICK k \in Keys : k = req[t].key
    BY BusyKey DEF Release
  <1> DEFINE n == spent[k] + req[t].size
  <1>1. /\ pc[t] = "wrote" /\ req[t].op = "sign"
        /\ pc'[t] = "idle"
        /\ OthersStay(t) /\ t \notin overtaken
        /\ UNCHANGED <<table, now, late>>
        /\ spent' = [spent EXCEPT ![k] = IF n > SpentBound THEN SpentBound ELSE n]
    BY DEF Release, CountSpent, Done, TypeOK, OthersStay, tableVars
  <1>2. /\ req[t] \in Requests /\ k \in Keys
        /\ spent[k] \in Nat
        /\ table[k] \in Items \cup {NoItem}
    BY <1>1, BusyKey DEF TypeOK
  <1>3. req[t].size \in Nat
    BY <1>1, <1>2, RequestFields
  <1>4. k \notin late =>
          table[k] # NoItem /\ n <= table[k].val.used /\ table[k].val.used \in Nat
    <2> SUFFICES ASSUME k \notin late
                 PROVE  /\ table[k] # NoItem
                        /\ n <= table[k].val.used
                        /\ table[k].val.used \in Nat
      OBVIOUS
    <2>1. table[k] # NoItem /\ table[k].val = copy[t] /\ n <= copy[t].used
      BY <1>1 DEF SerialInv, TaskSerial, Follows
    <2> QED BY <1>2, <2>1 DEF Items, Session
  <1>5. /\ spent'[k] = IF n > SpentBound THEN SpentBound ELSE n
        /\ \A j \in Keys \ {k} : spent'[j] = spent[j]
    BY <1>1, <1>2 DEF TypeOK
  <1>6. k \notin late => spent'[k] <= table[k].val.used
    BY <1>2, <1>3, <1>4, <1>5, ConstantTypes
  <1>7. RowSerial(k)'
    BY <1>1, <1>2, <1>4, <1>6 DEF SerialInv, RowSerial
  <1> QED BY <1>1, <1>2, <1>5, <1>7, SerialStep

LEMMA SerialInductive ==
  ASSUME ~Overlap, ConsistentReads
  PROVE  TypeOK /\ SerialInv /\ [Next]_vars => SerialInv'
  <1> SUFFICES ASSUME TypeOK, SerialInv, [Next]_vars PROVE SerialInv'
    OBVIOUS
  <1> USE DEF tableVars, historyVars, taskVars
  <1>1. ASSUME NEW t \in Tasks, NEW k \in Keys, ReceiveUpsert(t, k) PROVE SerialInv'
    <2>1. PICK terms \in TermSet : Receive(t, Upsert(k, terms))
      BY <1>1 DEF ReceiveUpsert
    <2>2. Upsert(k, terms) \in Requests /\ Upsert(k, terms).at <= now
      BY DEF Upsert, Requests, TypeOK
    <2> QED BY <2>1, <2>2, ReceiveSerial
  <1>2. ASSUME NEW t \in Tasks, NEW k \in Keys, ReceiveRevoke(t, k) PROVE SerialInv'
    <2>1. Revoke(k) \in Requests /\ Revoke(k).op # "upsert"
      BY DEF Revoke, Requests
    <2> QED BY <1>2, <2>1, ReceiveSerial DEF ReceiveRevoke
  <1>3. ASSUME NEW t \in Tasks, NEW k \in Keys, ReceiveSign(t, k) PROVE SerialInv'
    <2>1. PICK asset \in Assets, size \in Sizes, signable \in BOOLEAN :
             Receive(t, Sign(k, asset, size, signable))
      BY <1>3 DEF ReceiveSign
    <2>2. /\ Sign(k, asset, size, signable) \in Requests
          /\ Sign(k, asset, size, signable).op # "upsert"
      BY DEF Sign, Requests, TypeOK
    <2> QED BY <2>1, <2>2, ReceiveSerial
  <1>4. ASSUME NEW t \in Tasks, UpsertGet(t) PROVE SerialInv'
    <2>1. IssuePut(t, Registered(table[req[t].key], req[t].terms, req[t].at))
      BY <1>4 DEF UpsertGet, Reads
    <2>2. Follows("put", req[t], Registered(table[req[t].key], req[t].terms, req[t].at),
                  table[req[t].key], spent[req[t].key])
      BY <1>4 DEF UpsertGet, Follows
    <2> QED BY <1>4, <2>1, <2>2, IssuePutSerial DEF UpsertGet
  <1>5. ASSUME NEW t \in Tasks, RevokeGet(t) PROVE SerialInv'
    <2> DEFINE found == table[req[t].key]
    <2>1. CASE found # NoItem /\ IssuePut(t, Revoked(found.val))
      <3>1. Follows("put", req[t], Revoked(found.val), found, spent[req[t].key])
        BY <1>5, <2>1 DEF RevokeGet, Follows
      <3> QED BY <1>5, <2>1, <3>1, IssuePutSerial DEF RevokeGet
    <2>2. CASE found = NoItem /\ Done(t)
      BY <1>5, <2>2, DoneSerial DEF RevokeGet
    <2> QED BY <1>5, <2>1, <2>2 DEF RevokeGet, Reads
  <1>6. ASSUME NEW t \in Tasks, SignDebits(t) PROVE SerialInv'
    <2> DEFINE found == table[req[t].key]
    <2>1. /\ found # NoItem
          /\ WithinBounds(found.val, req[t].asset, req[t].size, req[t].at)
          /\ IssuePut(t, Debited(found.val, req[t].size))
      BY <1>6 DEF SignDebits, Reads
    <2>2. Follows("put", req[t], Debited(found.val, req[t].size),
                  found, spent[req[t].key])
      BY <1>6, <2>1 DEF SignDebits, Follows
    <2> QED BY <1>6, <2>1, <2>2, IssuePutSerial DEF SignDebits
  <1>7. ASSUME NEW t \in Tasks,
               \/ SignRejected(t) \/ SignInteractive(t) \/ Reply(t)
               \/ SignFails(t) \/ AbandonGet(t) \/ LostWrite(t)
        PROVE  SerialInv'
    <2>1. pc[t] # "idle" /\ Done(t) /\ UNCHANGED <<tableVars, historyVars>>
      BY <1>7 DEF SignRejected, SignInteractive, Reply, SignFails, AbandonGet, LostWrite
    <2> QED BY <2>1, DoneSerial
  <1>8. ASSUME NEW t \in Tasks, AbandonPut(t) PROVE SerialInv'
    <2> PICK k \in Keys : k = req[t].key
      BY <1>8, BusyKey DEF AbandonPut
    <2>1. /\ pc[t] \in {"put", "wrote"}
          /\ pc'[t] = IF pc[t] = "put" THEN "orphan" ELSE "echo"
          /\ OthersStay(t) /\ t \notin overtaken
          /\ UNCHANGED <<table, now, req, copy, spent, late>>
      BY <1>8 DEF AbandonPut, TypeOK, OthersStay
    <2>2. k \notin late' => Follows(pc'[t], req[t], copy'[t], table'[k], spent'[k])
      BY <2>1 DEF SerialInv, TaskSerial, Follows
    <2>3. RowSerial(k)'
      BY <2>1, BusyKey DEF SerialInv, RowSerial
    <2> QED BY <2>1, <2>2, <2>3, SerialStep
  <1>9. ASSUME NEW k \in Keys, ReapSession(k) PROVE SerialInv'
    <2>1. /\ overtaken' = overtaken \cup Busy(k)
          /\ table'[k] = NoItem /\ spent'[k] = 0
          /\ \A j \in Keys \ {k} : table'[j] = table[j] /\ spent'[j] = spent[j]
          /\ late' = late \ {k}
          /\ UNCHANGED <<now, pc, req, copy>>
      BY <1>9 DEF ReapSession, Reap, DeleteItem, Exclusive, Leftovers, TypeOK
    <2>2. \A t \in Tasks : pc[t] # "idle" /\ t \notin overtaken' => req[t].key \in Keys \ {k}
      BY <2>1, BusyKey DEF Busy
    <2>3. \A t \in Tasks : TaskSerial(t)'
      BY <2>1, <2>2 DEF SerialInv, TaskSerial
    <2>4. \A j \in Keys : RowSerial(j)'
      BY <2>1 DEF SerialInv, RowSerial
    <2>5. OnePerKey'
      BY <2>1 DEF SerialInv, OnePerKey
    <2> QED BY <2>3, <2>4, <2>5 DEF SerialInv
  <1>10. ASSUME NEW k \in Keys, Replicate(k) PROVE SerialInv'
    BY <1>10 DEF Replicate
  <1>11. CASE Tick /\ UNCHANGED <<taskVars, historyVars>>
    <2>1. /\ now' = now + 1 /\ now \in Nat
          /\ UNCHANGED <<table, pc, req, copy, overtaken, spent, late>>
      BY <1>11 DEF Tick, TypeOK
    <2>2. \A t \in Tasks : pc[t] # "idle" /\ req[t].op = "upsert" => req[t].at \in Nat
      BY BusyKey, RequestFields
    <2> QED BY <2>1, <2>2 DEF SerialInv, OnePerKey, TaskSerial, RowSerial
  <1>12. CASE UNCHANGED vars
    BY <1>12 DEF vars, SerialInv, OnePerKey, TaskSerial, RowSerial
  <1> QED
    BY <1>1, <1>2, <1>3, <1>4, <1>5, <1>6, <1>7, <1>8, <1>9, <1>10, <1>11, <1>12,
       WriteSerial, LateWriteSerial, ReleaseSerial
       DEF Next, TaskStep, ReceiveStep, TableStep

LEMMA SerialHolds ==
  ASSUME ~Overlap, ConsistentReads
  PROVE  Spec => [](TypeOK /\ GrantInv /\ SerialInv)
  <1>1. Init => SerialInv
    BY DEF Init, TableInit, SerialInv, OnePerKey, TaskSerial, RowSerial
  <1>2. TypeOK /\ SerialInv /\ [Next]_vars => SerialInv'
    BY SerialInductive
  <1> QED BY <1>1, <1>2, GrantsHold, PTL DEF Spec

\* With consistent reads, and users that wait for each answer or give up before
\* they send the next request, the spend a row records covers every size signed
\* under it, until a put that was given up lands after that next request, or
\* after the reaping of the row it was for.
THEOREM SerialSpendCovered ==
  ASSUME ~Overlap, ConsistentReads
  PROVE  Spec => []SpentCovered
  <1>1. SerialInv => SpentCovered
    BY DEF SerialInv, RowSerial, SpentCovered
  <1> QED BY <1>1, SerialHolds, PTL

\* Under the mapping of JupiterRefinement.
LimitStep == [Limit!LimitNext]_<<Budget, Pending, spent, late, now>>

-----------------------------------------------------------------------------
(* SpendLimit: how the steps of a task look through the mapping. *)

\* The trade of t has arrived, its debit has not landed, nothing overtook it.
Owed(t) ==
  /\ pc[t] \notin {"idle", "wrote", "echo"}
  /\ req[t].op = "sign"
  /\ t \notin overtaken

LEMMA UnchargedOwed ==
  ASSUME NEW k \in Keys
  PROVE  Uncharged(k) = {t \in Tasks : Owed(t) /\ req[t].key = k}
  BY DEF Uncharged, Busy, Owed

\* A step that settles no trade.
LEMMA PendingStays ==
  ASSUME NEW t \in Tasks, OthersStay(t),
         Owed(t)' <=> Owed(t),
         Owed(t) => req'[t] = req[t]
  PROVE  Pending' = Pending
  <1>1. ASSUME NEW k \in Keys
        PROVE  {Trade(req[u]) : u \in Uncharged(k)}'
                 = {Trade(req[u]) : u \in Uncharged(k)}
    <2>1. \A u \in Tasks : /\ Owed(u)' <=> Owed(u)
                           /\ Owed(u) => req'[u] = req[u]
      BY DEF OthersStay, Owed
    <2>2. Uncharged(k)' = Uncharged(k)
      BY <2>1 DEF Uncharged, Busy, Owed
    <2>3. \A u \in Uncharged(k) : req'[u] = req[u]
      BY <2>1, UnchargedOwed
    <2> QED BY <2>2, <2>3 DEF Trade
  <1> QED BY <1>1 DEF Pending

\* The trades of k that a request finds are out, and if it is one it is in.
LEMMA PendingRestarts ==
  ASSUME ~Overlap, TypeOK, NEW t \in Tasks, NEW r, NEW k \in Keys, r.key = k,
         Receive(t, r)
  PROVE  Pending' = [Pending EXCEPT ![k] = IF r.op = "sign" THEN {Trade(r)} ELSE {}]
  <1>1. /\ pc[t] = "idle" /\ pc'[t] = "get" /\ req'[t] = r
        /\ t \notin overtaken /\ t \notin Busy(k)
        /\ \A u \in Tasks \ {t} : pc'[u] = pc[u] /\ req'[u] = req[u]
        /\ overtaken' = overtaken \cup Busy(k)
    BY DEF Receive, Exclusive, TypeOK, Leftovers, Busy
  <1>2. Pending'[k] = IF r.op = "sign" THEN {Trade(r)} ELSE {}
    <2>1. Uncharged(k)' = IF r.op = "sign" THEN {t} ELSE {}
      BY <1>1 DEF Uncharged, Busy
    <2> QED BY <1>1, <2>1 DEF Pending
  <1>3. ASSUME NEW j \in Keys, j # k PROVE Pending'[j] = Pending[j]
    <2>1. Uncharged(j)' = Uncharged(j)
      BY <1>1, <1>3 DEF Uncharged, Busy
    <2>2. \A u \in Uncharged(j) : req'[u] = req[u]
      BY <1>1 DEF Uncharged, Busy
    <2> QED BY <2>1, <2>2 DEF Pending, Trade
  <1> QED BY <1>2, <1>3 DEF Pending

\* A trade is settled, one way or the other: it was the only one of its user.
LEMMA PendingShrinks ==
  ASSUME OnePerKey, NEW t \in Tasks, NEW k \in Keys, k = req[t].key,
         OthersStay(t), Owed(t), ~Owed(t)'
  PROVE  /\ Trade(req[t]) \in Pending[k]
         /\ Pending' = [Pending EXCEPT ![k] = {}]
  <1>1. Uncharged(k) = {t} /\ Uncharged(k)' = {}
    BY DEF Uncharged, Busy, Owed, OthersStay, OnePerKey
  <1>2. ASSUME NEW j \in Keys, j # k PROVE Pending'[j] = Pending[j]
    <2>1. Uncharged(j)' = Uncharged(j) /\ t \notin Uncharged(j)
      BY <1>2 DEF Uncharged, Busy, Owed, OthersStay
    <2>2. \A u \in Uncharged(j) : req'[u] = req[u]
      BY <2>1 DEF OthersStay, Uncharged, Busy
    <2> QED BY <2>1, <2>2 DEF Pending, Trade
  <1>3. Pending[k] = {Trade(req[t])} /\ Pending'[k] = {}
    BY <1>1 DEF Pending
  <1> QED BY <1>2, <1>3 DEF Pending

\* A put of the row of t.
LEMMA BudgetPut ==
  ASSUME TypeOK, NEW t \in Tasks, NEW k \in Keys, k = req[t].key,
         pc[t] \notin {"idle", "get"},
         PutItem(req[t].key, copy[t], copy[t].terms.exp)
  PROVE  Budget' = [Budget EXCEPT ![k] = copy[t]]
  <1>1. copy[t] \in Session
    BY DEF TypeOK
  <1>2. [val |-> copy[t], ttl |-> copy[t].terms.exp] \in Items
    BY <1>1 DEF Items, Session, Terms
  <1>3. table' = [table EXCEPT ![k] = [val |-> copy[t], ttl |-> copy[t].terms.exp]]
    BY DEF PutItem
  <1>4. [val |-> copy[t], ttl |-> copy[t].terms.exp] # NoItem
    BY <1>2, JupiterAssumption
  <1> QED BY <1>3, <1>4 DEF Budget, TypeOK

\* The budget of a user with a row is that row.
LEMMA BudgetRow ==
  ASSUME TypeOK, NEW k \in Keys
  PROVE  /\ table[k] = NoItem => Budget[k] = NoItem
         /\ table[k] # NoItem => /\ Budget[k] = table[k].val
                                 /\ Budget[k] # NoItem
                                 /\ Budget[k] \in Session
  BY JupiterAssumption DEF Budget, TypeOK, Items

-----------------------------------------------------------------------------
(* The puts: each is one registration, revocation or charge.  *)

\* The put of t lands for the first time and t settles its trade, if any.
LEMMA FirstPut ==
  ASSUME TypeOK, SerialInv, NEW t \in Tasks, pc[t] \in {"put", "orphan"},
         t \notin overtaken, req[t].key \notin late,
         PutItem(req[t].key, copy[t], copy[t].terms.exp),
         OthersStay(t), UNCHANGED <<now, spent, late>>, ~Owed(t)'
  PROVE  Limit!LimitNext
  <1> PICK k \in Keys : k = req[t].key
    BY BusyKey
  <1>1. /\ req[t] \in Requests /\ table[k] \in Items \cup {NoItem}
        /\ copy[t] \in Session
        /\ req[t].op \in {"upsert", "revoke", "sign"}
    BY BusyKey, RequestFields DEF TypeOK
  <1>2. Follows(pc[t], req[t], copy[t], table[k], spent[k])
    BY DEF SerialInv, TaskSerial
  <1>3. Budget' = [Budget EXCEPT ![k] = copy[t]]
    BY BudgetPut
  <1>4. CASE req[t].op = "upsert"
    <2>1. copy[t] = Registered(table[k], req[t].terms, req[t].at)
      BY <1>2, <1>4 DEF Follows
    <2>2. req[t].terms \in TermSet /\ req[t].at \in 0 .. now
      <3>1. req[t].terms \in TermSet /\ req[t].at \in Nat
        BY <1>1, <1>4, RequestFields
      <3>2. req[t].at <= now
        BY <1>4 DEF SerialInv, TaskSerial
      <3> QED BY <3>1, <3>2 DEF TypeOK
    <2>3. copy[t] = [terms |-> req[t].terms,
                     used |-> IF Budget[k] = NoItem THEN 0 ELSE Budget[k].used,
                     revoked |-> FALSE,
                     created |-> IF Budget[k] = NoItem THEN req[t].at
                                                      ELSE Budget[k].created]
      BY <2>1, BudgetRow DEF Registered
    <2>4. Pending' = Pending
      BY <1>4, PendingStays DEF Owed
    <2>5. Limit!Register(k)
      BY <1>3, <2>2, <2>3, <2>4 DEF Limit!Register
    <2> QED BY <2>5 DEF Limit!LimitNext
  <1>5. CASE req[t].op = "revoke"
    <2>1. table[k] # NoItem /\ copy[t] = Revoked(table[k].val)
      BY <1>2, <1>5 DEF Follows
    <2>2. Budget[k] # NoItem /\ copy[t] = [Budget[k] EXCEPT !.revoked = TRUE]
      BY <2>1, BudgetRow DEF Revoked
    <2>3. Budget' = [Budget EXCEPT ![k].revoked = TRUE]
      BY <1>3, <2>2
    <2>4. Pending' = Pending
      BY <1>5, PendingStays DEF Owed
    <2>5. Limit!Revoke(k)
      BY <2>2, <2>3, <2>4 DEF Limit!Revoke
    <2> QED BY <2>5 DEF Limit!LimitNext
  <1>6. CASE req[t].op = "sign"
    <2> DEFINE trade == Trade(req[t])
    <2>1. /\ table[k] # NoItem
          /\ WithinBounds(table[k].val, req[t].asset, req[t].size, req[t].at)
          /\ copy[t] = Debited(table[k].val, req[t].size)
      BY <1>2, <1>6 DEF Follows
    <2>2. /\ Budget[k] # NoItem /\ Budget[k] \in Session
          /\ WithinBounds(Budget[k], trade.asset, trade.size, trade.at)
          /\ copy[t] = [Budget[k] EXCEPT !.used = @ + trade.size]
      BY <2>1, BudgetRow DEF Debited, Trade
    <2>3. Budget' = [Budget EXCEPT ![k].used = @ + trade.size]
      BY <1>3, <2>2
    <2>4. trade \in Pending[k] /\ Pending' = [Pending EXCEPT ![k] = {}]
      BY <1>6, PendingShrinks DEF Owed, SerialInv
    <2>5. /\ ~Budget[k].revoked
          /\ trade.at <= Budget[k].terms.exp
          /\ trade.asset \in Budget[k].terms.assets
          /\ trade.size <= Budget[k].terms.perMax
          /\ Budget[k].used + trade.size <= Budget[k].terms.cap
      <3>1. trade.size \in Nat /\ trade.at \in Nat
        BY <1>1, <1>6, RequestFields DEF Trade
      <3>2. /\ Budget[k].terms.exp \in Nat /\ Budget[k].used \in Nat
            /\ Budget[k].terms.perMax \in Int /\ Budget[k].terms.cap \in Int
        BY <2>2 DEF Session, Terms, Amounts
      <3> QED BY <2>2, <3>1, <3>2 DEF WithinBounds
    <2>6. Limit!Charge(k)
      BY <2>2, <2>3, <2>4, <2>5 DEF Limit!Charge
    <2> QED BY <2>6 DEF Limit!LimitNext
  <1> QED BY <1>1, <1>4, <1>5, <1>6

\* A put that lands again changes nothing.
LEMMA AgainPut ==
  ASSUME TypeOK, SerialInv, NEW t \in Tasks, pc[t] \in {"wrote", "echo"},
         t \notin overtaken, req[t].key \notin late,
         PutItem(req[t].key, copy[t], copy[t].terms.exp),
         OthersStay(t), ~Owed(t)'
  PROVE  UNCHANGED <<Budget, Pending>>
  <1> PICK k \in Keys : k = req[t].key
    BY BusyKey
  <1>1. table[k] # NoItem /\ table[k].val = copy[t]
    BY DEF SerialInv, TaskSerial, Follows
  <1>2. Budget' = [Budget EXCEPT ![k] = copy[t]]
    BY BudgetPut
  <1>3. Budget' = Budget
    BY <1>1, <1>2 DEF Budget
  <1>4. Pending' = Pending
    BY PendingStays DEF Owed
  <1> QED BY <1>3, <1>4

\* A request ends and the table stays: its trade, if any was owed, is
\* withdrawn.
LEMMA DoneWithdraws ==
  ASSUME TypeOK, SerialInv, NEW t \in Tasks, pc[t] # "idle", Done(t),
         UNCHANGED <<table, now, spent, late>>
  PROVE  Limit!LimitNext \/ UNCHANGED <<Budget, Pending>>
  <1> PICK k \in Keys : k = req[t].key
    BY BusyKey
  <1>1. OthersStay(t) /\ ~Owed(t)' /\ Budget' = Budget
    BY DEF Done, TypeOK, OthersStay, Owed, Budget
  <1>2. CASE Owed(t)
    <2>1. /\ Trade(req[t]) \in Pending[k]
          /\ Pending' = [Pending EXCEPT ![k] = {}]
      BY <1>1, <1>2, PendingShrinks DEF SerialInv
    <2>2. Limit!Withdraw(k)
      BY <1>1, <2>1 DEF Limit!Withdraw
    <2> QED BY <2>2 DEF Limit!LimitNext
  <1>3. CASE ~Owed(t)
    BY <1>1, <1>3, PendingStays
  <1> QED BY <1>2, <1>3

\* The handler goes on to its put: nothing changes for its user.
LEMMA IssueStutters ==
  ASSUME TypeOK, NEW t \in Tasks, NEW s, pc[t] = "get", IssuePut(t, s),
         UNCHANGED <<tableVars, historyVars>>
  PROVE  UNCHANGED <<Budget, Pending, spent, late, now>>
  <1>1. pc'[t] = "put" /\ req' = req /\ overtaken' = overtaken /\ OthersStay(t)
    BY DEF IssuePut, TypeOK, OthersStay
  <1>2. Pending' = Pending
    BY <1>1, PendingStays DEF Owed
  <1> QED BY <1>2 DEF Budget, tableVars, historyVars

\* A request that is no trade arrives: one that was given up is out.
LEMMA ReceiveWithdraws ==
  ASSUME ~Overlap, TypeOK, NEW t \in Tasks, NEW k \in Keys, NEW r, r.key = k,
         Receive(t, r), r.op # "sign"
  PROVE  Limit!LimitNext
  <1>1. UNCHANGED <<Budget, spent, late, now>>
    BY DEF Budget, Receive, tableVars
  <1>2. Pending' = [Pending EXCEPT ![k] = {}]
    BY PendingRestarts
  <1>3. Limit!Withdraw(k)
    BY <1>1, <1>2 DEF Limit!Withdraw
  <1> QED BY <1>3 DEF Limit!LimitNext

\* A signature leaves: its size was debited, and SpentBound does not bite.
LEMMA ReleaseReleases ==
  ASSUME TypeOK, GrantInv, SerialInv, NEW t \in Tasks, Release(t),
         req[t].key \notin late,
         \A g \in TermSet : g.cap <= SpentBound
  PROVE  Limit!LimitNext
  <1> PICK k \in Keys : k = req[t].key
    BY BusyKey DEF Release
  <1>1. /\ pc[t] = "wrote" /\ req[t].op = "sign"
        /\ OthersStay(t) /\ ~Owed(t)' /\ t \notin overtaken
        /\ UNCHANGED <<table, now, late>>
    BY DEF Release, Done, TypeOK, OthersStay, Owed, tableVars
  <1>2. /\ req[t] \in Requests
        /\ spent[k] \in Nat /\ copy[t] \in Session
        /\ granted[k] \subseteq TermSet
    BY <1>1, BusyKey DEF TypeOK
  <1>3. req[t].size \in Sizes /\ req[t].size \in Nat
    <2>1. req[t].size \in Sizes
      BY <1>1, <1>2 DEF Requests
    <2> QED BY <2>1, ConstantTypes
  <1>4. /\ table[k] # NoItem /\ table[k].val = copy[t]
        /\ spent[k] + req[t].size <= copy[t].used
    BY <1>1 DEF SerialInv, TaskSerial, Follows
  <1>5. Budget[k] # NoItem /\ Budget[k].used = copy[t].used
    BY <1>4, BudgetRow
  <1>6. copy[t].used <= SpentBound
    <2>1. copy[t].used = 0 \/ \E g \in TermSet : copy[t].used <= g.cap
      BY <1>1, <1>2 DEF GrantInv, RowFits
    <2>2. CASE copy[t].used = 0
      BY <2>2, ConstantTypes
    <2>3. ASSUME NEW g \in TermSet, copy[t].used <= g.cap
          PROVE  copy[t].used <= SpentBound
      <3>1. g.cap \in Int /\ g.cap <= SpentBound
        BY ConstantTypes DEF Terms, Amounts
      <3> QED BY <1>2, <2>3, <3>1, ConstantTypes DEF Session
    <2> QED BY <2>1, <2>2, <2>3
  <1>7. spent' = [spent EXCEPT ![k] = @ + req[t].size]
    <2>1. spent' = [spent EXCEPT
            ![k] = IF spent[k] + req[t].size > SpentBound
                   THEN SpentBound ELSE spent[k] + req[t].size]
      BY DEF Release, CountSpent
    <2>2. ~(spent[k] + req[t].size > SpentBound)
      BY <1>2, <1>3, <1>4, <1>6, ConstantTypes DEF Session
    <2> QED BY <2>1, <2>2
  <1>8. Budget' = Budget
    BY <1>1 DEF Budget
  <1>9. Pending' = Pending
    BY <1>1, PendingStays DEF Owed
  <1>10. Limit!Release(k)
    BY <1>1, <1>3, <1>4, <1>5, <1>7, <1>8, <1>9 DEF Limit!Release
  <1> QED BY <1>10 DEF Limit!LimitNext

-----------------------------------------------------------------------------
(* Every step. *)

\* A task step changes nothing of any user but its own.
LEMMA TaskLocal ==
  ASSUME TypeOK, NEW t \in Tasks, TaskStep(t)
  PROVE  /\ pc[t] # "idle" /\ OthersStay(t) /\ UNCHANGED now
         /\ pc'[t] = "idle" \/ req'[t] = req[t]
         /\ \A j \in Keys \ {req[t].key} : table'[j] = table[j] /\ spent'[j] = spent[j]
         /\ late' \in {late, late \cup {req[t].key}}
  <1> USE DEF tableVars, historyVars
  <1>1. ASSUME NEW s, IssuePut(t, s), UNCHANGED <<tableVars, historyVars>>
        PROVE  OthersStay(t) /\ req'[t] = req[t]
    BY <1>1 DEF IssuePut, TypeOK, OthersStay
  <1>2. ASSUME Done(t)
        PROVE  OthersStay(t) /\ pc'[t] = "idle"
    BY <1>2 DEF Done, TypeOK, OthersStay
  <1>3. ASSUME \/ UpsertGet(t) \/ RevokeGet(t) \/ SignDebits(t) \/ SignRejected(t)
               \/ SignInteractive(t) \/ Reply(t) \/ SignFails(t)
               \/ AbandonGet(t) \/ LostWrite(t)
        PROVE  /\ pc[t] # "idle"
               /\ UNCHANGED <<tableVars, historyVars>>
               /\ Done(t) \/ \E s : IssuePut(t, s)
    BY <1>3 DEF UpsertGet, RevokeGet, SignDebits, SignRejected, SignInteractive,
                Reply, SignFails, AbandonGet, LostWrite
  <1>4. CASE Write(t)
    BY <1>4 DEF Write, PutItem, TypeOK, OthersStay
  <1>5. CASE LateWrite(t)
    <2>1. \A j \in Keys \ {req[t].key} : table'[j] = table[j]
      BY <1>5 DEF LateWrite, PutItem, TypeOK
    <2> QED BY <1>2, <1>5, <2>1 DEF LateWrite
  <1>6. CASE Release(t)
    <2>1. \A j \in Keys \ {req[t].key} : spent'[j] = spent[j]
      BY <1>6 DEF Release, CountSpent, TypeOK
    <2> QED BY <1>2, <1>6, <2>1 DEF Release
  <1>7. CASE AbandonPut(t)
    BY <1>7 DEF AbandonPut, TypeOK, OthersStay
  <1> QED BY <1>1, <1>2, <1>3, <1>4, <1>5, <1>6, <1>7 DEF TaskStep

\* A step of a user whose promise is void, or becomes so.
LEMMA VoidStep ==
  ASSUME TypeOK, TypeOK', NEW t \in Tasks, TaskStep(t), req[t].key \in late'
  PROVE  Limit!LimitNext
  <1> PICK k \in Keys : k = req[t].key
    BY TaskLocal, BusyKey
  <1>1. /\ OthersStay(t) /\ UNCHANGED now
        /\ pc'[t] = "idle" \/ req'[t] = req[t]
        /\ \A j \in Keys \ {k} : table'[j] = table[j] /\ spent'[j] = spent[j]
        /\ late' = late \cup {k}
    BY TaskLocal
  <1>2. Budget' = [Budget EXCEPT ![k] = Budget'[k]]
    BY <1>1 DEF Budget
  <1>3. Pending' = [Pending EXCEPT ![k] = Pending'[k]]
    <2>1. ASSUME NEW j \in Keys, j # k PROVE Pending'[j] = Pending[j]
      <3>1. Uncharged(j)' = Uncharged(j) /\ t \notin Uncharged(j)
        BY <1>1, <2>1 DEF Uncharged, Busy, OthersStay
      <3>2. \A u \in Uncharged(j) : req'[u] = req[u]
        BY <1>1, <3>1 DEF OthersStay, Uncharged, Busy
      <3> QED BY <3>1, <3>2 DEF Pending, Trade
    <2> QED BY <2>1 DEF Pending
  <1>4. spent' = [spent EXCEPT ![k] = spent'[k]]
    BY <1>1 DEF TypeOK
  <1>5. Limit!Void(k)
    BY <1>1, <1>2, <1>3, <1>4 DEF Limit!Void
  <1> QED BY <1>5 DEF Limit!LimitNext

LEMMA StepRefines ==
  ASSUME ~Overlap, ConsistentReads, \A g \in TermSet : g.cap <= SpentBound
  PROVE  TypeOK /\ GrantInv /\ SerialInv /\ [Next]_vars => LimitStep
  <1> SUFFICES ASSUME TypeOK, GrantInv, SerialInv, [Next]_vars
               PROVE  Limit!LimitNext \/ UNCHANGED <<Budget, Pending, spent, late, now>>
    BY DEF LimitStep
  <1>0. TypeOK'
    BY TypeInductive
  <1> USE DEF tableVars, historyVars, taskVars
  <1>1. ASSUME NEW t \in Tasks, NEW k \in Keys,
               ReceiveUpsert(t, k) \/ ReceiveRevoke(t, k)
        PROVE  Limit!LimitNext
    <2>1. CASE ReceiveUpsert(t, k)
      <3>1. PICK terms \in TermSet : Receive(t, Upsert(k, terms))
        BY <2>1 DEF ReceiveUpsert
      <3>2. Upsert(k, terms).op # "sign" /\ Upsert(k, terms).key = k
        BY DEF Upsert
      <3> QED BY <3>1, <3>2, ReceiveWithdraws
    <2>2. CASE ReceiveRevoke(t, k)
      <3>1. Receive(t, Revoke(k)) /\ Revoke(k).op # "sign" /\ Revoke(k).key = k
        BY <2>2 DEF ReceiveRevoke, Revoke
      <3> QED BY <3>1, ReceiveWithdraws
    <2> QED BY <1>1, <2>1, <2>2
  <1>2. ASSUME NEW t \in Tasks, NEW k \in Keys, ReceiveSign(t, k)
        PROVE  Limit!LimitNext
    <2>1. PICK asset \in Assets, size \in Sizes, signable \in BOOLEAN :
             Receive(t, Sign(k, asset, size, signable))
      BY <1>2 DEF ReceiveSign
    <2> DEFINE r == Sign(k, asset, size, signable)
    <2>2. /\ r.op = "sign" /\ r.key = k
          /\ Trade(r) = [asset |-> asset, size |-> size, at |-> now]
      BY DEF Sign, Trade
    <2>3. Receive(t, r) /\ UNCHANGED <<table, spent, late, now>>
      BY <2>1 DEF Receive
    <2> HIDE DEF r
    <2>4. Pending' = [Pending EXCEPT ![k] = {Trade(r)}]
      BY <2>2, <2>3, PendingRestarts
    <2>5. Budget' = Budget
      BY <2>3 DEF Budget
    <2>6. Limit!Arrive(k)
      BY <2>2, <2>3, <2>4, <2>5 DEF Limit!Arrive
    <2> QED BY <2>6 DEF Limit!LimitNext
  <1>3. ASSUME NEW t \in Tasks, TaskStep(t), req[t].key \notin late'
        PROVE  Limit!LimitNext \/ UNCHANGED <<Budget, Pending, spent, late, now>>
    <2>0. late' = late /\ req[t].key \notin late
      BY <1>3, TaskLocal
    <2>1. CASE UpsertGet(t)
      BY <2>1, IssueStutters DEF UpsertGet
    <2>2. CASE RevokeGet(t)
      <3>1. CASE \E s : IssuePut(t, s)
        BY <2>2, <3>1, IssueStutters DEF RevokeGet
      <3>2. CASE Done(t)
        BY <2>2, <3>2, DoneWithdraws DEF RevokeGet
      <3> QED BY <2>2, <3>1, <3>2 DEF RevokeGet
    <2>3. CASE SignDebits(t)
      BY <2>3, IssueStutters DEF SignDebits
    <2>4. CASE \/ SignRejected(t) \/ SignInteractive(t) \/ Reply(t)
               \/ SignFails(t) \/ AbandonGet(t) \/ LostWrite(t)
      <3>1. pc[t] # "idle" /\ Done(t) /\ UNCHANGED <<tableVars, historyVars>>
        BY <2>4 DEF SignRejected, SignInteractive, Reply, SignFails, AbandonGet, LostWrite
      <3> QED BY <3>1, DoneWithdraws
    <2>5. CASE Write(t)
      <3>1. /\ pc[t] \in {"put", "wrote"} /\ pc'[t] = "wrote" /\ OthersStay(t)
            /\ t \notin overtaken
            /\ PutItem(req[t].key, copy[t], copy[t].terms.exp)
            /\ UNCHANGED <<now, spent>>
        BY <2>5 DEF Write, TypeOK, OthersStay
      <3>2. ~Owed(t)'
        BY <3>1 DEF Owed
      <3> QED BY <2>0, <3>1, <3>2, FirstPut, AgainPut
    <2>6. CASE LateWrite(t)
      <3>1. /\ pc[t] \in {"orphan", "echo"} /\ pc'[t] = "idle" /\ OthersStay(t)
            /\ PutItem(req[t].key, copy[t], copy[t].terms.exp)
            /\ UNCHANGED <<now, spent>>
        BY <2>6 DEF LateWrite, Done, TypeOK, OthersStay
      <3>2. t \notin overtaken
        BY <1>3, <2>6 DEF LateWrite
      <3>3. ~Owed(t)'
        BY <3>1 DEF Owed
      <3> QED BY <2>0, <3>1, <3>2, <3>3, FirstPut, AgainPut
    <2>7. CASE Release(t)
      BY <2>0, <2>7, ReleaseReleases
    <2>8. CASE AbandonPut(t)
      <3>1. /\ pc[t] \in {"put", "wrote"}
            /\ pc'[t] = IF pc[t] = "put" THEN "orphan" ELSE "echo"
            /\ OthersStay(t)
            /\ UNCHANGED <<table, now, req, overtaken, spent, late>>
        BY <2>8 DEF AbandonPut, TypeOK, OthersStay
      <3>2. Pending' = Pending
        BY <3>1, PendingStays DEF Owed
      <3> QED BY <3>1, <3>2 DEF Budget
    <2> QED BY <1>3, <2>1, <2>2, <2>3, <2>4, <2>5, <2>6, <2>7, <2>8 DEF TaskStep
  <1>4. ASSUME NEW k \in Keys, ReapSession(k) PROVE Limit!LimitNext
    <2>1. /\ table[k] # NoItem /\ table[k].ttl < now
          /\ table' = [table EXCEPT ![k] = NoItem]
          /\ spent' = [spent EXCEPT ![k] = 0]
          /\ late' = late \ {k}
          /\ overtaken' = overtaken \cup Busy(k)
          /\ UNCHANGED <<now, pc, req>>
      BY <1>4 DEF ReapSession, Reap, DeleteItem, Exclusive, Leftovers
    <2>2. Budget[k] # NoItem /\ Budget[k].terms.exp < now
      BY <2>1, BudgetRow DEF SerialInv, RowSerial
    <2>3. Budget' = [Budget EXCEPT ![k] = NoItem]
      BY <2>1 DEF Budget, TypeOK
    <2>4. Pending' = [Pending EXCEPT ![k] = {}]
      <3>1. Uncharged(k)' = {} /\ \A j \in Keys \ {k} : Uncharged(j)' = Uncharged(j)
        BY <2>1 DEF Uncharged, Busy
      <3> QED BY <2>1, <3>1 DEF Pending
    <2>5. Limit!Lapse(k)
      BY <2>1, <2>2, <2>3, <2>4 DEF Limit!Lapse
    <2> QED BY <2>5 DEF Limit!LimitNext
  <1>5. ASSUME NEW k \in Keys, Replicate(k) PROVE FALSE
    BY <1>5 DEF Replicate
  <1>6. CASE Tick /\ UNCHANGED <<taskVars, historyVars>>
    <2>1. now' = now + 1 /\ UNCHANGED <<table, pc, req, overtaken, spent, late>>
      BY <1>6 DEF Tick
    <2>2. UNCHANGED <<Budget, Pending>>
      BY <2>1 DEF Budget, Pending, Uncharged, Busy
    <2>3. Limit!Pass
      BY <2>1, <2>2 DEF Limit!Pass
    <2> QED BY <2>3 DEF Limit!LimitNext
  <1>7. CASE UNCHANGED vars
    BY <1>7 DEF vars, Budget, Pending, Uncharged, Busy
  <1> QED
    BY <1>0, <1>1, <1>2, <1>3, <1>4, <1>5, <1>6, <1>7, VoidStep
       DEF Next, ReceiveStep, TableStep

\* With consistent reads, and users that wait for each answer or give up before
\* they send the next request, every put of a session row is one atomic step of
\* the budget its user was promised: a registration, a revocation or a charge,
\* and every signature is covered; a put that was given up voids the promise
\* only by landing after the user's next request, or after the row was reaped.
THEOREM SerialSessionsImplementLimit ==
  ASSUME ~Overlap, ConsistentReads, \A g \in TermSet : g.cap <= SpentBound
  PROVE  Spec => ImplementsSpendLimit
  <1>1. Init => Limit!LimitInit
    <2> SUFFICES ASSUME Init PROVE Limit!LimitInit
      OBVIOUS
    <2>1. Budget = [k \in Keys |-> NoItem] /\ Pending = [k \in Keys |-> {}]
      BY DEF Init, TableInit, Budget, Pending, Uncharged, Busy
    <2> QED BY <2>1, TableAssumption DEF Limit!LimitInit, Init, TableInit
  <1>2. TypeOK /\ GrantInv /\ SerialInv /\ [Next]_vars => [Limit!LimitNext]_Limit!limitVars
    BY StepRefines DEF LimitStep, Limit!limitVars
  <1>3. Spec => [](TypeOK /\ GrantInv /\ SerialInv)
    BY SerialHolds
  <1> QED BY <1>1, <1>2, <1>3, PTL DEF Spec, ImplementsSpendLimit, Limit!LimitSpec
=============================================================================
