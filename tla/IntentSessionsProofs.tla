----------------------- MODULE IntentSessionsProofs -----------------------
(***************************************************************************)
(* Theorems about IntentSessions, for any users, ids, slots and intents.   *)
(* Those of the first part are about any overlap of requests and any       *)
(* staleness of reads: what the rows and their times to live keep.  Those  *)
(* of the second are about a user who sends a request only when the last   *)
(* has ended for it, and consistent reads: what the user was told stands,  *)
(* and a list agrees with the table, until a put lands that a later        *)
(* request overtook.  Requests of other users go on at the same time,      *)
(* under the same ids.                                                     *)
(***************************************************************************)
EXTENDS IntentSessions, TLAPS

Answers == {"nothing", "active", "revoked"}
Putting == {"put", "wrote", "orphan"}
SeenType == [todo: SUBSET Ids, shown: SUBSET (Ids \X Rows)]

LEMMA KeysApart ==
  /\ \A id \in Ids : RowKey(id) \in Keys
  /\ \A u \in Users : IndexKey(u) \in Keys
  /\ \A id \in Ids, u \in Users : RowKey(id) # IndexKey(u)
  /\ \A id, jd \in Ids : RowKey(id) = RowKey(jd) => id = jd
  /\ \A u, w \in Users : IndexKey(u) = IndexKey(w) => u = w
  /\ \A k \in Keys : (\E id \in Ids : k = RowKey(id)) \/ (\E u \in Users : k = IndexKey(u))
  BY IntentAssumption DEF RowKey, IndexKey

LEMMA Apart ==
  /\ NoItem \notin RowItems /\ NoItem \notin IndexItems
  /\ NoReq \notin Requests
  BY IntentAssumption DEF NoReq, Requests

LEMMA TtlTyped == \A exp \in Nat : Ttl(exp) \in Nat \cup {NoTtl}
  BY DEF Ttl

LEMMA IdsInTyped ==
  ASSUME NEW item \in IndexItems \cup {NoItem} PROVE IdsIn(item) \in SUBSET Ids
  BY Apart DEF IdsIn, IndexItems

-----------------------------------------------------------------------------
(* Type correctness. *)

TableTyped(copyOf) ==
  /\ DOMAIN copyOf = Keys
  /\ \A id \in Ids : copyOf[RowKey(id)] \in RowItems \cup {NoItem}
  /\ \A u \in Users : copyOf[IndexKey(u)] \in IndexItems \cup {NoItem}

LEMMA RowPutTyped ==
  ASSUME NEW id \in Ids, NEW row \in Rows
  PROVE  IsPut(RowPut(id, row))
  <1>1. RowPut(id, row) \in [key: {RowKey(id)}, val: Rows, ttl: Nat \cup {NoTtl}]
    BY TtlTyped DEF RowPut, Rows
  <1> QED BY <1>1 DEF IsPut, RowPut

LEMMA IndexPutTyped ==
  ASSUME NEW u \in Users, NEW ids \in SUBSET Ids
  PROVE  IsPut(IndexPut(u, ids))
  <1>1. IndexPut(u, ids) \in [key: {IndexKey(u)}, val: [ids: SUBSET Ids], ttl: {NoTtl}]
    BY DEF IndexPut
  <1> QED BY <1>1 DEF IsPut, IndexPut

LEMMA ReadsRow ==
  ASSUME TypeOK, NEW id \in Ids, NEW found \in Reads(RowKey(id))
  PROVE  found \in RowItems \cup {NoItem}
  BY DEF TypeOK, Reads

LEMMA ReadsIndex ==
  ASSUME TypeOK, NEW u \in Users, NEW found \in Reads(IndexKey(u))
  PROVE  found \in IndexItems \cup {NoItem}
  BY DEF TypeOK, Reads

\* A put of a row leaves a row item, a put of an index an index item.
LEMMA PutTyped ==
  ASSUME TypeOK, NEW p, IsPut(p), PutItem(p.key, p.val, p.ttl)
  PROVE  TableTyped(table')
  <1>1. table' = [table EXCEPT ![p.key] = [val |-> p.val, ttl |-> p.ttl]] /\ TableTyped(table)
    BY DEF PutItem, TypeOK, TableTyped
  <1>2. CASE \E id \in Ids :
               p.key = RowKey(id) /\ p \in [key: {RowKey(id)}, val: Rows, ttl: Nat \cup {NoTtl}]
    <2>1. [val |-> p.val, ttl |-> p.ttl] \in RowItems
      BY <1>2 DEF RowItems
    <2> QED BY <1>1, <1>2, <2>1, KeysApart DEF TableTyped
  <1>3. CASE \E u \in Users :
               p.key = IndexKey(u) /\ p \in [key: {IndexKey(u)}, val: [ids: SUBSET Ids], ttl: {NoTtl}]
    <2>1. [val |-> p.val, ttl |-> p.ttl] \in IndexItems
      BY <1>3 DEF IndexItems
    <2> QED BY <1>1, <1>3, <2>1, KeysApart DEF TableTyped
  <1> QED BY <1>2, <1>3 DEF IsPut

LEMMA TypeInit == Init => TypeOK
  <1> SUFFICES ASSUME Init PROVE TypeOK
    OBVIOUS
  <1>1. TableTyped(table) /\ TableTyped(replica)
    BY KeysApart, TableAssumption DEF Init, TableInit, TableTyped
  <1>2. NoneSeen \in SeenType
    BY DEF NoneSeen, SeenType
  <1> QED BY <1>1, <1>2, TableAssumption DEF Init, TableInit, TableTyped, TypeOK, SeenType

\* An overtaken request is over but for its put; one that was met is in hand.
HistoryTyped ==
  /\ \A t \in overtaken : t \in Tasks /\ pc[t] = "orphan"
  /\ \A t \in met : t \in Tasks /\ pc[t] \notin {"idle", "orphan"}

LEMMA HistoryStep ==
  ASSUME TypeOK, [Next]_vars PROVE HistoryTyped'
  <1> USE DEF tableVars, taskVars, historyVars
  <1>a. HistoryTyped
    BY DEF TypeOK, HistoryTyped
  <1>b. DOMAIN pc = Tasks
    BY DEF TypeOK
  <1>1. ASSUME NEW t \in Tasks, NEW u \in Users, ReceiveStep(t, u) PROVE HistoryTyped'
    <2>1. \E r, label : label \in {"get", "put"} /\ Accept(t, r, label) /\ met' = met
      <3>1. CASE ReceiveCreate(t, u)
        BY <3>1 DEF ReceiveCreate, Ask
      <3>2. CASE ReceiveList(t, u)
        BY <3>2 DEF ReceiveList
      <3>3. CASE \E id \in Ids : ReceiveRevoke(t, u, id)
        BY <3>3 DEF ReceiveRevoke, Ask
      <3> QED BY <1>1, <3>1, <3>2, <3>3 DEF ReceiveStep
    <2>3. PICK r, label : label \in {"get", "put"} /\ Accept(t, r, label) /\ met' = met
      BY <2>1
    <2>2. \A x \in Leftovers(r.user) : x \in Tasks /\ pc[x] = "orphan"
      BY DEF Leftovers, Busy
    <2> QED BY <1>a, <1>b, <2>3, <2>2 DEF Accept, HistoryTyped
  <1>2. ASSUME NEW t \in Tasks, Done(t), met' = met \ {t} PROVE HistoryTyped'
    BY <1>2, <1>a, <1>b DEF Done, HistoryTyped
  <1>3. ASSUME NEW t \in Tasks,
               CreateReply(t) \/ RevokeMisses(t) \/ RevokeReply(t) \/ ListReply(t) \/ AbandonGet(t)
        PROVE  HistoryTyped'
    BY <1>2, <1>3 DEF CreateReply, RevokeMisses, RevokeReply, ListReply, AbandonGet, Say, Leave
  <1>4. ASSUME NEW t \in Tasks, CreateAppends(t) PROVE HistoryTyped'
    <2>1. CASE Done(t) /\ Say(t, "active")
      BY <1>2, <2>1 DEF Say
    <2>2. CASE /\ pc[t] = "wrote" /\ pc' = [pc EXCEPT ![t] = "put"]
               /\ UNCHANGED <<overtaken, met>>
      BY <1>a, <1>b, <2>2 DEF HistoryTyped
    <2> QED BY <1>4, <2>1, <2>2 DEF CreateAppends, IssuePut
  <1>5. ASSUME NEW t \in Tasks, RevokeGet(t) \/ ListIndex(t) \/ ListRow(t) \/ Write(t)
        PROVE  HistoryTyped'
    <2>1. /\ pc[t] \notin {"idle", "orphan"} /\ UNCHANGED <<overtaken, met>>
          /\ \E label \in {"put", "rows", "wrote"} :
               pc' = [pc EXCEPT ![t] = label] \/ (pc' = pc /\ label = "put")
      BY <1>5 DEF RevokeGet, IssuePut, ListIndex, ListRow, Write
    <2> QED BY <1>a, <1>b, <2>1 DEF HistoryTyped
  <1>6. ASSUME NEW t \in Tasks, AbandonPut(t) PROVE HistoryTyped'
    BY <1>6, <1>a, <1>b DEF AbandonPut, Leave, HistoryTyped
  <1>7. ASSUME NEW t \in Tasks, LateWrite(t) \/ LostWrite(t) PROVE HistoryTyped'
    <2>1. /\ pc[t] = "orphan" /\ Done(t)
          /\ met' = met \/ \E u : met' = met \cup (Busy(u) \ Leftovers(u))
      BY <1>7 DEF LateWrite, LostWrite, Unsay
    <2>2. \A x \in met' : x \in met \/ (x \in Tasks /\ pc[x] \notin {"idle", "orphan"})
      BY <2>1 DEF Busy, Leftovers
    <2> QED BY <1>a, <1>b, <2>1, <2>2 DEF Done, HistoryTyped
  <1>8. CASE UNCHANGED <<pc, overtaken, met>>
    BY <1>8, <1>a DEF HistoryTyped
  <1>9. \/ UNCHANGED <<pc, overtaken, met>>
        \/ \E t \in Tasks : TaskStep(t) \/ \E u \in Users : ReceiveStep(t, u)
    BY DEF Next, vars
  <1> QED BY <1>1, <1>3, <1>4, <1>5, <1>6, <1>7, <1>8, <1>9 DEF TaskStep

\* A request that goes on.
LEMMA TaskTyped ==
  ASSUME TypeOK, NEW t \in Tasks, NEW label \in Putting \cup {"get", "rows"},
         NEW r \in Requests, NEW p, NEW s \in SeenType,
         label \in Putting => IsPut(p) /\ r.op \in {"create", "revoke"},
         label \in {"get", "rows"} => p = NoPut, label # "rows" => s = NoneSeen,
         pc' = [pc EXCEPT ![t] = label], req' = [req EXCEPT ![t] = r],
         DOMAIN put' = Tasks, put'[t] = p, \A u \in Tasks \ {t} : put'[u] = put[u],
         seen' = [seen EXCEPT ![t] = s],
         said' \in [Users -> [Ids -> Answers]], HistoryTyped',
         TableTyped(table'), UNCHANGED <<replica, now>>
  PROVE  TypeOK'
  <1>1. pc' \in [Tasks -> {"idle", "get", "put", "wrote", "rows", "orphan"}]
    BY DEF TypeOK, Putting
  <1>2. /\ req' \in [Tasks -> Requests \cup {NoReq}]
        /\ DOMAIN put' = Tasks
        /\ seen' \in [Tasks -> SeenType]
    BY DEF TypeOK, SeenType
  <1>3. ASSUME NEW u \in Tasks
        PROVE  /\ pc'[u] = "idle" <=> req'[u] = NoReq
               /\ pc'[u] \in Putting => IsPut(put'[u]) /\ req'[u].op \in {"create", "revoke"}
               /\ pc'[u] \in {"idle", "get", "rows"} => put'[u] = NoPut
               /\ pc'[u] # "rows" => seen'[u] = NoneSeen
    <2>1. CASE u = t
      BY <2>1, Apart DEF TypeOK, Putting
    <2>2. CASE u # t
      BY <2>2 DEF TypeOK, Putting
    <2> QED BY <2>1, <2>2
  <1> QED
    BY <1>1, <1>2, <1>3 DEF TypeOK, TableTyped, SeenType, Putting, Answers, IsPut, HistoryTyped

\* One that ends.
LEMMA DoneTyped ==
  ASSUME TypeOK, NEW t \in Tasks, Done(t), said' \in [Users -> [Ids -> Answers]],
         HistoryTyped', TableTyped(table'), UNCHANGED <<replica, now>>
  PROVE  TypeOK'
  <1>1. NoneSeen \in SeenType
    BY DEF NoneSeen, SeenType
  <1>2. ASSUME NEW u \in Tasks
        PROVE  /\ pc'[u] = "idle" <=> req'[u] = NoReq
               /\ pc'[u] \in Putting => IsPut(put'[u]) /\ req'[u].op \in {"create", "revoke"}
               /\ pc'[u] \in {"idle", "get", "rows"} => put'[u] = NoPut
               /\ pc'[u] # "rows" => seen'[u] = NoneSeen
    BY DEF Done, TypeOK, Putting
  <1> QED BY <1>1, <1>2 DEF Done, TypeOK, TableTyped, SeenType, Putting, Answers, IsPut, HistoryTyped

LEMMA BusyTyped ==
  ASSUME TypeOK, NEW t \in Tasks, pc[t] # "idle"
  PROVE  /\ req[t] \in Requests /\ req[t].user \in Users
         /\ req[t].op \in {"create", "revoke"} => req[t].id \in Ids
  BY DEF TypeOK, Requests

LEMMA AskTyped ==
  ASSUME TypeOK, NEW u \in Users, NEW id \in Ids, Ask(u, id)
  PROVE  said' \in [Users -> [Ids -> Answers]]
  BY DEF Ask, TypeOK, Answers

LEMMA SayTyped ==
  ASSUME TypeOK, NEW t \in Tasks, req[t].user \in Users, req[t].id \in Ids,
         NEW answer \in Answers, Say(t, answer)
  PROVE  said' \in [Users -> [Ids -> Answers]]
  BY DEF Say, TypeOK, Answers

LEMMA UnsayTyped ==
  ASSUME TypeOK, NEW u \in Users, NEW p, Unsay(u, p)
  PROVE  said' \in [Users -> [Ids -> Answers]]
  BY DEF Unsay, TypeOK, Answers

LEMMA TypeStep == TypeOK /\ [Next]_vars => TypeOK'
  <1> SUFFICES ASSUME TypeOK, [Next]_vars PROVE TypeOK'
    OBVIOUS
  <1> USE DEF tableVars, taskVars, historyVars
  <1>h. HistoryTyped'
    BY HistoryStep
  <1>a. TableTyped(table) /\ said \in [Users -> [Ids -> Answers]]
    BY DEF TypeOK, TableTyped, Answers
  <1>b. ASSUME NEW t \in Tasks
        PROVE  /\ seen[t] \in SeenType /\ seen = [seen EXCEPT ![t] = seen[t]]
               /\ DOMAIN put = Tasks /\ req = [req EXCEPT ![t] = req[t]]
               /\ pc[t] # "rows" => seen[t] = NoneSeen
    BY DEF TypeOK, SeenType
  <1>1. ASSUME NEW t \in Tasks, NEW u \in Users, ReceiveCreate(t, u) PROVE TypeOK'
    <2>1. PICK intent \in Intents :
            LET r == Create(u, intent[1], intent[2]) IN
              /\ Accept(t, r, "put")
              /\ put' = [put EXCEPT ![t] = RowPut(r.id, Created(r))]
              /\ Ask(u, r.id)
              /\ UNCHANGED <<tableVars, seen>>
      BY <1>1 DEF ReceiveCreate
    <2> DEFINE r == Create(u, intent[1], intent[2])
    <2>2. intent[1] \in Ids /\ intent[2] \in Nat
      BY IntentAssumption
    <2>3. r \in Requests /\ r.op = "create" /\ r.id \in Ids /\ Created(r) \in Rows
      BY <2>2 DEF Create, Requests, Created, Rows
    <2>4. IsPut(RowPut(r.id, Created(r)))
      BY <2>3, RowPutTyped
    <2>5. said' \in [Users -> [Ids -> Answers]]
      BY <2>1, <2>3, AskTyped
    <2>6. /\ pc' = [pc EXCEPT ![t] = "put"] /\ req' = [req EXCEPT ![t] = r]
          /\ DOMAIN put' = Tasks /\ put'[t] = RowPut(r.id, Created(r))
          /\ \A v \in Tasks \ {t} : put'[v] = put[v]
          /\ seen' = [seen EXCEPT ![t] = seen[t]]
          /\ UNCHANGED <<table, replica, now>> /\ pc[t] = "idle"
      BY <2>1, <1>b DEF Accept
    <2> HIDE DEF r
    <2> QED BY <1>a, <1>b, <2>3, <2>4, <2>5, <2>6, TaskTyped, <1>h DEF Putting
  <1>2. ASSUME NEW t \in Tasks, CreateAppends(t) PROVE TypeOK'
    <2>1. /\ req[t] \in Requests /\ req[t].op = "create"
          /\ req[t].id \in Ids /\ req[t].user \in Users
      BY <1>2, BusyTyped DEF CreateAppends
    <2>2. PICK index \in Reads(IndexKey(req[t].user)) :
            \/ /\ req[t].id \notin IdsIn(index)
               /\ IssuePut(t, IndexPut(req[t].user, Appended(IdsIn(index), req[t].id)))
               /\ UNCHANGED <<req, seen, historyVars>>
            \/ /\ req[t].id \in IdsIn(index)
               /\ Done(t)
               /\ Say(t, "active")
      BY <1>2 DEF CreateAppends
    <2>3. Appended(IdsIn(index), req[t].id) \in SUBSET Ids
      BY <2>1, ReadsIndex, IdsInTyped DEF Appended
    <2>4. UNCHANGED <<table, replica, now>>
      BY <1>2 DEF CreateAppends
    <2>5. CASE /\ IssuePut(t, IndexPut(req[t].user, Appended(IdsIn(index), req[t].id)))
               /\ UNCHANGED <<req, seen, historyVars>>
      <3> DEFINE p == IndexPut(req[t].user, Appended(IdsIn(index), req[t].id))
      <3>1. IsPut(p)
        BY <2>1, <2>3, IndexPutTyped
      <3>2. seen[t] = NoneSeen
        BY <1>2 DEF CreateAppends, TypeOK
      <3>3. /\ pc' = [pc EXCEPT ![t] = "put"] /\ put' = [put EXCEPT ![t] = p]
            /\ UNCHANGED <<req, seen, said>>
        BY <2>5 DEF IssuePut
      <3> HIDE DEF p
      <3> QED BY <1>a, <1>b, <2>1, <2>4, <3>1, <3>2, <3>3, TaskTyped, <1>h DEF Putting
    <2>6. CASE Done(t) /\ Say(t, "active")
      <3>1. said' \in [Users -> [Ids -> Answers]]
        BY <2>1, <2>6, SayTyped DEF Answers
      <3> QED BY <1>a, <2>4, <2>6, <3>1, DoneTyped, <1>h
    <2> QED BY <2>2, <2>5, <2>6
  <1>3. ASSUME NEW t \in Tasks, CreateReply(t) \/ RevokeMisses(t) \/ RevokeReply(t) PROVE TypeOK'
    <2>1. req[t].id \in Ids /\ req[t].user \in Users
      BY <1>3, BusyTyped DEF CreateReply, RevokeMisses, RevokeReply
    <2>2. said' \in [Users -> [Ids -> Answers]]
      BY <1>a, <1>3, <2>1, SayTyped DEF CreateReply, RevokeMisses, RevokeReply, Answers, Leave
    <2> QED BY <1>a, <1>3, <2>2, DoneTyped, <1>h DEF CreateReply, RevokeMisses, RevokeReply
  <1>4. ASSUME NEW t \in Tasks, NEW u \in Users, NEW id \in Ids, ReceiveRevoke(t, u, id)
        PROVE  TypeOK'
    <2>1. Revoke(u, id) \in Requests
      BY DEF Revoke, Requests
    <2>2. said' \in [Users -> [Ids -> Answers]]
      BY <1>4, AskTyped DEF ReceiveRevoke
    <2>3. put[t] = NoPut
      BY <1>4 DEF ReceiveRevoke, Accept, TypeOK
    <2> QED BY <1>a, <1>b, <1>4, <2>1, <2>2, <2>3, TaskTyped, <1>h DEF ReceiveRevoke, Accept, Putting
  <1>5. ASSUME NEW t \in Tasks, RevokeGet(t) PROVE TypeOK'
    <2>1. PICK found \in Reads(RowKey(req[t].id)) :
            /\ Owns(found, req[t].user)
            /\ IssuePut(t, RowPut(req[t].id, [found.val EXCEPT !.revoked = TRUE]))
      BY <1>5 DEF RevokeGet
    <2>2. req[t] \in Requests /\ req[t].op = "revoke" /\ req[t].id \in Ids
      BY <1>5, BusyTyped DEF RevokeGet
    <2>3. [found.val EXCEPT !.revoked = TRUE] \in Rows
      BY <2>1, <2>2, ReadsRow DEF Owns, RowItems, Rows
    <2> DEFINE p == RowPut(req[t].id, [found.val EXCEPT !.revoked = TRUE])
    <2>4. IsPut(p)
      BY <2>2, <2>3, RowPutTyped
    <2>5. /\ pc' = [pc EXCEPT ![t] = "put"] /\ put' = [put EXCEPT ![t] = p]
          /\ UNCHANGED <<table, replica, now, req, seen, said>>
      BY <1>5, <2>1 DEF RevokeGet, IssuePut
    <2>6. seen[t] = NoneSeen
      BY <1>5 DEF RevokeGet, TypeOK
    <2> HIDE DEF p
    <2> QED BY <1>a, <1>b, <2>2, <2>4, <2>5, <2>6, TaskTyped, <1>h DEF Putting
  <1>6. ASSUME NEW t \in Tasks, NEW u \in Users, ReceiveList(t, u) PROVE TypeOK'
    <2>1. List(u) \in Requests
      BY DEF List, Requests
    <2>2. put[t] = NoPut
      BY <1>6 DEF ReceiveList, Accept, TypeOK
    <2> QED BY <1>a, <1>b, <1>6, <2>1, <2>2, TaskTyped, <1>h DEF ReceiveList, Accept, Putting
  <1>7. ASSUME NEW t \in Tasks, ListIndex(t) PROVE TypeOK'
    <2>1. PICK index \in Reads(IndexKey(req[t].user)) :
            seen' = [seen EXCEPT ![t].todo = IdsIn(index)]
      BY <1>7 DEF ListIndex
    <2>2. req[t] \in Requests /\ req[t].user \in Users /\ put[t] = NoPut
      BY <1>7, BusyTyped DEF ListIndex, TypeOK
    <2>3. IdsIn(index) \in SUBSET Ids
      BY <2>2, ReadsIndex, IdsInTyped
    <2>4. /\ seen' = [seen EXCEPT ![t] = [seen[t] EXCEPT !.todo = IdsIn(index)]]
          /\ [seen[t] EXCEPT !.todo = IdsIn(index)] \in SeenType
      BY <1>b, <2>1, <2>3 DEF SeenType
    <2> QED BY <1>a, <1>b, <1>7, <2>2, <2>4, TaskTyped, <1>h DEF ListIndex, Putting
  <1>8. ASSUME NEW t \in Tasks, ListRow(t) PROVE TypeOK'
    <2>1. /\ req[t] \in Requests /\ req[t].user \in Users /\ put[t] = NoPut
          /\ pc' = [pc EXCEPT ![t] = "rows"] /\ seen[t] \in SeenType
          /\ UNCHANGED <<table, replica, now, req, put, said>>
      BY <1>b, <1>8, BusyTyped DEF ListRow, TypeOK
    <2>2. PICK id \in seen[t].todo : \E found \in Reads(RowKey(id)) :
            seen' = [seen EXCEPT ![t] =
              [todo |-> @.todo \ {id}, shown |-> @.shown \cup Shown(id, found, req[t].user)]]
      BY <1>8 DEF ListRow
    <2>3. PICK found \in Reads(RowKey(id)) :
            seen' = [seen EXCEPT ![t] =
              [todo |-> @.todo \ {id}, shown |-> @.shown \cup Shown(id, found, req[t].user)]]
      BY <2>2
    <2> DEFINE s == [todo |-> seen[t].todo \ {id},
                     shown |-> seen[t].shown \cup Shown(id, found, req[t].user)]
    <2>4. id \in Ids
      BY <2>1 DEF SeenType
    <2>5. Shown(id, found, req[t].user) \subseteq Ids \X Rows
      BY <2>4, ReadsRow DEF Shown, Owns, RowItems
    <2>6. s \in SeenType
      BY <2>1, <2>5 DEF SeenType
    <2>7. seen' = [seen EXCEPT ![t] = s]
      BY <1>b, <2>3
    <2> HIDE DEF s
    <2> QED BY <1>a, <1>b, <2>1, <2>6, <2>7, TaskTyped, <1>h DEF Putting
  <1>9. ASSUME NEW t \in Tasks, ListReply(t) \/ AbandonGet(t) \/ LostWrite(t) PROVE TypeOK'
    BY <1>a, <1>9, DoneTyped, <1>h DEF ListReply, AbandonGet, LostWrite, Leave
  <1>10. ASSUME NEW t \in Tasks, Write(t) \/ AbandonPut(t) PROVE TypeOK'
    <2>1. /\ req[t] \in Requests /\ IsPut(put[t]) /\ req[t].op \in {"create", "revoke"}
          /\ UNCHANGED <<replica, now, req, put, seen, said>>
          /\ \E label \in Putting : pc' = [pc EXCEPT ![t] = label]
      BY <1>10, BusyTyped DEF Write, AbandonPut, Leave, TypeOK, Putting
    <2>3. PICK label \in Putting : pc' = [pc EXCEPT ![t] = label]
      BY <2>1
    <2>2. TableTyped(table')
      BY <1>a, <1>10, <2>1, PutTyped DEF Write, AbandonPut
    <2>4. /\ req' = [req EXCEPT ![t] = req[t]] /\ seen' = [seen EXCEPT ![t] = seen[t]]
          /\ DOMAIN put' = Tasks /\ put'[t] = put[t]
          /\ \A u \in Tasks \ {t} : put'[u] = put[u]
          /\ said' \in [Users -> [Ids -> Answers]] /\ seen[t] \in SeenType
      BY <1>a, <1>b, <2>1
    <2>5. label \in Putting \cup {"get", "rows"} /\ label \notin {"get", "rows"}
      BY DEF Putting
    <2>6. req[t] \in Requests /\ UNCHANGED <<replica, now>>
      BY <2>1
    <2>7. label \in Putting => IsPut(put[t]) /\ req[t].op \in {"create", "revoke"}
      BY <2>1
    <2>8. (label \in {"get", "rows"} => put[t] = NoPut) /\ (label # "rows" => seen[t] = NoneSeen)
      BY <1>b, <1>10, <2>5 DEF Write, AbandonPut
    <2> QED BY <2>2, <2>3, <2>4, <2>5, <2>6, <2>7, <2>8, TaskTyped, <1>h
  <1>11. ASSUME NEW t \in Tasks, LateWrite(t) PROVE TypeOK'
    <2>1. IsPut(put[t]) /\ req[t].user \in Users
      BY <1>11, BusyTyped DEF LateWrite, TypeOK
    <2>2. said' \in [Users -> [Ids -> Answers]]
      BY <1>a, <1>11, <2>1, UnsayTyped DEF LateWrite
    <2> QED BY <1>a, <1>11, <2>1, <2>2, PutTyped, DoneTyped, <1>h DEF LateWrite
  <1>12. ASSUME NEW k \in Keys, Reap(k), UNCHANGED <<taskVars, historyVars>> PROVE TypeOK'
    <2>1. TableTyped(table')
      BY <1>a, <1>12 DEF Reap, DeleteItem, TableTyped
    <2> QED BY <1>12, <1>h, <2>1 DEF HistoryTyped, Reap, TypeOK, TableTyped, IsPut
  <1>13. ASSUME NEW k \in Keys, Replicate(k), UNCHANGED <<taskVars, historyVars>> PROVE TypeOK'
    <2>1. TableTyped(replica')
      BY <1>13, KeysApart DEF Replicate, TypeOK, TableTyped
    <2> QED BY <1>13, <1>h, <2>1 DEF HistoryTyped, Replicate, TypeOK, TableTyped, IsPut
  <1>14. CASE (Tick /\ UNCHANGED <<taskVars, historyVars>>) \/ UNCHANGED vars
    BY <1>14, <1>h DEF HistoryTyped, Tick, vars, TypeOK, IsPut
  <1> QED
    BY <1>1, <1>2, <1>3, <1>4, <1>5, <1>6, <1>7, <1>8, <1>9, <1>10, <1>11, <1>12, <1>13, <1>14
       DEF Next, TaskStep, ReceiveStep

LEMMA TypeHolds == Spec => []TypeOK
  BY TypeInit, TypeStep, PTL DEF Spec

\* The shape of the state, for any overlap, staleness and failure: rows stay
\* under row keys, indexes under index keys, whatever puts are in flight.
THEOREM IntentTypeCorrect == Spec => []TypeOK
  BY TypeHolds

-----------------------------------------------------------------------------
(* What a put is for. *)

\* Request r puts its user's row under its id, new or revoked, or an index of its
\* user with its id in it.
PutMeans(r, p) ==
  \/ /\ p.key = RowKey(r.id) /\ p.val \in Rows
     /\ p.ttl = Ttl(p.val.exp) /\ p.val.owner = r.user
     /\ IF r.op = "create" THEN ~p.val.revoked ELSE p.val.revoked
  \/ /\ r.op = "create"
     /\ p.key = IndexKey(r.user) /\ r.id \in p.val.ids

PutInv == \A t \in Tasks : pc[t] \in Putting => PutMeans(req[t], put[t])

\* The time to live of a stored row is that of its expiry.
TtlInv ==
  \A id \in Ids :
    table[RowKey(id)] # NoItem => table[RowKey(id)].ttl = Ttl(table[RowKey(id)].val.exp)

LEMMA PutInit == Init => PutInv /\ TtlInv
  BY KeysApart DEF Init, TableInit, PutInv, TtlInv, Putting

\* A put of one request leaves the rows of other ids alone, and its own as it means.
LEMMA PutRow ==
  ASSUME TypeOK, NEW t \in Tasks, pc[t] \in Putting, PutMeans(req[t], put[t]),
         PutItem(put[t].key, put[t].val, put[t].ttl), NEW id \in Ids,
         table'[RowKey(id)] # table[RowKey(id)]
  PROVE  /\ id = req[t].id /\ put[t].key = RowKey(id)
         /\ table'[RowKey(id)] = [val |-> put[t].val, ttl |-> put[t].ttl]
         /\ put[t].val \in Rows /\ put[t].ttl = Ttl(put[t].val.exp)
         /\ put[t].val.owner = req[t].user
  <1>1. /\ req[t].op \in {"create", "revoke"} /\ req[t].user \in Users /\ req[t].id \in Ids
        /\ DOMAIN table = Keys
    BY BusyTyped DEF TypeOK, Putting
  <1>2. /\ table' = [table EXCEPT ![put[t].key] = [val |-> put[t].val, ttl |-> put[t].ttl]]
        /\ put[t].key = RowKey(id)
    BY <1>1, KeysApart DEF PutItem
  <1>3. put[t].key # IndexKey(req[t].user)
    BY <1>1, <1>2, KeysApart
  <1> QED BY <1>1, <1>2, <1>3, KeysApart DEF PutMeans

LEMMA TtlStep ==
  ASSUME TypeOK, PutInv, TtlInv, [Next]_vars PROVE TtlInv'
  <1> USE DEF tableVars, taskVars
  <1>1. ASSUME NEW t \in Tasks, Write(t) \/ LateWrite(t) PROVE TtlInv'
    <2>1. pc[t] \in Putting /\ PutItem(put[t].key, put[t].val, put[t].ttl)
      BY <1>1 DEF Write, LateWrite, Putting
    <2> SUFFICES ASSUME NEW id \in Ids, table'[RowKey(id)] # NoItem
                 PROVE  table'[RowKey(id)].ttl = Ttl(table'[RowKey(id)].val.exp)
      BY DEF TtlInv
    <2>2. CASE table'[RowKey(id)] = table[RowKey(id)]
      BY <2>2 DEF TtlInv
    <2>3. CASE table'[RowKey(id)] # table[RowKey(id)]
      <3>1. /\ table'[RowKey(id)] = [val |-> put[t].val, ttl |-> put[t].ttl]
            /\ put[t].ttl = Ttl(put[t].val.exp)
        BY <2>1, <2>3, PutRow DEF PutInv
      <3> QED BY <3>1
    <2> QED BY <2>2, <2>3
  <1>2. ASSUME NEW k \in Keys, Reap(k) PROVE TtlInv'
    BY <1>2, KeysApart DEF Reap, DeleteItem, TtlInv, TypeOK
  <1>3. CASE table' = table
    BY <1>3 DEF TtlInv
  <1>4. \/ table' = table
        \/ \E t \in Tasks : Write(t) \/ LateWrite(t)
        \/ \E k \in Keys : Reap(k)
    BY DEF Next, TaskStep, ReceiveStep, vars, ReceiveCreate, ReceiveList, ReceiveRevoke, CreateAppends,
           CreateReply, RevokeGet, RevokeMisses, RevokeReply, ListIndex, ListRow, ListReply,
           AbandonGet, AbandonPut, LostWrite, Tick, Replicate
  <1> QED BY <1>1, <1>2, <1>3, <1>4

LEMMA PutStep ==
  ASSUME TypeOK, PutInv, [Next]_vars PROVE PutInv'
  <1> USE DEF tableVars, taskVars
  <1>1. ASSUME NEW t \in Tasks, NEW u \in Users, ReceiveCreate(t, u) PROVE PutInv'
    <2>1. PICK intent \in Intents :
            LET r == Create(u, intent[1], intent[2]) IN
              /\ Accept(t, r, "put")
              /\ put' = [put EXCEPT ![t] = RowPut(r.id, Created(r))]
      BY <1>1 DEF ReceiveCreate
    <2> DEFINE r == Create(u, intent[1], intent[2])
    <2>2. intent[1] \in Ids /\ intent[2] \in Nat
      BY IntentAssumption
    <2>3. PutMeans(r, RowPut(r.id, Created(r)))
      BY <2>2 DEF PutMeans, RowPut, Created, Create, Rows
    <2>4. /\ pc' = [pc EXCEPT ![t] = "put"] /\ req' = [req EXCEPT ![t] = r]
          /\ put'[t] = RowPut(r.id, Created(r)) /\ \A v \in Tasks \ {t} : put'[v] = put[v]
      BY <2>1 DEF Accept, TypeOK
    <2> HIDE DEF r
    <2> QED BY <2>3, <2>4 DEF PutInv, TypeOK
  <1>2. ASSUME NEW t \in Tasks, CreateAppends(t) PROVE PutInv'
    <2>1. PICK index \in Reads(IndexKey(req[t].user)) :
            \/ /\ IssuePut(t, IndexPut(req[t].user, Appended(IdsIn(index), req[t].id)))
               /\ UNCHANGED req
            \/ Done(t)
      BY <1>2 DEF CreateAppends
    <2>2. CASE Done(t)
      BY <2>2 DEF Done, PutInv, Putting, TypeOK
    <2>3. CASE /\ IssuePut(t, IndexPut(req[t].user, Appended(IdsIn(index), req[t].id)))
               /\ UNCHANGED req
      <3> DEFINE p == IndexPut(req[t].user, Appended(IdsIn(index), req[t].id))
      <3>1. PutMeans(req[t], p)
        BY <1>2 DEF CreateAppends, PutMeans, IndexPut, Appended
      <3>2. /\ pc' = [pc EXCEPT ![t] = "put"] /\ UNCHANGED req
            /\ put'[t] = p /\ \A v \in Tasks \ {t} : put'[v] = put[v]
        BY <2>3 DEF IssuePut, TypeOK
      <3> HIDE DEF p
      <3> QED BY <3>1, <3>2 DEF PutInv, TypeOK
    <2> QED BY <2>1, <2>2, <2>3
  <1>3. ASSUME NEW t \in Tasks, RevokeGet(t) PROVE PutInv'
    <2>1. PICK found \in Reads(RowKey(req[t].id)) :
            /\ Owns(found, req[t].user)
            /\ IssuePut(t, RowPut(req[t].id, [found.val EXCEPT !.revoked = TRUE]))
      BY <1>3 DEF RevokeGet
    <2> DEFINE row == [found.val EXCEPT !.revoked = TRUE]
    <2>2. req[t].op = "revoke" /\ req[t].id \in Ids
      BY <1>3, BusyTyped DEF RevokeGet
    <2>3. found.val \in Rows /\ found.val.owner = req[t].user
      BY <2>1, <2>2, ReadsRow DEF Owns, RowItems
    <2>4. row \in Rows /\ row.owner = req[t].user /\ row.revoked
      BY <2>3 DEF Rows
    <2>5. IssuePut(t, RowPut(req[t].id, row)) /\ UNCHANGED req
      BY <1>3, <2>1 DEF RevokeGet
    <2> HIDE DEF row
    <2>6. PutMeans(req[t], RowPut(req[t].id, row))
      BY <2>2, <2>4 DEF PutMeans, RowPut
    <2> QED BY <2>5, <2>6 DEF IssuePut, PutInv, TypeOK
  <1>4. ASSUME NEW t \in Tasks,
               \/ CreateReply(t) \/ RevokeMisses(t) \/ RevokeReply(t) \/ ListReply(t)
               \/ AbandonGet(t) \/ LateWrite(t) \/ LostWrite(t)
        PROVE  PutInv'
    <2>1. Done(t)
      BY <1>4 DEF CreateReply, RevokeMisses, RevokeReply, ListReply, AbandonGet, LateWrite, LostWrite
    <2> QED BY <2>1 DEF Done, PutInv, Putting, TypeOK
  <1>5. ASSUME NEW t \in Tasks, NEW u \in Users,
               ReceiveList(t, u) \/ \E id \in Ids : ReceiveRevoke(t, u, id)
        PROVE  PutInv'
    <2>1. PICK r : Accept(t, r, "get") /\ put' = put
      BY <1>5 DEF ReceiveList, ReceiveRevoke
    <2> QED BY <2>1 DEF Accept, PutInv, Putting, TypeOK
  <1>6. ASSUME NEW t \in Tasks, ListIndex(t) \/ ListRow(t) PROVE PutInv'
    BY <1>6 DEF ListIndex, ListRow, PutInv, Putting, TypeOK
  <1>7. ASSUME NEW t \in Tasks, Write(t) \/ AbandonPut(t) PROVE PutInv'
    BY <1>7 DEF Write, AbandonPut, PutInv, Putting, TypeOK
  <1>8. CASE \/ (\E k \in Keys : Reap(k) \/ Replicate(k)) /\ UNCHANGED <<taskVars, historyVars>>
             \/ Tick /\ UNCHANGED <<taskVars, historyVars>>
             \/ UNCHANGED vars
    BY <1>8 DEF vars, PutInv
  <1> QED
    BY <1>1, <1>2, <1>3, <1>4, <1>5, <1>6, <1>7, <1>8 DEF Next, TaskStep, ReceiveStep

LEMMA PutHolds == Spec => [](TypeOK /\ PutInv /\ TtlInv)
  BY TypeInit, TypeStep, PutInit, PutStep, TtlStep, PTL DEF Spec

\* The table changes by a put that lands or by the reaper.
LEMMA TableChanges ==
  ASSUME Next
  PROVE  \/ table' = table
         \/ \E t \in Tasks : Write(t) \/ LateWrite(t)
         \/ \E k \in Keys : Reap(k)
  BY DEF Next, tableVars, TaskStep, ReceiveStep, ReceiveCreate, ReceiveList, ReceiveRevoke,
         CreateAppends, CreateReply, RevokeGet, RevokeMisses, RevokeReply, ListIndex, ListRow,
         ListReply, AbandonGet, AbandonPut, LostWrite, Tick, Replicate

\* A put that changes a row is its new owner's.
LEMMA WriterOwns ==
  ASSUME TypeOK, PutInv, NEW t \in Tasks, Write(t) \/ LateWrite(t), NEW id \in Ids,
         table'[RowKey(id)] # table[RowKey(id)]
  PROVE  /\ table'[RowKey(id)] # NoItem /\ table'[RowKey(id)].val.owner = req[t].user
         /\ table'[RowKey(id)].val.owner \in Users /\ t \in Busy(req[t].user)
  <1>1. /\ pc[t] \in Putting /\ PutItem(put[t].key, put[t].val, put[t].ttl)
        /\ t \in Busy(req[t].user)
    BY DEF Write, LateWrite, Putting, Busy
  <1>2. /\ table'[RowKey(id)] = [val |-> put[t].val, ttl |-> put[t].ttl]
        /\ put[t].val \in Rows /\ put[t].ttl = Ttl(put[t].val.exp)
        /\ put[t].val.owner = req[t].user
    BY <1>1, PutRow DEF PutInv
  <1>3. [val |-> put[t].val, ttl |-> put[t].ttl] \in RowItems
    BY <1>2, TtlTyped DEF Rows, RowItems
  <1> QED BY <1>1, <1>2, <1>3, Apart DEF Rows

OwnerStep ==
  \A id \in Ids :
    LET k == RowKey(id) IN
    /\ NoItem \notin {table[k], table'[k]}
    /\ table[k].val # table'[k].val
    /\ table[k].val.owner = table'[k].val.owner
    => \E t \in Busy(table[k].val.owner) : Write(t) \/ LateWrite(t)

\* However requests of any users overlap under one id, and however old the rows
\* they read: a row that stays with its owner changes by a put of that
\* owner's request, never by another user's revoke.
THEOREM RowsChangeByOwners == Spec => OwnerChanges
  <1>1. TypeOK /\ PutInv /\ [Next]_vars => [OwnerStep]_vars
    <2> SUFFICES ASSUME TypeOK, PutInv, Next, NEW id \in Ids,
                        NoItem \notin {table[RowKey(id)], table'[RowKey(id)]},
                        table[RowKey(id)].val # table'[RowKey(id)].val,
                        table[RowKey(id)].val.owner = table'[RowKey(id)].val.owner
                 PROVE  \E t \in Busy(table[RowKey(id)].val.owner) : Write(t) \/ LateWrite(t)
      BY DEF OwnerStep
    <2>1. ASSUME NEW k \in Keys, Reap(k) PROVE FALSE
      BY <2>1, KeysApart DEF Reap, DeleteItem, TypeOK
    <2>2. PICK t \in Tasks : Write(t) \/ LateWrite(t)
      BY <2>1, TableChanges
    <2>3. t \in Busy(table[RowKey(id)].val.owner)
      BY <2>2, WriterOwns
    <2> QED BY <2>2, <2>3
  <1>2. Spec => [][OwnerStep]_vars
    BY <1>1, PutHolds, PTL DEF Spec
  <1> QED BY <1>2 DEF OwnerChanges, OwnerStep

ZeroStep ==
  Kind = "gen" =>
    \A id \in Ids : LET k == RowKey(id) IN
      table[k] # NoItem /\ table[k].val.exp = 0 => table'[k] # NoItem

\* For any overlap and staleness: the reaper never has a generic session whose
\* expiry is 0, whether its row was last put by create or by revoke.
THEOREM ZeroStays == Spec => ZeroNeverExpires
  <1>1. TypeOK /\ PutInv /\ TtlInv /\ [Next]_vars => [ZeroStep]_vars
    <2> SUFFICES ASSUME TypeOK, PutInv, TtlInv, Next, Kind = "gen", NEW id \in Ids,
                        table[RowKey(id)] # NoItem, table[RowKey(id)].val.exp = 0
                 PROVE  table'[RowKey(id)] # NoItem
      BY DEF ZeroStep
    <2>1. ASSUME NEW k \in Keys, Reap(k) PROVE table'[RowKey(id)] # NoItem
      <3>1. table[RowKey(id)].ttl = NoTtl
        BY DEF TtlInv, Ttl
      <3> QED BY <2>1, <3>1 DEF Reap, DeleteItem, TypeOK
    <2>2. ASSUME NEW t \in Tasks, Write(t) \/ LateWrite(t) PROVE table'[RowKey(id)] # NoItem
      BY <2>2, WriterOwns
    <2> QED BY <2>1, <2>2, TableChanges
  <1>2. Spec => [][ZeroStep]_vars
    BY <1>1, PutHolds, PTL DEF Spec
  <1> QED BY <1>2 DEF ZeroNeverExpires, ZeroStep

-----------------------------------------------------------------------------
(* A user who waits for the end of a request before the next, and consistent *)
(* reads: the invariant.                                                     *)

\* One request per user that none has overtaken.
OnePerUser ==
  \A s, t \in Tasks \ overtaken :
    pc[s] # "idle" /\ pc[t] # "idle" /\ req[s].user = req[t].user => s = t

Active(u, id) == Owns(table[RowKey(id)], u) /\ ~table[RowKey(id)].val.revoked

\* AnswersHold for one user.
Told(u) ==
  \A id \in Ids :
    /\ said[u][id] = "active" =>
         /\ id \in IdsIn(table[IndexKey(u)])
         /\ Owns(table[RowKey(id)], u) => Active(u, id)
    /\ said[u][id] = "revoked" => ~Active(u, id)

\* While a change is under way its user has no answer about the id.
Unanswered(t) ==
  pc[t] \in Putting \cup {"get"} /\ req[t].op \in {"create", "revoke"} =>
    said[req[t].user][req[t].id] = "nothing"

\* An index to be put holds every id its user was told is active.
IndexKeeps(t) ==
  pc[t] \in Putting /\ put[t].key = IndexKey(req[t].user) =>
    \A id \in Ids : said[req[t].user][id] = "active" => id \in put[t].val.ids

\* One that was put is stored.
IndexStored(t) ==
  pc[t] = "wrote" /\ put[t].key = IndexKey(req[t].user) =>
    put[t].val.ids \subseteq IdsIn(table[IndexKey(req[t].user)])

\* A row that was put, while its user's, is as the request wants it.
RowFollows(t) ==
  /\ \/ pc[t] = "wrote"
     \/ pc[t] = "put" /\ put[t].key = IndexKey(req[t].user)
  /\ Owns(table[RowKey(req[t].id)], req[t].user)
  => (req[t].op = "revoke" <=> table[RowKey(req[t].id)].val.revoked)

\* A list has read, or will read, every active session of its user, and has
\* read what is stored.
ListFollows(t) ==
  pc[t] = "rows" =>
    LET u == req[t].user IN
    /\ \A id \in Ids : Owns(table[RowKey(id)], u) /\ said[u][id] = "active" =>
         id \in seen[t].todo \/ <<id, table[RowKey(id)].val>> \in seen[t].shown
    /\ \A s \in seen[t].shown :
         /\ s[2].owner = u
         /\ Owns(table[RowKey(s[1])], u) => s[2] = table[RowKey(s[1])].val

\* What the last request of a user may rely on, and what one may that no
\* overtaken put has met.
Keeps(t) == Unanswered(t) /\ IndexKeeps(t)
Agrees(t) == IndexStored(t) /\ RowFollows(t) /\ ListFollows(t)

Follows(t) ==
  /\ t \notin overtaken => Keeps(t)
  /\ t \notin overtaken /\ t \notin met => Agrees(t)

SerialInv ==
  /\ OnePerUser
  /\ \A u \in Users : Told(u)
  /\ \A t \in Tasks : Follows(t)

-----------------------------------------------------------------------------
(* What a step leaves alone. *)

\* User w's answers, index and rows are as before; rows may leave w.
Untouched(w) ==
  /\ said'[w] = said[w]
  /\ table'[IndexKey(w)] = table[IndexKey(w)]
  /\ \A id \in Ids : Owns(table'[RowKey(id)], w) => table'[RowKey(id)] = table[RowKey(id)]

\* Task s is left as it is, or counts for less than it did.
Stays(s) ==
  /\ pc'[s] = pc[s] /\ req'[s] = req[s] /\ put'[s] = put[s] /\ seen'[s] = seen[s]
  /\ s \in overtaken => s \in overtaken'
  /\ s \in met => s \in met'

LEMMA ToldFrame ==
  ASSUME NEW u \in Users, Told(u), Untouched(u) PROVE Told(u)'
  BY DEF Told, Untouched, Active

LEMMA KeepsFrame ==
  ASSUME TypeOK, NEW s \in Tasks, Keeps(s), pc[s] # "idle" => Untouched(req[s].user), Stays(s)
  PROVE  Keeps(s)'
  <1>1. CASE pc[s] = "idle"
    BY <1>1 DEF Keeps, Unanswered, IndexKeeps, Putting, Stays
  <1>2. CASE pc[s] # "idle"
    <2>1. /\ req[s].user \in Users /\ Untouched(req[s].user)
          /\ req[s].op \in {"create", "revoke"} => req[s].id \in Ids
      BY <1>2, BusyTyped
    <2>2. Unanswered(s)'
      BY <2>1 DEF Keeps, Unanswered, Untouched, Stays
    <2>3. IndexKeeps(s)'
      BY <2>1 DEF Keeps, IndexKeeps, Untouched, Stays
    <2> QED BY <2>2, <2>3 DEF Keeps
  <1> QED BY <1>1, <1>2

LEMMA AgreesFrame ==
  ASSUME TypeOK, NEW s \in Tasks, Agrees(s), pc[s] # "idle" => Untouched(req[s].user), Stays(s)
  PROVE  Agrees(s)'
  <1>1. CASE pc[s] = "idle"
    BY <1>1 DEF Agrees, IndexStored, RowFollows, ListFollows, Stays
  <1>2. CASE pc[s] # "idle"
    <2>1. /\ req[s].user \in Users /\ Untouched(req[s].user)
          /\ req[s].op \in {"create", "revoke"} => req[s].id \in Ids
      BY <1>2, BusyTyped
    <2>3. IndexStored(s)'
      BY <2>1 DEF Agrees, IndexStored, Untouched, Stays
    <2>4. RowFollows(s)'
      <3>1. pc[s] \in {"put", "wrote"} => req[s].id \in Ids
        BY <2>1 DEF TypeOK
      <3> QED BY <2>1, <3>1 DEF Agrees, RowFollows, Untouched, Stays
    <2>5. ListFollows(s)'
      <3>1. \A x \in seen[s].shown : x[1] \in Ids
        BY DEF TypeOK
      <3> QED BY <2>1, <3>1 DEF Agrees, ListFollows, Untouched, Stays
    <2> QED BY <2>3, <2>4, <2>5 DEF Agrees
  <1> QED BY <1>1, <1>2

LEMMA FollowsFrame ==
  ASSUME TypeOK, NEW s \in Tasks, Follows(s), pc[s] # "idle" => Untouched(req[s].user), Stays(s)
  PROVE  Follows(s)'
  <1>1. s \notin overtaken' => Keeps(s)'
    BY KeepsFrame DEF Follows, Stays
  <1>2. s \notin overtaken' /\ s \notin met' => Agrees(s)'
    BY AgreesFrame DEF Follows, Stays
  <1> QED BY <1>1, <1>2 DEF Follows

\* A step of task t for user u: what u's other tasks follow is to be shown.
LEMMA SerialCore ==
  ASSUME TypeOK, SerialInv, NEW t \in Tasks, NEW u \in Users,
         \A s \in Tasks \ {t} : Stays(s), OnePerUser',
         \A w \in Users \ {u} : Untouched(w),
         \A s \in Tasks \ {t} : pc[s] # "idle" /\ req[s].user = u => Follows(s)',
         Told(u)', Follows(t)'
  PROVE  SerialInv'
  <1>2. ASSUME NEW w \in Users PROVE Told(w)'
    BY <1>2, ToldFrame DEF SerialInv
  <1>3. ASSUME NEW s \in Tasks PROVE Follows(s)'
    <2>1. CASE s = t
      BY <2>1
    <2>2. CASE s # t /\ pc[s] # "idle" /\ req[s].user = u
      BY <2>2
    <2>3. CASE s # t /\ ~(pc[s] # "idle" /\ req[s].user = u)
      <3>1. pc[s] # "idle" => Untouched(req[s].user)
        BY <2>3, BusyTyped
      <3>2. Follows(s) /\ Stays(s)
        BY <2>3 DEF SerialInv
      <3> QED BY <3>1, <3>2, FollowsFrame
    <2> QED BY <2>1, <2>2, <2>3
  <1> QED BY <1>2, <1>3 DEF SerialInv

\* The user's other requests that count are over.
Alone(t, u) ==
  \A s \in Tasks \ {t} : pc[s] # "idle" /\ req[s].user = u => s \in overtaken'

LEMMA SerialTask ==
  ASSUME TypeOK, SerialInv, NEW t \in Tasks, NEW u \in Users,
         \A s \in Tasks \ {t} : Stays(s), Alone(t, u),
         \A w \in Users \ {u} : Untouched(w),
         pc'[t] # "idle" => req'[t].user = u,
         Told(u)', Follows(t)'
  PROVE  SerialInv'
  <1>1. OnePerUser'
    BY DEF OnePerUser, SerialInv, Alone, Stays
  <1>2. \A s \in Tasks \ {t} : pc[s] # "idle" /\ req[s].user = u => Follows(s)'
    BY DEF Alone, Follows
  <1> QED BY <1>1, <1>2, SerialCore

\* The other tasks of a busy one serve other users, or were overtaken.
LEMMA OthersApart ==
  ASSUME SerialInv, NEW t \in Tasks, pc[t] # "idle", t \notin overtaken,
         \A s \in Tasks \ {t} : Stays(s)
  PROVE  Alone(t, req[t].user)
  BY DEF SerialInv, OnePerUser, Alone, Stays

LEMMA AcceptApart ==
  ASSUME ~Overlap, NEW t \in Tasks, NEW r, NEW label, Accept(t, r, label)
  PROVE  Alone(t, r.user)
  BY DEF Accept, Exclusive, Busy, Alone

\* A question, or an answer, changes no other user's view.
LEMMA AskTold ==
  ASSUME TypeOK, NEW u \in Users, NEW id \in Ids, Ask(u, id), Told(u), table' = table
  PROVE  /\ Told(u)' /\ said'[u][id] = "nothing"
         /\ \A w \in Users \ {u} : Untouched(w)
  <1>1. /\ said'[u][id] = "nothing"
        /\ \A jd \in Ids \ {id} : said'[u][jd] = said[u][jd]
        /\ \A w \in Users \ {u} : said'[w] = said[w]
    BY DEF Ask, TypeOK
  <1> QED BY <1>1 DEF Told, Untouched, Active

LEMMA SayTold ==
  ASSUME TypeOK, NEW t \in Tasks, NEW u \in Users, NEW id \in Ids, NEW answer,
         req[t].user = u, req[t].id = id, Say(t, answer), Told(u), table' = table,
         t \notin met /\ answer = "active" =>
           /\ id \in IdsIn(table[IndexKey(u)])
           /\ Owns(table[RowKey(id)], u) => Active(u, id),
         t \notin met /\ answer = "revoked" => ~Active(u, id)
  PROVE  Told(u)' /\ \A w \in Users \ {u} : Untouched(w)
  <1>1. /\ said'[u][id] = IF t \in met THEN "nothing" ELSE answer
        /\ \A jd \in Ids \ {id} : said'[u][jd] = said[u][jd]
        /\ \A w \in Users \ {u} : said'[w] = said[w]
    BY DEF Say, TypeOK
  <1>2. said'[u][id] = "nothing" \/ (t \notin met /\ said'[u][id] = answer)
    BY <1>1
  <1> QED BY <1>1, <1>2 DEF Told, Untouched, Active

LEMMA Quiet ==
  ASSUME table' = table, said' = said, NEW w \in Users, Told(w)
  PROVE  Untouched(w) /\ Told(w)'
  BY ToldFrame DEF Untouched

\* An ended request has nothing left to follow.
LEMMA EndedFollows ==
  ASSUME TypeOK, NEW t \in Tasks, Done(t) PROVE Follows(t)' /\ pc'[t] = "idle"
  <1>1. pc'[t] = "idle" /\ seen'[t] = NoneSeen
    BY DEF Done, TypeOK
  <1> QED
    BY <1>1 DEF Follows, Keeps, Agrees, Unanswered, IndexKeeps, IndexStored, RowFollows,
                ListFollows, Putting

LEMMA DoneOthers ==
  ASSUME TypeOK, NEW t \in Tasks, Done(t), met \ {t} \subseteq met'
  PROVE  \A s \in Tasks \ {t} : Stays(s)
  BY DEF Done, TypeOK, Stays

-----------------------------------------------------------------------------
(* What a put does. *)

LEMMA PutEffect ==
  ASSUME TypeOK, PutInv, NEW t \in Tasks, pc[t] \in Putting,
         PutItem(put[t].key, put[t].val, put[t].ttl)
  PROVE  \/ /\ put[t].key = RowKey(req[t].id) /\ put[t].key # IndexKey(req[t].user)
            /\ table'[RowKey(req[t].id)] # NoItem
            /\ table'[RowKey(req[t].id)].val.owner = req[t].user
            /\ req[t].op = "revoke" <=> table'[RowKey(req[t].id)].val.revoked
            /\ \A id \in Ids \ {req[t].id} : table'[RowKey(id)] = table[RowKey(id)]
            /\ \A w \in Users : table'[IndexKey(w)] = table[IndexKey(w)]
         \/ /\ put[t].key = IndexKey(req[t].user)
            /\ IdsIn(table'[IndexKey(req[t].user)]) = put[t].val.ids
            /\ \A id \in Ids : table'[RowKey(id)] = table[RowKey(id)]
            /\ \A w \in Users \ {req[t].user} : table'[IndexKey(w)] = table[IndexKey(w)]
  <1>1. /\ req[t].op \in {"create", "revoke"} /\ req[t].user \in Users /\ req[t].id \in Ids
        /\ DOMAIN table = Keys /\ PutMeans(req[t], put[t]) /\ IsPut(put[t])
    BY BusyTyped DEF TypeOK, Putting, PutInv
  <1> DEFINE item == [val |-> put[t].val, ttl |-> put[t].ttl]
  <1>2. table' = [table EXCEPT ![put[t].key] = item] /\ TableTyped(table')
    BY <1>1, PutTyped DEF PutItem
  <1>3. CASE put[t].key = RowKey(req[t].id)
    <2>1. put[t].key # IndexKey(req[t].user)
      BY <1>1, <1>3, KeysApart
    <2>2. /\ put[t].val \in Rows /\ put[t].val.owner = req[t].user
          /\ IF req[t].op = "create" THEN ~put[t].val.revoked ELSE put[t].val.revoked
      BY <1>1, <2>1 DEF PutMeans
    <2>3. item \in RowItems
      <3>1. put[t].ttl = Ttl(put[t].val.exp)
        BY <1>1, <2>1 DEF PutMeans
      <3> QED BY <2>2, <3>1, TtlTyped DEF Rows, RowItems
    <2>4. item # NoItem /\ item.val = put[t].val
      BY <2>3, Apart
    <2> HIDE DEF item
    <2>5. table'[RowKey(req[t].id)] = item
      BY <1>1, <1>2, <1>3, KeysApart
    <2>6. \A id \in Ids \ {req[t].id} : table'[RowKey(id)] = table[RowKey(id)]
      BY <1>1, <1>2, <1>3, KeysApart
    <2>7. \A w \in Users : table'[IndexKey(w)] = table[IndexKey(w)]
      BY <1>1, <1>2, <1>3, KeysApart
    <2>8. req[t].op = "revoke" <=> put[t].val.revoked
      BY <1>1, <2>2 DEF Rows
    <2> QED BY <1>3, <2>1, <2>2, <2>4, <2>5, <2>6, <2>7, <2>8
  <1>4. CASE put[t].key = IndexKey(req[t].user)
    <2>1. item.val = put[t].val
      OBVIOUS
    <2> HIDE DEF item
    <2>2. table'[IndexKey(req[t].user)] = item
      BY <1>1, <1>2, <1>4, KeysApart
    <2>3. item # NoItem
      <3>1. put[t] \in [key: {IndexKey(req[t].user)}, val: [ids: SUBSET Ids], ttl: {NoTtl}]
        BY <1>1, <1>4, KeysApart DEF IsPut
      <3>2. item \in IndexItems
        BY <3>1 DEF item, IndexItems
      <3> QED BY <3>2, Apart
    <2>4. \A id \in Ids : table'[RowKey(id)] = table[RowKey(id)]
      BY <1>1, <1>2, <1>4, KeysApart
    <2>5. \A w \in Users \ {req[t].user} : table'[IndexKey(w)] = table[IndexKey(w)]
      BY <1>1, <1>2, <1>4, KeysApart
    <2> QED BY <1>4, <2>1, <2>2, <2>3, <2>4, <2>5 DEF IdsIn
  <1> QED BY <1>1, <1>3, <1>4 DEF PutMeans

\* A put leaves other users' views alone and breaks no answer to its own that
\* is not about its id, nor in an index it lacks.
LEMMA PutTold ==
  ASSUME TypeOK, PutInv, SerialInv, NEW t \in Tasks, pc[t] \in Putting,
         PutItem(put[t].key, put[t].val, put[t].ttl),
         NEW u \in Users, req[t].user = u,
         \A w \in Users \ {u} : said'[w] = said[w],
         \A id \in Ids : said'[u][id] = said[u][id] \/ said'[u][id] = "nothing",
         put[t].key = RowKey(req[t].id) => said'[u][req[t].id] = "nothing",
         put[t].key = IndexKey(u) =>
           \A id \in Ids : said'[u][id] = "active" => id \in put[t].val.ids
  PROVE  /\ \A w \in Users \ {u} : Untouched(w)
         /\ Told(u)'
  <1>1. req[t].op \in {"create", "revoke"} /\ req[t].id \in Ids /\ Told(u)
    BY BusyTyped DEF TypeOK, Putting, SerialInv
  <1>2. \A w \in Users \ {u} : Untouched(w)
    BY <1>1, PutEffect DEF Untouched, Owns
  <1>3. ASSUME NEW id \in Ids
        PROVE  /\ said'[u][id] = "active" =>
                    /\ id \in IdsIn(table'[IndexKey(u)])
                    /\ Owns(table'[RowKey(id)], u) => ~table'[RowKey(id)].val.revoked
               /\ said'[u][id] = "revoked" =>
                    ~(Owns(table'[RowKey(id)], u) /\ ~table'[RowKey(id)].val.revoked)
    <2>1. CASE id = req[t].id /\ put[t].key = RowKey(req[t].id)
      BY <1>1, <2>1
    <2>2. CASE ~(id = req[t].id /\ put[t].key = RowKey(req[t].id))
      <3>1. table'[RowKey(id)] = table[RowKey(id)]
        BY <2>2, PutEffect
      <3>2. said'[u][id] = "active" => id \in IdsIn(table'[IndexKey(u)])
        BY <1>1, PutEffect DEF Told
      <3> QED BY <1>1, <3>1, <3>2 DEF Told, Active
    <2> QED BY <2>1, <2>2
  <1>4. Told(u)'
    BY <1>3 DEF Told, Active
  <1> QED BY <1>2, <1>4

-----------------------------------------------------------------------------
(* The steps. *)

LEMMA SerialInit == Init => SerialInv
  BY KeysApart
     DEF Init, TableInit, SerialInv, OnePerUser, Told, Follows, Keeps, Agrees, Unanswered,
         IndexKeeps, IndexStored, RowFollows, ListFollows, Putting

LEMMA BusyCore ==
  ASSUME TypeOK, SerialInv, NEW t \in Tasks, pc[t] # "idle"
  PROVE  /\ req[t].user \in Users /\ Told(req[t].user) /\ Follows(t)
         /\ req[t].op \in {"create", "revoke"} => req[t].id \in Ids
         /\ pc[t] # "orphan" => t \notin overtaken
  BY BusyTyped DEF SerialInv, TypeOK

\* A request that ends without an answer.
LEMMA QuitStep ==
  ASSUME TypeOK, SerialInv, NEW t \in Tasks, pc[t] # "idle", Done(t), table' = table, said' = said,
         met \ {t} \subseteq met'
  PROVE  SerialInv'
  <1>1. PICK u \in Users : req[t].user = u
    BY BusyCore
  <1>2. \A w \in Users : Untouched(w) /\ Told(w)'
    BY Quiet DEF SerialInv
  <1>3. (\A s \in Tasks \ {t} : Stays(s)) /\ Follows(t)' /\ pc'[t] = "idle"
    BY DoneOthers, EndedFollows
  <1>4. OnePerUser'
    BY <1>3 DEF Done, SerialInv, OnePerUser, Stays
  <1>5. \A s \in Tasks \ {t} : Follows(s)'
    BY <1>2, <1>3, BusyTyped, FollowsFrame DEF SerialInv
  <1> QED BY <1>1, <1>2, <1>3, <1>4, <1>5, SerialCore

\* One that ends with an answer.
LEMMA AnswerStep ==
  ASSUME TypeOK, SerialInv, NEW t \in Tasks, pc[t] # "idle", t \notin overtaken,
         Done(t), table' = table,
         NEW u \in Users, NEW id \in Ids, NEW answer,
         req[t].user = u, req[t].id = id, Say(t, answer),
         t \notin met /\ answer = "active" =>
           /\ id \in IdsIn(table[IndexKey(u)])
           /\ Owns(table[RowKey(id)], u) => Active(u, id),
         t \notin met /\ answer = "revoked" => ~Active(u, id)
  PROVE  SerialInv'
  <1>1. Told(u)' /\ \A w \in Users \ {u} : Untouched(w)
    BY SayTold DEF SerialInv
  <1>2. \A s \in Tasks \ {t} : Stays(s)
    BY DoneOthers DEF Say
  <1>3. Alone(t, u)
    BY <1>2, OthersApart
  <1>4. Follows(t)' /\ pc'[t] = "idle"
    BY EndedFollows
  <1> QED BY <1>1, <1>2, <1>3, <1>4, SerialTask

\* One that begins.
LEMMA AcceptStep ==
  ASSUME ~Overlap, TypeOK, SerialInv, NEW t \in Tasks, NEW u \in Users, NEW r, NEW label,
         r.user = u, Accept(t, r, label), met' = met,
         \A s \in Tasks \ {t} : put'[s] = put[s], seen' = seen,
         Told(u)', \A w \in Users \ {u} : Untouched(w), Follows(t)'
  PROVE  SerialInv'
  <1>1. (\A s \in Tasks \ {t} : Stays(s)) /\ req'[t].user = u
    BY DEF Accept, TypeOK, Stays
  <1>2. Alone(t, u)
    BY AcceptApart
  <1> QED BY <1>1, <1>2, SerialTask

\* One that goes on, the table and the answers as they were.
LEMMA GoOnStep ==
  ASSUME TypeOK, SerialInv, NEW t \in Tasks, pc[t] # "idle", t \notin overtaken,
         table' = table, said' = said, req' = req, overtaken' = overtaken, met \ {t} \subseteq met',
         \A s \in Tasks \ {t} : pc'[s] = pc[s] /\ put'[s] = put[s] /\ seen'[s] = seen[s],
         Follows(t)'
  PROVE  SerialInv'
  <1>1. PICK u \in Users : req[t].user = u
    BY BusyCore
  <1>2. \A w \in Users : Untouched(w) /\ Told(w)'
    BY Quiet DEF SerialInv
  <1>3. \A s \in Tasks \ {t} : Stays(s)
    BY DEF Stays
  <1>4. Alone(t, u)
    BY <1>1, <1>3, OthersApart
  <1>5. pc'[t] # "idle" => req'[t].user = u
    BY <1>1
  <1> QED BY <1>1, <1>2, <1>3, <1>4, <1>5, SerialTask

LEMMA CreateSteps ==
  ASSUME ~Overlap, ConsistentReads, TypeOK, PutInv, SerialInv, NEW t \in Tasks, NEW u \in Users,
         ReceiveCreate(t, u) \/ CreateAppends(t) \/ CreateReply(t)
  PROVE  SerialInv'
  <1> USE DEF tableVars
  <1>1. ASSUME ReceiveCreate(t, u) PROVE SerialInv'
    <2>1. PICK intent \in Intents :
            LET r == Create(u, intent[1], intent[2]) IN
              /\ Accept(t, r, "put")
              /\ put' = [put EXCEPT ![t] = RowPut(r.id, Created(r))]
              /\ Ask(u, r.id)
              /\ table' = table /\ seen' = seen
      BY <1>1 DEF ReceiveCreate
    <2> DEFINE r == Create(u, intent[1], intent[2])
    <2>2. r.user = u /\ r.id \in Ids /\ r.op = "create"
      BY IntentAssumption DEF Create
    <2>3. /\ Accept(t, r, "put") /\ Ask(u, r.id) /\ seen' = seen /\ table' = table
          /\ put'[t].key = RowKey(r.id) /\ \A s \in Tasks \ {t} : put'[s] = put[s]
      BY <2>1 DEF TypeOK, RowPut
    <2> HIDE DEF r
    <2>4. Told(u)' /\ said'[u][r.id] = "nothing" /\ \A w \in Users \ {u} : Untouched(w)
      BY <2>2, <2>3, AskTold DEF SerialInv
    <2>5. Follows(t)'
      <3>1. /\ pc'[t] = "put" /\ req'[t] = r /\ put'[t].key # IndexKey(u) /\ seen'[t] = NoneSeen
        BY <2>2, <2>3, KeysApart DEF Accept, TypeOK
      <3> QED
        BY <2>2, <2>4, <3>1
           DEF Follows, Keeps, Agrees, Unanswered, IndexKeeps, IndexStored, RowFollows, ListFollows
    <2>6. met' = met
      BY <2>3 DEF Ask
    <2> QED BY <2>2, <2>3, <2>4, <2>5, <2>6, AcceptStep
  <1>2. ASSUME CreateAppends(t) PROVE SerialInv'
    <2>1. /\ pc[t] = "wrote" /\ req[t].op = "create" /\ req[t].id \in Ids /\ table' = table
          /\ put[t].key = RowKey(req[t].id) /\ req[t].user \in Users /\ Follows(t)
          /\ t \notin overtaken /\ Told(req[t].user)
      BY <1>2, BusyCore DEF CreateAppends
    <2>2. PICK w \in Users : req[t].user = w
      BY <2>1
    <2> DEFINE index == table[IndexKey(w)]
    <2>3. \/ /\ req[t].id \notin IdsIn(index)
             /\ IssuePut(t, IndexPut(w, Appended(IdsIn(index), req[t].id)))
             /\ UNCHANGED <<req, seen, said, met>>
          \/ /\ req[t].id \in IdsIn(index)
             /\ Done(t)
             /\ Say(t, "active")
      BY <1>2, <2>2 DEF CreateAppends, Reads, historyVars
    <2>4. t \notin met => (Owns(table[RowKey(req[t].id)], w) => Active(w, req[t].id))
      BY <2>1, <2>2 DEF Follows, Agrees, RowFollows, Active
    <2>5. CASE Done(t) /\ Say(t, "active") /\ req[t].id \in IdsIn(index)
      BY <2>1, <2>2, <2>4, <2>5, AnswerStep
    <2>6. CASE /\ IssuePut(t, IndexPut(w, Appended(IdsIn(index), req[t].id)))
               /\ UNCHANGED <<req, seen, said, met>>
      <3>1. /\ pc'[t] = "put" /\ req' = req /\ seen' = seen /\ said' = said
            /\ overtaken' = overtaken /\ met' = met
            /\ put'[t].key = IndexKey(w) /\ IdsIn(index) \subseteq put'[t].val.ids
            /\ \A s \in Tasks \ {t} : pc'[s] = pc[s] /\ put'[s] = put[s]
        BY <2>6 DEF IssuePut, IndexPut, Appended, TypeOK
      <3>2. Keeps(t)'
        <4>1. \A id \in Ids : said[w][id] = "active" => id \in IdsIn(index)
          BY <2>1, <2>2 DEF Told
        <4> QED
          BY <2>1, <2>2, <3>1, <4>1 DEF Follows, Keeps, Unanswered, IndexKeeps, Putting
      <3>3. t \notin met => Agrees(t)'
        BY <2>1, <2>2, <2>4, <3>1
           DEF Follows, Agrees, IndexStored, RowFollows, ListFollows, Active
      <3>4. Follows(t)'
        BY <3>1, <3>2, <3>3 DEF Follows
      <3> QED BY <2>1, <3>1, <3>4, GoOnStep
    <2> QED BY <2>3, <2>5, <2>6
  <1>3. ASSUME CreateReply(t) PROVE SerialInv'
    <2>1. /\ pc[t] = "wrote" /\ req[t].op = "create" /\ req[t].id \in Ids /\ table' = table
          /\ put[t].key = IndexKey(req[t].user) /\ req[t].user \in Users /\ Follows(t) /\ Done(t)
          /\ Say(t, "active") /\ t \notin overtaken
      BY <1>3, BusyCore DEF CreateReply
    <2>2. req[t].id \in put[t].val.ids
      BY <2>1, KeysApart DEF PutInv, PutMeans, Putting
    <2>3. t \notin met =>
            /\ req[t].id \in IdsIn(table[IndexKey(req[t].user)])
            /\ Owns(table[RowKey(req[t].id)], req[t].user) => Active(req[t].user, req[t].id)
      BY <2>1, <2>2 DEF Follows, Agrees, IndexStored, RowFollows, Active
    <2> QED BY <2>1, <2>3, AnswerStep
  <1> QED BY <1>1, <1>2, <1>3

LEMMA RevokeSteps ==
  ASSUME ~Overlap, ConsistentReads, TypeOK, PutInv, SerialInv, NEW t \in Tasks, NEW u \in Users,
         \/ \E id \in Ids : ReceiveRevoke(t, u, id)
         \/ RevokeGet(t) \/ RevokeMisses(t) \/ RevokeReply(t)
  PROVE  SerialInv'
  <1> USE DEF tableVars
  <1>1. ASSUME NEW id \in Ids, ReceiveRevoke(t, u, id) PROVE SerialInv'
    <2> DEFINE r == Revoke(u, id)
    <2>1. /\ r.user = u /\ r.id = id /\ r.op = "revoke"
      BY DEF Revoke
    <2>2. Accept(t, r, "get") /\ Ask(u, id) /\ UNCHANGED <<table, put, seen, met>>
      BY <1>1 DEF ReceiveRevoke, Ask
    <2> HIDE DEF r
    <2>3. Told(u)' /\ said'[u][id] = "nothing" /\ \A w \in Users \ {u} : Untouched(w)
      BY <2>2, AskTold DEF SerialInv
    <2>4. Follows(t)'
      <3>1. pc'[t] = "get" /\ req'[t] = r /\ seen'[t] = NoneSeen
        BY <2>2 DEF Accept, TypeOK
      <3> QED
        BY <2>1, <2>3, <3>1
           DEF Follows, Keeps, Agrees, Unanswered, IndexKeeps, IndexStored, RowFollows, ListFollows,
               Putting
    <2> QED BY <2>1, <2>2, <2>3, <2>4, AcceptStep
  <1>2. ASSUME RevokeGet(t) PROVE SerialInv'
    <2>1. /\ pc[t] = "get" /\ req[t].op = "revoke" /\ req[t].id \in Ids /\ Follows(t)
          /\ req[t].user \in Users /\ UNCHANGED <<table, req, seen, said, met>>
          /\ t \notin overtaken
      BY <1>2, BusyCore DEF RevokeGet, historyVars
    <2>2. PICK found \in Reads(RowKey(req[t].id)) :
            IssuePut(t, RowPut(req[t].id, [found.val EXCEPT !.revoked = TRUE]))
      BY <1>2 DEF RevokeGet
    <2>3. /\ pc'[t] = "put" /\ put'[t].key = RowKey(req[t].id) /\ overtaken' = overtaken
          /\ \A s \in Tasks \ {t} : pc'[s] = pc[s] /\ put'[s] = put[s]
      BY <2>2 DEF IssuePut, RowPut, TypeOK
    <2>4. put'[t].key # IndexKey(req[t].user)
      BY <2>1, <2>3, KeysApart
    <2>5. Follows(t)'
      BY <2>1, <2>3, <2>4
         DEF Follows, Keeps, Agrees, Unanswered, IndexKeeps, IndexStored, RowFollows, ListFollows,
             Putting
    <2> QED BY <2>1, <2>3, <2>5, GoOnStep
  <1>3. ASSUME RevokeMisses(t) PROVE SerialInv'
    <2>1. /\ pc[t] = "get" /\ req[t].op = "revoke" /\ req[t].id \in Ids /\ Done(t)
          /\ req[t].user \in Users /\ table' = table /\ t \notin overtaken
          /\ ~Owns(table[RowKey(req[t].id)], req[t].user)
      BY <1>3, BusyCore DEF RevokeMisses, Reads
    <2>2. Say(t, "revoked") \/ Leave(t)
      BY <1>3 DEF RevokeMisses
    <2>3. ~Active(req[t].user, req[t].id)
      BY <2>1 DEF Active
    <2>4. CASE Say(t, "revoked")
      BY <2>1, <2>3, <2>4, AnswerStep
    <2>5. CASE Leave(t)
      BY <2>1, <2>5, QuitStep DEF Leave
    <2> QED BY <2>2, <2>4, <2>5
  <1>4. ASSUME RevokeReply(t) PROVE SerialInv'
    <2>1. /\ pc[t] = "wrote" /\ req[t].op = "revoke" /\ req[t].id \in Ids /\ Done(t)
          /\ req[t].user \in Users /\ table' = table /\ Follows(t)
          /\ Say(t, "revoked") /\ t \notin overtaken
      BY <1>4, BusyCore DEF RevokeReply
    <2>2. t \notin met => ~Active(req[t].user, req[t].id)
      BY <2>1 DEF Follows, Agrees, RowFollows, Active
    <2> QED BY <2>1, <2>2, AnswerStep
  <1> QED BY <1>1, <1>2, <1>3, <1>4

LEMMA ListSteps ==
  ASSUME ~Overlap, ConsistentReads, TypeOK, PutInv, SerialInv, NEW t \in Tasks, NEW u \in Users,
         ReceiveList(t, u) \/ ListIndex(t) \/ ListRow(t)
  PROVE  SerialInv'
  <1> USE DEF tableVars
  <1>1. ASSUME ReceiveList(t, u) PROVE SerialInv'
    <2> DEFINE r == List(u)
    <2>1. r.user = u /\ r.op = "list"
      BY DEF List
    <2>2. Accept(t, r, "get") /\ UNCHANGED <<table, put, seen, said, met>>
      BY <1>1 DEF ReceiveList, historyVars
    <2> HIDE DEF r
    <2>3. \A w \in Users : Untouched(w) /\ Told(w)'
      BY <2>2, Quiet DEF SerialInv
    <2>4. Follows(t)'
      <3>1. pc'[t] = "get" /\ req'[t] = r /\ seen'[t] = NoneSeen
        BY <2>2 DEF Accept, TypeOK
      <3> QED
        BY <2>1, <3>1
           DEF Follows, Keeps, Agrees, Unanswered, IndexKeeps, IndexStored, RowFollows, ListFollows,
               Putting
    <2> QED BY <2>1, <2>2, <2>3, <2>4, AcceptStep
  <1>2. ASSUME ListIndex(t) PROVE SerialInv'
    <2>1. /\ pc[t] = "get" /\ req[t].op = "list" /\ req[t].user \in Users
          /\ Told(req[t].user) /\ t \notin overtaken
          /\ UNCHANGED <<table, req, put, said, overtaken, met>>
          /\ pc' = [pc EXCEPT ![t] = "rows"]
          /\ seen' = [seen EXCEPT ![t].todo = IdsIn(table[IndexKey(req[t].user)])]
      BY <1>2, BusyCore DEF ListIndex, Reads, historyVars
    <2>2. seen[t] = NoneSeen
      BY <2>1 DEF TypeOK, NoneSeen
    <2>3. /\ pc'[t] = "rows"
          /\ seen'[t] = [todo |-> IdsIn(table[IndexKey(req[t].user)]), shown |-> {}]
          /\ \A s \in Tasks \ {t} : pc'[s] = pc[s] /\ seen'[s] = seen[s]
      <3>1. pc'[t] = "rows" /\ \A s \in Tasks \ {t} : pc'[s] = pc[s] /\ seen'[s] = seen[s]
        BY <2>1 DEF TypeOK
      <3>2. seen'[t] = [seen[t] EXCEPT !.todo = IdsIn(table[IndexKey(req[t].user)])]
        BY <2>1 DEF TypeOK
      <3> QED BY <2>2, <3>1, <3>2 DEF NoneSeen
    <2>4. Follows(t)'
      BY <2>1, <2>3
         DEF Told, Follows, Keeps, Agrees, Unanswered, IndexKeeps, IndexStored, RowFollows,
             ListFollows, Putting
    <2> QED BY <2>1, <2>3, <2>4, GoOnStep
  <1>3. ASSUME ListRow(t) PROVE SerialInv'
    <2>1. /\ pc[t] = "rows" /\ req[t].user \in Users /\ Follows(t) /\ t \notin overtaken
          /\ UNCHANGED <<table, pc, req, put, said, overtaken, met>>
      BY <1>3, BusyCore DEF ListRow, historyVars
    <2>2. PICK id \in seen[t].todo :
            seen' = [seen EXCEPT ![t] =
              [todo |-> @.todo \ {id},
               shown |-> @.shown \cup Shown(id, table[RowKey(id)], req[t].user)]]
      BY <1>3 DEF ListRow, Reads
    <2>3. /\ seen'[t].todo = seen[t].todo \ {id}
          /\ seen'[t].shown = seen[t].shown \cup Shown(id, table[RowKey(id)], req[t].user)
          /\ \A s \in Tasks \ {t} : seen'[s] = seen[s]
      BY <2>2 DEF TypeOK
    <2>4. Shown(id, table[RowKey(id)], req[t].user) =
            IF Owns(table[RowKey(id)], req[t].user) THEN {<<id, table[RowKey(id)].val>>} ELSE {}
      BY DEF Shown
    <2>5. \A s \in seen'[t].shown \ seen[t].shown :
            s = <<id, table[RowKey(id)].val>> /\ Owns(table[RowKey(id)], req[t].user)
      BY <2>3, <2>4
    <2>6. ASSUME t \notin met PROVE ListFollows(t)'
      <3>1. ASSUME NEW jd \in Ids, Owns(table[RowKey(jd)], req[t].user),
                   said[req[t].user][jd] = "active"
            PROVE  jd \in seen'[t].todo \/ <<jd, table[RowKey(jd)].val>> \in seen'[t].shown
        <4>1. jd \in seen[t].todo \/ <<jd, table[RowKey(jd)].val>> \in seen[t].shown
          BY <2>1, <2>6, <3>1 DEF Follows, Agrees, ListFollows
        <4> QED BY <2>3, <2>4, <3>1, <4>1
      <3>2. ASSUME NEW s \in seen'[t].shown
            PROVE  /\ s[2].owner = req[t].user
                   /\ Owns(table[RowKey(s[1])], req[t].user) => s[2] = table[RowKey(s[1])].val
        <4>1. CASE s \in seen[t].shown
          BY <2>1, <2>6, <4>1 DEF Follows, Agrees, ListFollows
        <4>2. CASE s \notin seen[t].shown
          BY <2>5, <4>2 DEF Owns
        <4> QED BY <4>1, <4>2
      <3> QED BY <2>1, <3>1, <3>2 DEF ListFollows
    <2>7. Follows(t)'
      BY <2>1, <2>6
         DEF Follows, Keeps, Agrees, Unanswered, IndexKeeps, IndexStored, RowFollows, Putting
    <2> QED BY <2>1, <2>3, <2>7, GoOnStep
  <1> QED BY <1>1, <1>2, <1>3

LEMMA WriteStep ==
  ASSUME TypeOK, PutInv, SerialInv, NEW t \in Tasks, Write(t) PROVE SerialInv'
  <1>1. /\ pc[t] \in Putting /\ pc[t] # "idle" /\ req[t].user \in Users /\ Follows(t)
        /\ req[t].op \in {"create", "revoke"} /\ req[t].id \in Ids /\ t \notin overtaken
    BY BusyCore DEF Write, Putting, TypeOK
  <1>2. PICK u \in Users : req[t].user = u
    BY <1>1
  <1>3. /\ PutItem(put[t].key, put[t].val, put[t].ttl)
        /\ pc'[t] = "wrote" /\ \A s \in Tasks \ {t} : pc'[s] = pc[s]
        /\ UNCHANGED <<req, put, seen, overtaken, said, met>>
    BY DEF Write, TypeOK, historyVars
  <1>4. Told(u)' /\ \A w \in Users \ {u} : Untouched(w)
    <2>1. said[u][req[t].id] = "nothing"
      BY <1>1, <1>2 DEF Follows, Keeps, Unanswered
    <2>2. put[t].key = IndexKey(u) => \A id \in Ids : said[u][id] = "active" => id \in put[t].val.ids
      BY <1>1, <1>2 DEF Follows, Keeps, IndexKeeps
    <2> QED BY <1>1, <1>2, <1>3, <2>1, <2>2, PutTold
  <1>5. Keeps(t)'
    BY <1>1, <1>3 DEF Follows, Keeps, Unanswered, IndexKeeps, Putting
  <1>6. ASSUME t \notin met PROVE Agrees(t)'
    <2>1. IndexStored(t)'
      BY <1>1, <1>3, PutEffect DEF IndexStored
    <2>2. RowFollows(t)'
      <3>1. CASE put[t].key = IndexKey(req[t].user)
        <4>1. table'[RowKey(req[t].id)] = table[RowKey(req[t].id)] /\ pc[t] \in {"put", "wrote"}
          BY <1>1, <1>3, <3>1, PutEffect DEF Write
        <4> QED BY <1>1, <1>3, <1>6, <3>1, <4>1 DEF Follows, Agrees, RowFollows
      <3>2. CASE put[t].key # IndexKey(req[t].user)
        BY <1>1, <1>3, <3>2, PutEffect DEF RowFollows
      <3> QED BY <3>1, <3>2
    <2>3. ListFollows(t)'
      <3>1. pc[t] # "rows"
        BY <1>1 DEF Putting
      <3> QED BY <1>1, <1>3, <1>6, <3>1 DEF Follows, Agrees, ListFollows
    <2> QED BY <2>1, <2>2, <2>3 DEF Agrees
  <1>7. Follows(t)'
    BY <1>3, <1>5, <1>6 DEF Follows
  <1>8. (\A s \in Tasks \ {t} : Stays(s)) /\ req'[t].user = u
    BY <1>2, <1>3 DEF Stays
  <1>9. Alone(t, u)
    BY <1>1, <1>2, <1>8, OthersApart
  <1> QED BY <1>4, <1>7, <1>8, <1>9, SerialTask

\* The put of an abandoned request lands: one that a later request overtook
\* takes back what was said of what it lands on.
LEMMA LateStep ==
  ASSUME TypeOK, PutInv, SerialInv, NEW t \in Tasks, LateWrite(t) PROVE SerialInv'
  <1>1. /\ pc[t] = "orphan" /\ pc[t] \in Putting /\ Done(t) /\ req[t].user \in Users /\ Follows(t)
        /\ req[t].id \in Ids /\ PutItem(put[t].key, put[t].val, put[t].ttl)
    BY BusyCore DEF LateWrite, Putting, TypeOK
  <1>2. PICK u \in Users : req[t].user = u
    BY <1>1
  <1>3. Follows(t)' /\ pc'[t] = "idle"
    BY <1>1, EndedFollows
  <1>4. CASE t \notin overtaken
    <2>1. said' = said /\ met' = met
      BY <1>4 DEF LateWrite, historyVars
    <2>2. said[u][req[t].id] = "nothing"
      BY <1>1, <1>2, <1>4, BusyTyped DEF Follows, Keeps, Unanswered, TypeOK
    <2>3. put[t].key = IndexKey(u) => \A id \in Ids : said[u][id] = "active" => id \in put[t].val.ids
      BY <1>1, <1>2, <1>4 DEF Follows, Keeps, IndexKeeps
    <2>4. Told(u)' /\ \A w \in Users \ {u} : Untouched(w)
      BY <1>1, <1>2, <2>1, <2>2, <2>3, PutTold
    <2>5. \A s \in Tasks \ {t} : Stays(s)
      BY <1>1, <2>1, DoneOthers
    <2>6. Alone(t, u)
      BY <1>1, <1>2, <1>4, <2>5, OthersApart
    <2> QED BY <1>3, <2>4, <2>5, <2>6, SerialTask
  <1>5. CASE t \in overtaken
    <2>1. Unsay(u, put[t])
      BY <1>2, <1>5 DEF LateWrite
    <2>2. /\ \A w \in Users \ {u} : said'[w] = said[w]
          /\ \A id \in Ids : said'[u][id] =
               IF put[t].key \in {RowKey(id), IndexKey(u)} THEN "nothing" ELSE said[u][id]
      BY <2>1 DEF Unsay, TypeOK
    <2>3. /\ \A id \in Ids : said'[u][id] = said[u][id] \/ said'[u][id] = "nothing"
          /\ put[t].key = RowKey(req[t].id) => said'[u][req[t].id] = "nothing"
          /\ put[t].key = IndexKey(u) => \A id \in Ids : said'[u][id] # "active"
      BY <1>1, <2>2
    <2>4. Told(u)' /\ \A w \in Users \ {u} : Untouched(w)
      BY <1>1, <1>2, <2>2, <2>3, PutTold
    <2>5. \A s \in Tasks \ {t} : Stays(s)
      BY <1>1, <2>1, DoneOthers DEF Unsay
    <2>6. OnePerUser'
      BY <1>3, <2>5 DEF SerialInv, OnePerUser, Stays
    <2>7. ASSUME NEW s \in Tasks \ {t}, pc[s] # "idle", req[s].user = u PROVE Follows(s)'
      <3>1. Follows(s) /\ Stays(s)
        BY <2>5, <2>7 DEF SerialInv
      <3>2. s \notin overtaken' => Keeps(s)'
        <4>1. req[s].op \in {"create", "revoke"} => req[s].id \in Ids
          BY <2>7, BusyTyped
        <4> QED
          BY <2>3, <2>7, <3>1, <4>1 DEF Follows, Stays, Keeps, Unanswered, IndexKeeps
      <3>3. ASSUME s \notin overtaken', s \notin met' PROVE Agrees(s)'
        <4>1. s \notin overtaken /\ s \notin met
          BY <3>1, <3>3 DEF Stays
        <4>2. s \in Busy(u)
          BY <2>7 DEF Busy
        <4>3. pc[s] = "orphan"
          BY <2>1, <3>3, <4>2 DEF Unsay, Leftovers
        <4> QED
          BY <3>1, <4>1, <4>3
             DEF Follows, Stays, Agrees, IndexStored, RowFollows, ListFollows
      <3> QED BY <3>2, <3>3 DEF Follows
    <2> QED BY <1>3, <2>4, <2>5, <2>6, <2>7, SerialCore
  <1> QED BY <1>4, <1>5

LEMMA AbandonStep ==
  ASSUME TypeOK, SerialInv, NEW t \in Tasks, AbandonPut(t) PROVE SerialInv'
  <1>1. /\ pc[t] \in {"put", "wrote"} /\ t \notin overtaken /\ Follows(t)
        /\ UNCHANGED <<table, req, put, seen, overtaken, said>> /\ met' = met \ {t}
        /\ pc'[t] = "orphan" /\ \A s \in Tasks \ {t} : pc'[s] = pc[s]
    BY BusyCore DEF AbandonPut, Leave, tableVars, TypeOK
  <1>2. Keeps(t)'
    BY <1>1 DEF Follows, Keeps, Unanswered, IndexKeeps, Putting
  <1>3. Agrees(t)'
    BY <1>1 DEF Agrees, IndexStored, RowFollows, ListFollows
  <1>4. Follows(t)'
    BY <1>2, <1>3 DEF Follows
  <1>5. pc[t] # "idle" /\ met \ {t} \subseteq met'
    BY <1>1
  <1> QED BY <1>1, <1>4, <1>5, GoOnStep

\* The reaper takes rows, never an index.
LEMMA ReapStep ==
  ASSUME TypeOK, SerialInv, NEW k \in Keys, Reap(k), UNCHANGED <<taskVars, historyVars>>
  PROVE  SerialInv'
  <1>1. /\ table' = [table EXCEPT ![k] = NoItem] /\ table[k] # NoItem /\ table[k].ttl # NoTtl
        /\ DOMAIN table = Keys /\ UNCHANGED <<pc, req, put, seen, overtaken, said, met>>
    BY DEF Reap, DeleteItem, taskVars, historyVars, TypeOK
  <1>2. ASSUME NEW w \in Users PROVE Untouched(w)
    <2>1. k # IndexKey(w)
      BY <1>1 DEF TypeOK, IndexItems
    <2> QED BY <1>1, <2>1, KeysApart DEF Untouched, Owns
  <1>3. ASSUME NEW s \in Tasks PROVE Follows(s)'
    <2>1. pc[s] # "idle" => Untouched(req[s].user)
      BY <1>2, BusyTyped
    <2>2. Stays(s)
      BY <1>1 DEF Stays
    <2> QED BY <2>1, <2>2, FollowsFrame DEF SerialInv
  <1>4. ASSUME NEW w \in Users PROVE Told(w)'
    BY <1>2, ToldFrame DEF SerialInv
  <1>5. OnePerUser'
    BY <1>1 DEF SerialInv, OnePerUser
  <1> QED BY <1>3, <1>4, <1>5 DEF SerialInv

LEMMA SerialStep ==
  ASSUME ~Overlap, ConsistentReads, TypeOK, PutInv, SerialInv, [Next]_vars
  PROVE  SerialInv'
  <1>1. ASSUME NEW t \in Tasks, ListReply(t) \/ AbandonGet(t) \/ LostWrite(t) PROVE SerialInv'
    BY <1>1, QuitStep DEF ListReply, AbandonGet, LostWrite, Leave, tableVars, historyVars
  <1>2. CASE UNCHANGED <<table, taskVars, historyVars>>
    BY <1>2
       DEF taskVars, historyVars, SerialInv, OnePerUser, Told, Active, Follows, Keeps, Agrees,
           Unanswered, IndexKeeps, IndexStored, RowFollows, ListFollows
  <1>3. \/ UNCHANGED <<table, taskVars, historyVars>>
        \/ \E k \in Keys : Reap(k) /\ UNCHANGED <<taskVars, historyVars>>
        \/ \E t \in Tasks : TaskStep(t) \/ \E u \in Users : ReceiveStep(t, u)
    BY DEF Next, vars, tableVars, Replicate, Tick
  <1>4. ASSUME NEW t \in Tasks, TaskStep(t) PROVE SerialInv'
    <2>1. pc[t] # "idle"
      BY <1>4
         DEF TaskStep, CreateAppends, CreateReply, RevokeGet, RevokeMisses, RevokeReply, ListIndex,
             ListRow, ListReply, Write, AbandonGet, AbandonPut, LateWrite, LostWrite
    <2>2. PICK u \in Users : req[t].user = u
      BY <2>1, BusyTyped
    <2> QED BY <1>1, <1>4, CreateSteps, RevokeSteps, ListSteps, WriteStep, LateStep, AbandonStep
           DEF TaskStep
  <1>5. ASSUME NEW t \in Tasks, NEW u \in Users, ReceiveStep(t, u) PROVE SerialInv'
    BY <1>5, CreateSteps, RevokeSteps, ListSteps DEF ReceiveStep
  <1> QED BY <1>2, <1>3, <1>4, <1>5, ReapStep

LEMMA SerialHolds ==
  ASSUME ~Overlap, ConsistentReads PROVE Spec => [](TypeOK /\ SerialInv)
  <1>1. TypeOK /\ PutInv /\ SerialInv /\ [Next]_vars => SerialInv'
    BY SerialStep
  <1> QED BY <1>1, SerialInit, PutHolds, PTL DEF Spec

-----------------------------------------------------------------------------
\* With a user who waits for the end of a request before the next, and
\* consistent reads, what the user was told stands through the reaper, other
\* users' requests under the same id, whatever was abandoned since and landed
\* before another request came: a created session is listed and active, a
\* revoked one is not active.  A put that a later request overtook undoes by
\* landing the answers about what it lands on, and the next answer stands again.
THEOREM SerialAnswersHold ==
  ASSUME ~Overlap, ConsistentReads PROVE Spec => []AnswersHold
  <1>1. SerialInv => AnswersHold
    BY DEF SerialInv, Told, Active, AnswersHold
  <1> QED BY <1>1, SerialHolds, PTL

Agree ==
  \A t \in Tasks : ListReply(t) /\ t \notin met =>
    LET u == req[t].user
        own == {id \in Ids : Owns(table[RowKey(id)], u)}
    IN
    /\ \A id \in own : said[u][id] = "active" =>
         <<id, table[RowKey(id)].val>> \in seen[t].shown
    /\ \A s \in seen[t].shown :
         s[2].owner = u /\ (s[1] \in own => s[2] = table[RowKey(s[1])].val)

\* Under the same assumptions a list, though read in one await per row, agrees
\* with the table at the moment it leaves, unless such a put landed meanwhile.
THEOREM SerialListAgrees ==
  ASSUME ~Overlap, ConsistentReads PROVE Spec => ListAgrees
  <1>1. TypeOK /\ SerialInv => Agree
    <2> SUFFICES ASSUME TypeOK, SerialInv, NEW t \in Tasks, ListReply(t), t \notin met
                 PROVE  LET u == req[t].user
                            own == {id \in Ids : Owns(table[RowKey(id)], u)}
                        IN
                        /\ \A id \in own : said[u][id] = "active" =>
                             <<id, table[RowKey(id)].val>> \in seen[t].shown
                        /\ \A s \in seen[t].shown :
                             s[2].owner = u /\ (s[1] \in own => s[2] = table[RowKey(s[1])].val)
      BY DEF Agree
    <2>1. pc[t] = "rows" /\ seen[t].todo = {} /\ t \notin overtaken
      BY DEF ListReply, TypeOK
    <2> QED BY <2>1 DEF SerialInv, Follows, Agrees, ListFollows
  <1>2. Spec => [][Agree]_vars
    BY <1>1, SerialHolds, PTL DEF Spec
  <1> QED BY <1>2, PTL DEF ListAgrees, Agree
=============================================================================
