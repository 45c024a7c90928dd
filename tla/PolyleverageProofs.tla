-------------------------- MODULE PolyleverageProofs --------------------------
(***************************************************************************)
(* Theorems about PolyleverageSession, for any users, slots and chains,    *)
(* any overlap of requests and any staleness of reads: a mirror never runs *)
(* ahead of the chain.  And one about users that send one request at a     *)
(* time: an upsert keeps what it was not given.                            *)
(***************************************************************************)
EXTENDS PolyleverageSession, TLAPS

Items == [val: Rows, ttl: {NoTtl}]

LEMMA NoItemApart == NoItem \notin Rows /\ NoItem \notin Items
  BY PolyleverageAssumption DEF Items

LEMMA RequestsApart == NoReq \notin Requests
  BY DEF NoReq, Requests

-----------------------------------------------------------------------------
(* Type correctness. *)

LEMMA ReadsTyped ==
  ASSUME TypeOK, NEW k \in Keys, NEW found \in Reads(k)
  PROVE  found \in Items \cup {NoItem}
  BY DEF TypeOK, Reads, Items

LEMMA MirroredTyped ==
  ASSUME NEW found \in Items \cup {NoItem},
         NEW r \in Requests, r.op = "upsert"
  PROVE  Mirrored(found, r) \in Rows
  BY NoItemApart DEF Mirrored, Items, Rows, Requests, Left

LEMMA PutTyped ==
  ASSUME TypeOK, NEW k \in Keys, NEW row \in Rows, PutItem(k, row, NoTtl)
  PROVE  table' \in [Keys -> Items \cup {NoItem}]
  BY DEF TypeOK, PutItem, Items

LEMMA TypeInit == Init => TypeOK
  <1> SUFFICES ASSUME Init PROVE TypeOK
    OBVIOUS
  <1>1. chain \in [Keys -> Seq(Snapshots) \ {<<>>}]
    <2>1. [used |-> 0, revoked |-> FALSE] \in Snapshots
      BY DEF Snapshots
    <2> QED BY <2>1 DEF Init
  <1> QED BY <1>1, TableAssumption DEF Init, TableInit, TypeOK

\* The history variables: an overtaken request is over but for its put.
HistoryTyped ==
  /\ overtaken \subseteq Tasks
  /\ \A t \in overtaken : pc[t] \in {"orphan", "echo"}
  /\ late \subseteq Keys

\* A request that goes on keeps its fields; its copy is a row once it is put.
LEMMA TaskTyped ==
  ASSUME TypeOK, NEW t \in Tasks, NEW label \in {"get", "put", "wrote", "orphan", "echo"},
         NEW r \in Requests, NEW row \in Rows \cup {NoItem},
         label # "get" => row \in Rows,
         pc' = [pc EXCEPT ![t] = label], req' = [req EXCEPT ![t] = r],
         copy' = [copy EXCEPT ![t] = row], UNCHANGED <<replica, chain, now>>,
         HistoryTyped',
         table' \in [Keys -> Items \cup {NoItem}]
  PROVE  TypeOK'
  BY RequestsApart DEF TypeOK, HistoryTyped, Items

LEMMA DoneTyped ==
  ASSUME TypeOK, NEW t \in Tasks, Done(t), UNCHANGED <<replica, chain, now>>,
         HistoryTyped',
         table' \in [Keys -> Items \cup {NoItem}]
  PROVE  TypeOK'
  BY RequestsApart DEF TypeOK, HistoryTyped, Done, Items

LEMMA BusyTyped ==
  ASSUME TypeOK, NEW t \in Tasks, pc[t] # "idle"
  PROVE  req[t] \in Requests /\ req[t].key \in Keys
  BY DEF TypeOK, Requests

\* A request that begins overtakes only puts, one that ends leaves the history.
LEMMA HistoryStep ==
  ASSUME TypeOK, [Next]_vars
  PROVE  HistoryTyped'
  <1> USE DEF tableVars, taskVars
  <1>1. ASSUME NEW t \in Tasks, NEW r, Receive(t, r) PROVE HistoryTyped'
    <2>1. \A u \in Leftovers(r.key) : u \in Tasks /\ pc[u] \in {"orphan", "echo"}
      BY DEF Leftovers, Busy
    <2> QED BY <1>1, <2>1 DEF Receive, TypeOK, HistoryTyped
  <1>2. ASSUME NEW t \in Tasks, Done(t), late' \subseteq Keys PROVE HistoryTyped'
    BY <1>2 DEF Done, TypeOK, HistoryTyped
  <1>3. ASSUME NEW t \in Tasks, NEW k \in Keys, ReceiveUpsert(t, k) \/ ReceiveRevoke(t, k)
        PROVE  HistoryTyped'
    BY <1>1, <1>3 DEF ReceiveUpsert, ReceiveRevoke
  <1>4. ASSUME NEW t \in Tasks, NEW row, IssuePut(t, row), pc[t] = "get" PROVE HistoryTyped'
    BY <1>4 DEF IssuePut, TypeOK, HistoryTyped
  <1>5. ASSUME NEW t \in Tasks, RevokeMisses(t) \/ Reply(t) \/ AbandonGet(t) \/ LostWrite(t)
        PROVE  HistoryTyped'
    BY <1>2, <1>5 DEF RevokeMisses, Reply, AbandonGet, LostWrite, TypeOK
  <1>6. ASSUME NEW t \in Tasks, Write(t) \/ AbandonPut(t) PROVE HistoryTyped'
    BY <1>6 DEF Write, AbandonPut, TypeOK, HistoryTyped
  <1>7. ASSUME NEW t \in Tasks, LateWrite(t) PROVE HistoryTyped'
    <2>1. late' \subseteq Keys
      BY <1>7, BusyTyped DEF LateWrite, TypeOK
    <2> QED BY <1>2, <1>7, <2>1 DEF LateWrite
  <1>8. ASSUME NEW t \in Tasks, UpsertGet(t) \/ RevokeGet(t) PROVE HistoryTyped'
    BY <1>4, <1>8 DEF UpsertGet, RevokeGet
  <1>9. CASE \/ \E k \in Keys : ChainMoves(k)
             \/ (Tick \/ \E k \in Keys : Replicate(k)) /\ UNCHANGED <<chain, taskVars>>
             \/ UNCHANGED vars
    BY <1>9 DEF ChainMoves, vars, TypeOK, HistoryTyped
  <1> QED BY <1>3, <1>5, <1>6, <1>7, <1>8, <1>9 DEF Next

LEMMA TypeStep == TypeOK /\ [Next]_vars => TypeOK'
  <1> SUFFICES ASSUME TypeOK, [Next]_vars PROVE TypeOK'
    OBVIOUS
  <1> USE DEF tableVars, taskVars
  <1>h. HistoryTyped'
    BY HistoryStep
  <1>0. table \in [Keys -> Items \cup {NoItem}] /\ copy \in [Tasks -> Rows \cup {NoItem}]
    BY DEF TypeOK, Items
  <1>1. ASSUME NEW t \in Tasks, NEW k \in Keys, ReceiveUpsert(t, k) PROVE TypeOK'
    <2>1. PICK v \in 1..Len(chain[k]), sendUsed, sendRevoked, sendVersion \in BOOLEAN :
            Receive(t,
              [op |-> "upsert", key |-> k, at |-> now, bounds |-> v,
               used |-> IF sendUsed THEN chain[k][v].used ELSE Left,
               revoked |-> sendRevoked /\ chain[k][v].revoked,
               seen |-> IF sendVersion THEN v ELSE Left])
      BY <1>1 DEF ReceiveUpsert
    <2>2. chain[k][v] \in Snapshots /\ v \in Nat /\ now \in Nat
      BY DEF TypeOK
    <2>3. chain[k][v].used \in Nat /\ chain[k][v].revoked \in BOOLEAN
      BY <2>2 DEF Snapshots
    <2> DEFINE r == [op |-> "upsert", key |-> k, at |-> now, bounds |-> v,
                     used |-> IF sendUsed THEN chain[k][v].used ELSE Left,
                     revoked |-> sendRevoked /\ chain[k][v].revoked,
                     seen |-> IF sendVersion THEN v ELSE Left]
    <2>4. r \in Requests
      BY <2>2, <2>3 DEF Requests
    <2>5. /\ pc' = [pc EXCEPT ![t] = "get"] /\ req' = [req EXCEPT ![t] = r]
          /\ copy' = [copy EXCEPT ![t] = copy[t]]
          /\ UNCHANGED <<table, replica, now, chain>>
      BY <2>1, <1>0 DEF Receive
    <2> HIDE DEF r
    <2> QED BY <2>4, <2>5, <1>0, <1>h, TaskTyped
  <1>2. ASSUME NEW t \in Tasks, NEW k \in Keys, ReceiveRevoke(t, k) PROVE TypeOK'
    <2>1. [op |-> "revoke", key |-> k] \in Requests
      BY DEF Requests
    <2>2. copy' = [copy EXCEPT ![t] = copy[t]]
      BY <1>2, <1>0 DEF ReceiveRevoke, Receive
    <2> QED BY <1>0, <1>2, <2>1, <2>2, <1>h, TaskTyped DEF ReceiveRevoke, Receive
  <1>3. ASSUME NEW t \in Tasks, UpsertGet(t) PROVE TypeOK'
    <2>1. PICK found \in Reads(req[t].key) : IssuePut(t, Mirrored(found, req[t]))
      BY <1>3 DEF UpsertGet
    <2>2. req[t] \in Requests /\ req[t].op = "upsert"
      BY <1>3, BusyTyped DEF UpsertGet
    <2>3. Mirrored(found, req[t]) \in Rows
      BY <1>3, <2>2, BusyTyped, ReadsTyped, MirroredTyped DEF UpsertGet
    <2>4. req' = [req EXCEPT ![t] = req[t]]
      BY <2>1 DEF IssuePut, TypeOK
    <2> QED BY <1>0, <2>1, <2>2, <2>3, <2>4, <1>h, TaskTyped DEF IssuePut
  <1>4. ASSUME NEW t \in Tasks, RevokeGet(t) PROVE TypeOK'
    <2>1. PICK found \in Reads(req[t].key) \ {NoItem} :
            IssuePut(t, [found.val EXCEPT !.revoked = TRUE])
      BY <1>4 DEF RevokeGet
    <2>2. req[t] \in Requests
      BY <1>4, BusyTyped DEF RevokeGet
    <2>3. [found.val EXCEPT !.revoked = TRUE] \in Rows
      BY <1>4, BusyTyped, ReadsTyped DEF RevokeGet, Items, Rows
    <2>4. req' = [req EXCEPT ![t] = req[t]]
      BY <2>1 DEF IssuePut, TypeOK
    <2> QED BY <1>0, <2>1, <2>2, <2>3, <2>4, <1>h, TaskTyped DEF IssuePut
  <1>5. ASSUME NEW t \in Tasks, RevokeMisses(t) \/ Reply(t) \/ AbandonGet(t) \/ LostWrite(t)
        PROVE  TypeOK'
    BY <1>0, <1>5, <1>h, DoneTyped DEF RevokeMisses, Reply, AbandonGet, LostWrite
  <1>6. ASSUME NEW t \in Tasks, Write(t) PROVE TypeOK'
    <2>1. req[t] \in Requests /\ req[t].key \in Keys /\ copy[t] \in Rows
      BY <1>6, BusyTyped DEF Write, TypeOK
    <2>2. req' = [req EXCEPT ![t] = req[t]] /\ copy' = [copy EXCEPT ![t] = copy[t]]
      BY <1>6 DEF Write, TypeOK
    <2> QED BY <1>6, <2>1, <2>2, PutTyped, <1>h, TaskTyped DEF Write
  <1>7. ASSUME NEW t \in Tasks, AbandonPut(t) PROVE TypeOK'
    <2>1. req[t] \in Requests /\ copy[t] \in Rows
      BY <1>7, BusyTyped DEF AbandonPut, TypeOK
    <2>2. /\ req' = [req EXCEPT ![t] = req[t]] /\ copy' = [copy EXCEPT ![t] = copy[t]]
          /\ pc' = [pc EXCEPT ![t] = "orphan"] \/ pc' = [pc EXCEPT ![t] = "echo"]
      BY <1>7 DEF AbandonPut, TypeOK
    <2>3. UNCHANGED <<table, replica, now, chain>>
      BY <1>7 DEF AbandonPut
    <2>4. CASE pc' = [pc EXCEPT ![t] = "orphan"]
      BY <1>0, <2>1, <2>2, <2>3, <2>4, <1>h, TaskTyped
    <2>5. CASE pc' = [pc EXCEPT ![t] = "echo"]
      BY <1>0, <2>1, <2>2, <2>3, <2>5, <1>h, TaskTyped
    <2> QED BY <2>2, <2>4, <2>5
  <1>8. ASSUME NEW t \in Tasks, LateWrite(t) PROVE TypeOK'
    <2>1. req[t].key \in Keys /\ copy[t] \in Rows
      BY <1>8, BusyTyped DEF LateWrite, TypeOK
    <2> QED BY <1>8, <2>1, PutTyped, <1>h, DoneTyped DEF LateWrite
  <1>9. ASSUME NEW k \in Keys, ChainMoves(k) PROVE TypeOK'
    <2> DEFINE last == chain[k][Len(chain[k])]
    <2>1. PICK more \in {0, 1}, revoked \in BOOLEAN :
            chain' = [chain EXCEPT ![k] =
                        Append(@, [used |-> last.used + more, revoked |-> revoked])]
      BY <1>9 DEF ChainMoves
    <2> DEFINE next == [used |-> last.used + more, revoked |-> revoked]
    <2>2. /\ chain[k] \in Seq(Snapshots) \ {<<>>}
          /\ Len(chain[k]) \in 1..Len(chain[k])
      BY DEF TypeOK
    <2>3. last \in Snapshots
      BY <2>2
    <2>4. next \in Snapshots
      BY <2>3 DEF Snapshots
    <2> HIDE DEF next
    <2>5. Append(chain[k], next) \in Seq(Snapshots) \ {<<>>}
      BY <2>2, <2>4
    <2>6. chain' = [chain EXCEPT ![k] = Append(chain[k], next)]
      BY <2>1 DEF next, TypeOK
    <2>7. chain' \in [Keys -> Seq(Snapshots) \ {<<>>}]
      BY <2>5, <2>6 DEF TypeOK
    <2> QED BY <1>9, <2>7 DEF ChainMoves, TypeOK
  <1>10. CASE Tick /\ UNCHANGED <<chain, taskVars>>
    BY <1>10 DEF Tick, TypeOK
  <1>11. ASSUME NEW k \in Keys, Replicate(k), UNCHANGED <<chain, taskVars>> PROVE TypeOK'
    BY <1>11 DEF Replicate, TypeOK
  <1>12. CASE UNCHANGED vars
    BY <1>12 DEF vars, TypeOK
  <1> QED
    BY <1>1, <1>2, <1>3, <1>4, <1>5, <1>6, <1>7, <1>8, <1>9, <1>10, <1>11, <1>12
       DEF Next

-----------------------------------------------------------------------------
(* Mirrors and the chain. *)

\* Spend on chain never falls below that of an earlier version.
LastUsed(k) == chain[k][Len(chain[k])].used
ChainInv == \A k \in Keys : \A v \in 1..Len(chain[k]) : chain[k][v].used <= LastUsed(k)

\* What a row, or an upsert's request, may claim of k's session.
Behind(bounds, used, seen, k) ==
  /\ bounds \in 1..Len(chain[k])
  /\ seen \in {Left, bounds}
  /\ used <= LastUsed(k)

RowBehind(row, k) == Behind(row.bounds, row.used, row.seen, k)

ItemBehind(item, k) == item # NoItem => RowBehind(item.val, k)

TaskBehind(t) ==
  /\ pc[t] # "idle" /\ req[t].op = "upsert" =>
       Behind(req[t].bounds, req[t].used, req[t].seen, req[t].key)
  /\ pc[t] \notin {"idle", "get"} => RowBehind(copy[t], req[t].key)

MirrorInv ==
  /\ ChainInv
  /\ \A k \in Keys : ItemBehind(table[k], k) /\ ItemBehind(replica[k], k)
  /\ \A t \in Tasks : TaskBehind(t)

LEMMA LastTyped ==
  ASSUME TypeOK, NEW k \in Keys
  PROVE  /\ Len(chain[k]) \in Nat \ {0}
         /\ \A v \in 1..Len(chain[k]) : chain[k][v] \in Snapshots /\ chain[k][v].used \in Nat
         /\ LastUsed(k) \in Nat
  <1>1. chain[k] \in Seq(Snapshots) \ {<<>>}
    BY DEF TypeOK
  <1>2. Len(chain[k]) \in Nat \ {0}
    BY <1>1
  <1>3. \A v \in 1..Len(chain[k]) : chain[k][v] \in Snapshots
    BY <1>1
  <1> QED BY <1>2, <1>3 DEF Snapshots, LastUsed

LEMMA MirrorInit == Init => MirrorInv
  <1> SUFFICES ASSUME Init PROVE MirrorInv
    OBVIOUS
  <1>1. ASSUME NEW k \in Keys PROVE Len(chain[k]) = 1 /\ chain[k][1].used = 0
    BY DEF Init
  <1>2. ChainInv
    BY <1>1 DEF ChainInv, LastUsed
  <1> QED BY <1>2 DEF Init, TableInit, MirrorInv, ItemBehind, TaskBehind

\* What an upsert makes of a row behind the chain and a request behind it.
LEMMA MirroredBehind ==
  ASSUME TypeOK, NEW k \in Keys,
         NEW found \in Items \cup {NoItem}, ItemBehind(found, k),
         NEW r \in Requests, r.op = "upsert", Behind(r.bounds, r.used, r.seen, k)
  PROVE  RowBehind(Mirrored(found, r), k)
  BY LastTyped DEF Mirrored, RowBehind, ItemBehind, Behind, Left

LEMMA ReadsBehind ==
  ASSUME MirrorInv, NEW k \in Keys, NEW found \in Reads(k)
  PROVE  ItemBehind(found, k)
  BY DEF MirrorInv, Reads

\* A step that leaves the chain alone, in which at most task t and the item of
\* its user change.
LEMMA MirrorStays ==
  ASSUME MirrorInv, UNCHANGED chain,
         NEW t \in Tasks, TaskBehind(t)',
         \A u \in Tasks \ {t} : pc'[u] = pc[u] /\ req'[u] = req[u] /\ copy'[u] = copy[u],
         \A k \in Keys : ItemBehind(table'[k], k) /\ ItemBehind(replica'[k], k)
  PROVE  MirrorInv'
  BY DEF MirrorInv, ChainInv, LastUsed, ItemBehind, RowBehind, Behind, TaskBehind

LEMMA MirrorStep == TypeOK /\ MirrorInv /\ [Next]_vars => MirrorInv'
  <1> SUFFICES ASSUME TypeOK, MirrorInv, [Next]_vars PROVE MirrorInv'
    OBVIOUS
  <1> USE DEF tableVars, taskVars
  <1>0. \A k \in Keys : ItemBehind(table[k], k) /\ ItemBehind(replica[k], k)
    BY DEF MirrorInv
  <1>1. ASSUME NEW t \in Tasks, NEW k \in Keys, ReceiveUpsert(t, k) PROVE MirrorInv'
    <2>1. PICK v \in 1..Len(chain[k]), sendUsed, sendRevoked, sendVersion \in BOOLEAN :
            Receive(t,
              [op |-> "upsert", key |-> k, at |-> now, bounds |-> v,
               used |-> IF sendUsed THEN chain[k][v].used ELSE Left,
               revoked |-> sendRevoked /\ chain[k][v].revoked,
               seen |-> IF sendVersion THEN v ELSE Left])
      BY <1>1 DEF ReceiveUpsert
    <2>2. chain[k][v].used <= LastUsed(k) /\ Left <= LastUsed(k)
      BY LastTyped DEF MirrorInv, ChainInv, Left
    <2>3. /\ pc'[t] = "get" /\ req'[t].op = "upsert" /\ req'[t].key = k
          /\ Behind(req'[t].bounds, req'[t].used, req'[t].seen, k)
      BY <2>1, <2>2 DEF Receive, Behind, TypeOK
    <2>4. TaskBehind(t)'
      BY <1>1, <2>1, <2>3 DEF TaskBehind, Receive, Behind, LastUsed
    <2> QED BY <1>0, <2>1, <2>4, MirrorStays DEF Receive, TypeOK
  <1>2. ASSUME NEW t \in Tasks, NEW k \in Keys, ReceiveRevoke(t, k) PROVE MirrorInv'
    <2>1. TaskBehind(t)'
      BY <1>2 DEF ReceiveRevoke, Receive, TaskBehind, TypeOK
    <2> QED BY <1>0, <1>2, <2>1, MirrorStays DEF ReceiveRevoke, Receive, TypeOK
  <1>3. ASSUME NEW t \in Tasks, UpsertGet(t) PROVE MirrorInv'
    <2>1. PICK found \in Reads(req[t].key) : IssuePut(t, Mirrored(found, req[t]))
      BY <1>3 DEF UpsertGet
    <2>2. /\ req[t] \in Requests /\ req[t].op = "upsert" /\ req[t].key \in Keys
          /\ Behind(req[t].bounds, req[t].used, req[t].seen, req[t].key)
      BY <1>3, BusyTyped DEF UpsertGet, MirrorInv, TaskBehind
    <2>3. RowBehind(Mirrored(found, req[t]), req[t].key)
      BY <2>2, ReadsTyped, ReadsBehind, MirroredBehind
    <2>4. TaskBehind(t)'
      BY <1>3, <2>1, <2>2, <2>3
         DEF UpsertGet, IssuePut, TaskBehind, RowBehind, Behind, LastUsed, TypeOK
    <2> QED BY <1>0, <2>1, <2>4, MirrorStays DEF IssuePut, TypeOK
  <1>4. ASSUME NEW t \in Tasks, RevokeGet(t) PROVE MirrorInv'
    <2>1. PICK found \in Reads(req[t].key) \ {NoItem} :
            IssuePut(t, [found.val EXCEPT !.revoked = TRUE])
      BY <1>4 DEF RevokeGet
    <2>2. req[t].key \in Keys /\ req[t].op = "revoke"
      BY <1>4, BusyTyped DEF RevokeGet
    <2>3. found.val \in Rows /\ RowBehind(found.val, req[t].key)
      BY <2>2, ReadsTyped, ReadsBehind DEF ItemBehind, Items
    <2>4. RowBehind([found.val EXCEPT !.revoked = TRUE], req[t].key)
      BY <2>3 DEF RowBehind, Rows
    <2>5. TaskBehind(t)'
      BY <2>1, <2>2, <2>4 DEF IssuePut, TaskBehind, RowBehind, Behind, LastUsed, TypeOK
    <2> QED BY <1>0, <2>1, <2>5, MirrorStays DEF IssuePut, TypeOK
  <1>5. ASSUME NEW t \in Tasks, RevokeMisses(t) \/ Reply(t) \/ AbandonGet(t) \/ LostWrite(t)
        PROVE  MirrorInv'
    <2>1. Done(t) /\ UNCHANGED <<table, replica, now, chain>>
      BY <1>5 DEF RevokeMisses, Reply, AbandonGet, LostWrite
    <2>2. TaskBehind(t)'
      BY <2>1 DEF Done, TaskBehind, TypeOK
    <2> QED BY <1>0, <2>1, <2>2, MirrorStays DEF Done, TypeOK
  <1>6. ASSUME NEW t \in Tasks, Write(t) \/ LateWrite(t) PROVE MirrorInv'
    <2> DEFINE k == req[t].key
    <2>1. k \in Keys /\ RowBehind(copy[t], k)
      BY <1>6, BusyTyped DEF Write, LateWrite, MirrorInv, TaskBehind
    <2>2. /\ table' = [table EXCEPT ![k] = [val |-> copy[t], ttl |-> NoTtl]]
          /\ UNCHANGED <<replica, now, chain>>
      BY <1>6 DEF Write, LateWrite, PutItem
    <2>3. \A j \in Keys : ItemBehind(table'[j], j) /\ ItemBehind(replica'[j], j)
      BY <1>0, <2>1, <2>2 DEF ItemBehind, TypeOK
    <2>4. TaskBehind(t)
      BY DEF MirrorInv
    <2>5. TaskBehind(t)'
      BY <1>6, <2>2, <2>4
         DEF Write, LateWrite, Done, TaskBehind, RowBehind, Behind, LastUsed, TypeOK
    <2> QED BY <1>6, <2>2, <2>3, <2>5, MirrorStays DEF Write, LateWrite, Done, TypeOK
  <1>7. ASSUME NEW t \in Tasks, AbandonPut(t) PROVE MirrorInv'
    <2>1. TaskBehind(t)
      BY DEF MirrorInv
    <2>2. TaskBehind(t)'
      BY <1>7, <2>1 DEF AbandonPut, TaskBehind, RowBehind, Behind, LastUsed, TypeOK
    <2> QED BY <1>0, <1>7, <2>2, MirrorStays DEF AbandonPut, TypeOK
  <1>8. ASSUME NEW k \in Keys, ChainMoves(k) PROVE MirrorInv'
    <2> DEFINE last == chain[k][Len(chain[k])]
    <2>1. PICK more \in {0, 1}, revoked \in BOOLEAN :
            chain' = [chain EXCEPT ![k] =
                        Append(@, [used |-> last.used + more, revoked |-> revoked])]
      BY <1>8 DEF ChainMoves
    <2>2. \A j \in Keys :
            /\ Len(chain[j]) <= Len(chain'[j])
            /\ LastUsed(j) \in Nat /\ LastUsed(j)' \in Nat /\ LastUsed(j) <= LastUsed(j)'
            /\ \A v \in 1..Len(chain'[j]) : chain'[j][v].used <= LastUsed(j)'
      <3> SUFFICES ASSUME NEW j \in Keys
                   PROVE  /\ Len(chain[j]) <= Len(chain'[j])
                          /\ LastUsed(j) \in Nat /\ LastUsed(j)' \in Nat
                          /\ LastUsed(j) <= LastUsed(j)'
                          /\ \A v \in 1..Len(chain'[j]) : chain'[j][v].used <= LastUsed(j)'
        OBVIOUS
      <3>1. /\ Len(chain[j]) \in Nat \ {0} /\ LastUsed(j) \in Nat
            /\ \A v \in 1..Len(chain[j]) :
                 chain[j][v].used \in Nat /\ chain[j][v].used <= LastUsed(j)
        BY LastTyped DEF MirrorInv, ChainInv
      <3>2. CASE j = k
        <4> DEFINE next == [used |-> last.used + more, revoked |-> revoked]
        <4>1. chain'[k] = Append(chain[k], next) /\ chain[k] \in Seq(Snapshots)
          BY <2>1 DEF TypeOK
        <4>2. next.used = LastUsed(j) + more
          BY <3>2 DEF LastUsed
        <4> HIDE DEF next, last
        <4>3. /\ Len(chain'[k]) = Len(chain[k]) + 1
              /\ chain'[k][Len(chain[k]) + 1] = next
              /\ \A v \in 1..Len(chain[k]) : chain'[k][v] = chain[k][v]
          BY <4>1
        <4>4. LastUsed(j)' = LastUsed(j) + more
          BY <3>2, <4>2, <4>3 DEF LastUsed
        <4>5. ASSUME NEW v \in 1..Len(chain'[j]) PROVE chain'[j][v].used <= LastUsed(j)'
          <5>1. CASE v = Len(chain[j]) + 1
            BY <3>1, <3>2, <4>2, <4>3, <4>4, <5>1
          <5>2. CASE v # Len(chain[j]) + 1
            BY <3>1, <3>2, <4>3, <4>4, <5>2
          <5> QED BY <5>1, <5>2
        <4> QED BY <3>1, <3>2, <4>3, <4>4, <4>5
      <3>3. CASE j # k
        <4>1. chain'[j] = chain[j]
          BY <2>1, <3>3 DEF TypeOK
        <4> QED BY <3>1, <4>1 DEF LastUsed
      <3> QED BY <3>2, <3>3
    <2>3. ASSUME NEW j \in Keys, NEW b \in Nat, NEW u \in Nat \cup {Left}, NEW s, Behind(b, u, s, j)
          PROVE  Behind(b, u, s, j)'
      <3>1. Len(chain[j]) \in Nat /\ Len(chain'[j]) \in Nat
        BY LastTyped, TypeStep DEF TypeOK
      <3> QED BY <2>2, <2>3, <3>1 DEF Behind, Left
    <2>4. ASSUME NEW j \in Keys, NEW row \in Rows, RowBehind(row, j)
          PROVE  RowBehind(row, j)'
      BY <2>3, <2>4 DEF RowBehind, Rows
    <2>5. UNCHANGED <<table, replica, now, pc, req, copy>>
      BY <1>8 DEF ChainMoves
    <2>6. \A j \in Keys : ItemBehind(table[j], j)' /\ ItemBehind(replica[j], j)'
      BY <1>0, <2>4, <2>5 DEF ItemBehind, TypeOK
    <2>7. ASSUME NEW t \in Tasks PROVE TaskBehind(t)'
      <3>1. TaskBehind(t)
        BY DEF MirrorInv
      <3>2. pc[t] # "idle" => req[t] \in Requests /\ req[t].key \in Keys
        BY BusyTyped
      <3>3. pc[t] # "idle" /\ req[t].op = "upsert" =>
              req[t].bounds \in Nat /\ req[t].used \in Nat \cup {Left}
        BY <3>2 DEF Requests
      <3>4. pc[t] \notin {"idle", "get"} => copy[t] \in Rows
        BY DEF TypeOK
      <3> QED BY <2>3, <2>4, <2>5, <3>1, <3>2, <3>3, <3>4 DEF TaskBehind
    <2>8. ChainInv'
      BY <2>2 DEF ChainInv
    <2> QED BY <2>6, <2>7, <2>8 DEF MirrorInv
  <1>9. ASSUME NEW k \in Keys, Replicate(k), UNCHANGED <<chain, taskVars>> PROVE MirrorInv'
    BY <1>9 DEF Replicate, MirrorInv, ChainInv, ItemBehind, RowBehind, Behind, LastUsed,
                TaskBehind, TypeOK
  <1>10. CASE (Tick /\ UNCHANGED <<chain, taskVars>>) \/ UNCHANGED vars
    BY <1>10 DEF Tick, vars, MirrorInv, ChainInv, ItemBehind, RowBehind, Behind, LastUsed,
                 TaskBehind
  <1> QED
    BY <1>1, <1>2, <1>3, <1>4, <1>5, <1>6, <1>7, <1>8, <1>9, <1>10 DEF Next

LEMMA MirrorHolds == Spec => [](TypeOK /\ MirrorInv)
  BY TypeInit, TypeStep, MirrorInit, MirrorStep, PTL DEF Spec

\* Every row and every request of the mirror is well formed, and the chain has a
\* last version, under any overlap, staleness and failure.
THEOREM PolyTypeCorrect == Spec => []TypeOK
  BY MirrorHolds, PTL

\* Whatever mirrors overlap, are read stale, come late or leave out: a row
\* stored, replicated or in a handler's hands is behind the chain.
THEOREM MirrorsNeverAhead == Spec => []NeverAheadOfChain
  <1>1. TypeOK /\ MirrorInv => NeverAheadOfChain
    <2> SUFFICES ASSUME MirrorInv, NEW k \in Keys, NEW row \in RowsOf(k)
                 PROVE  RowBehind(row, k)
      BY DEF NeverAheadOfChain, RowBehind, Behind, LastUsed
    <2>1. CASE \E item \in {table[k], replica[k]} \ {NoItem} : row = item.val
      BY <2>1 DEF MirrorInv, ItemBehind
    <2>2. CASE \E t \in Busy(k) : pc[t] # "get" /\ row = copy[t]
      BY <2>2 DEF MirrorInv, TaskBehind, Busy
    <2> QED BY <2>1, <2>2 DEF RowsOf
  <1> QED BY <1>1, MirrorHolds, PTL

-----------------------------------------------------------------------------
(* One request of a user at a time, and consistent reads. *)

\* One request per user that none has overtaken.
OnePerKey ==
  \A t, u \in Tasks \ overtaken :
    pc[t] # "idle" /\ pc[u] # "idle" /\ req[t].key = req[u].key => t = u

\* A row to be put is its request's own change of the row stored, and a row
\* that was put is the row stored.
Follows(p, r, row, item) ==
  /\ p \in {"put", "orphan"} =>
       /\ r.op = "upsert" => row = Mirrored(item, r)
       /\ r.op = "revoke" => item # NoItem /\ row = [item.val EXCEPT !.revoked = TRUE]
  /\ p \in {"wrote", "echo"} => item # NoItem /\ item.val = row

SerialInv ==
  /\ OnePerKey
  /\ \A t \in Tasks \ overtaken :
       pc[t] # "idle" /\ req[t].key \notin late =>
         Follows(pc[t], req[t], copy[t], table[req[t].key])

LEMMA SerialInit == Init => SerialInv
  BY DEF Init, SerialInv, OnePerKey

OthersStay(t) ==
  \A u \in Tasks \ {t} : /\ pc'[u] = pc[u] /\ req'[u] = req[u] /\ copy'[u] = copy[u]
                         /\ u \in overtaken' <=> u \in overtaken

\* Task t ends or goes on with its request; at most its user's row changes.  An
\* overtaken one ends, and is lost or marks its user.
LEMMA SerialTask ==
  ASSUME SerialInv, NEW t \in Tasks, pc[t] # "idle",
         OthersStay(t),
         late' = late \/ (t \in overtaken /\ late' = late \cup {req[t].key}),
         table' = table \/ t \notin overtaken \/ req[t].key \in late',
         \A u \in Tasks \ {t} :
           pc[u] # "idle" /\ req[u].key # req[t].key => table'[req[u].key] = table[req[u].key],
         pc'[t] # "idle" =>
           /\ t \notin overtaken
           /\ req'[t] = req[t]
           /\ req[t].key \notin late => Follows(pc'[t], req[t], copy'[t], table'[req[t].key])
  PROVE  SerialInv'
  <1>1. OnePerKey'
    BY DEF SerialInv, OnePerKey, OthersStay
  <1>2. ASSUME NEW u \in Tasks \ {t}, pc[u] # "idle", u \notin overtaken, req[u].key \notin late'
        PROVE  table'[req[u].key] = table[req[u].key]
    <2>1. CASE req[u].key # req[t].key
      BY <1>2, <2>1
    <2>2. CASE req[u].key = req[t].key
      <3>1. t \in overtaken
        BY <1>2, <2>2 DEF SerialInv, OnePerKey
      <3> QED BY <1>2, <2>2, <3>1
    <2> QED BY <2>1, <2>2
  <1>3. ASSUME NEW u \in Tasks \ overtaken', pc'[u] # "idle", req'[u].key \notin late'
        PROVE  Follows(pc'[u], req'[u], copy'[u], table'[req'[u].key])
    <2>1. CASE u = t
      BY <1>3, <2>1
    <2>2. CASE u # t
      BY <1>2, <1>3, <2>2 DEF SerialInv, OthersStay
    <2> QED BY <2>1, <2>2
  <1> QED BY <1>1, <1>3 DEF SerialInv

LEMMA SerialStep ==
  ASSUME ~Overlap, ConsistentReads, TypeOK, SerialInv, [Next]_vars PROVE SerialInv'
  <1> USE DEF tableVars, taskVars
  <1>0. ASSUME NEW t \in Tasks, NEW r, Receive(t, r) PROVE SerialInv'
    <2>1. /\ pc[t] = "idle" /\ pc' = [pc EXCEPT ![t] = "get"]
          /\ req' = [req EXCEPT ![t] = r] /\ UNCHANGED <<copy, table>>
          /\ overtaken' = overtaken \cup Busy(r.key)
          /\ late' = late \ {r.key}
      BY <1>0 DEF Receive, Leftovers, Busy
    <2>2. \A u \in Tasks \ overtaken' :
            /\ u \notin overtaken
            /\ u # t /\ pc[u] # "idle" => req[u].key # r.key
      BY <2>1 DEF Busy
    <2>3. OnePerKey'
      BY <2>1, <2>2 DEF SerialInv, OnePerKey, TypeOK
    <2>4. ASSUME NEW u \in Tasks \ overtaken', pc'[u] # "idle", req'[u].key \notin late'
          PROVE  Follows(pc'[u], req'[u], copy'[u], table'[req'[u].key])
      <3>1. CASE u = t
        BY <2>1, <3>1 DEF Follows, TypeOK
      <3>2. CASE u # t
        BY <2>1, <2>2, <2>4, <3>2 DEF SerialInv, TypeOK
      <3> QED BY <3>1, <3>2
    <2> QED BY <2>3, <2>4 DEF SerialInv
  <1>1. ASSUME NEW t \in Tasks, NEW k \in Keys, ReceiveUpsert(t, k) \/ ReceiveRevoke(t, k)
        PROVE  SerialInv'
    BY <1>0, <1>1 DEF ReceiveUpsert, ReceiveRevoke
  <1>2. ASSUME NEW t \in Tasks, UpsertGet(t) \/ RevokeGet(t) PROVE SerialInv'
    <2>1. Reads(req[t].key) = {table[req[t].key]}
      BY DEF Reads
    <2>2. /\ pc[t] = "get" /\ req[t] \in Requests
          /\ pc' = [pc EXCEPT ![t] = "put"] /\ UNCHANGED <<table, req, overtaken, late>>
      BY <1>2, BusyTyped DEF UpsertGet, RevokeGet, IssuePut
    <2>3. Follows("put", req[t], copy'[t], table[req[t].key])
      <3>1. CASE UpsertGet(t)
        <4>1. req[t].op = "upsert" /\ copy'[t] = Mirrored(table[req[t].key], req[t])
          BY <3>1, <2>1 DEF UpsertGet, IssuePut, TypeOK
        <4> QED BY <4>1 DEF Follows
      <3>2. CASE RevokeGet(t)
        <4>1. /\ req[t].op = "revoke" /\ table[req[t].key] # NoItem
              /\ copy'[t] = [table[req[t].key].val EXCEPT !.revoked = TRUE]
          <5>1. PICK found \in Reads(req[t].key) \ {NoItem} :
                  IssuePut(t, [found.val EXCEPT !.revoked = TRUE])
            BY <3>2 DEF RevokeGet
          <5>2. found = table[req[t].key] /\ found # NoItem /\ req[t].op = "revoke"
            BY <3>2, <2>1, <5>1 DEF RevokeGet
          <5>3. copy'[t] = [found.val EXCEPT !.revoked = TRUE]
            BY <5>1 DEF IssuePut, TypeOK
          <5> QED BY <5>2, <5>3
        <4> QED BY <4>1 DEF Follows
      <3> QED BY <1>2, <3>1, <3>2
    <2>4. \A u \in Tasks \ {t} : copy'[u] = copy[u]
      BY <1>2 DEF UpsertGet, RevokeGet, IssuePut, TypeOK
    <2>5. OthersStay(t) /\ t \notin overtaken /\ pc'[t] = "put"
      BY <2>2, <2>4 DEF OthersStay, TypeOK
    <2> QED BY <2>2, <2>3, <2>5, SerialTask
  <1>3. ASSUME NEW t \in Tasks, RevokeMisses(t) \/ Reply(t) \/ AbandonGet(t) \/ LostWrite(t)
        PROVE  SerialInv'
    <2>1. pc[t] # "idle" /\ Done(t) /\ UNCHANGED <<table, late>>
      BY <1>3 DEF RevokeMisses, Reply, AbandonGet, LostWrite
    <2>2. OthersStay(t) /\ pc'[t] = "idle"
      BY <2>1 DEF Done, TypeOK, OthersStay
    <2> QED BY <2>1, <2>2, SerialTask
  <1>4. ASSUME NEW t \in Tasks, Write(t) PROVE SerialInv'
    <2> DEFINE k == req[t].key
    <2>1. /\ pc[t] # "idle" /\ k \in Keys /\ pc' = [pc EXCEPT ![t] = "wrote"]
          /\ table' = [table EXCEPT ![k] = [val |-> copy[t], ttl |-> NoTtl]]
          /\ pc[t] \in {"put", "wrote"}
          /\ UNCHANGED <<req, copy, overtaken, late>>
      BY <1>4, BusyTyped DEF Write, PutItem
    <2>2. [val |-> copy[t], ttl |-> NoTtl] \in Items
      BY <1>4 DEF Write, TypeOK, Items
    <2>3. table'[k].val = copy[t] /\ table'[k] # NoItem
      BY <2>1, <2>2, NoItemApart DEF TypeOK
    <2>4. Follows("wrote", req[t], copy[t], table'[k])
      BY <2>3 DEF Follows
    <2>5. \A u \in Tasks : pc[u] # "idle" /\ req[u].key # k => table'[req[u].key] = table[req[u].key]
      BY <2>1, BusyTyped DEF TypeOK
    <2>6. OthersStay(t) /\ t \notin overtaken /\ pc'[t] = "wrote"
      BY <2>1 DEF OthersStay, TypeOK
    <2> QED BY <2>1, <2>4, <2>5, <2>6, SerialTask
  <1>5. ASSUME NEW t \in Tasks, AbandonPut(t) PROVE SerialInv'
    <2>1. /\ pc[t] # "idle" /\ UNCHANGED <<table, req, copy, overtaken, late>>
          /\ pc' = [pc EXCEPT ![t] = IF pc[t] = "put" THEN "orphan" ELSE "echo"]
          /\ pc[t] \in {"put", "wrote"}
      BY <1>5 DEF AbandonPut, TypeOK
    <2>2. OthersStay(t) /\ t \notin overtaken
      BY <2>1 DEF OthersStay, TypeOK
    <2>3. req[t].key \notin late => Follows(pc[t], req[t], copy[t], table[req[t].key])
      BY <2>1, <2>2 DEF SerialInv
    <2>4. req[t].key \notin late => Follows(pc'[t], req[t], copy[t], table[req[t].key])
      BY <2>1, <2>3 DEF Follows, TypeOK
    <2> QED BY <2>1, <2>2, <2>4, SerialTask
  <1>6. ASSUME NEW t \in Tasks, LateWrite(t) PROVE SerialInv'
    <2>1. pc[t] # "idle" /\ table' = [table EXCEPT ![req[t].key] = [val |-> copy[t], ttl |-> NoTtl]]
      BY <1>6 DEF LateWrite, PutItem
    <2>2. \A u \in Tasks :
            pc[u] # "idle" /\ req[u].key # req[t].key => table'[req[u].key] = table[req[u].key]
      BY <2>1, BusyTyped DEF TypeOK
    <2>3. /\ OthersStay(t) /\ pc'[t] = "idle"
          /\ late' = IF t \in overtaken THEN late \cup {req[t].key} ELSE late
      BY <1>6 DEF LateWrite, Done, TypeOK, OthersStay
    <2> QED BY <2>1, <2>2, <2>3, SerialTask
  <1>7. CASE \/ \E k \in Keys : ChainMoves(k)
             \/ (Tick \/ \E k \in Keys : Replicate(k)) /\ UNCHANGED <<chain, taskVars>>
             \/ UNCHANGED vars
    BY <1>7 DEF ChainMoves, Tick, Replicate, vars, SerialInv, OnePerKey
  <1> QED BY <1>1, <1>2, <1>3, <1>4, <1>5, <1>6, <1>7 DEF Next

\* What UpsertPreserves says of a row and the row before it.
Preserved(k) ==
  k \notin late' /\ NoItem \notin {table[k], table'[k]} =>
    LET old == table[k].val
        new == table'[k].val
        Upserts == {t \in Busy(k) : req[t].op = "upsert" /\ (Write(t) \/ LateWrite(t))}
    IN /\ new.created = old.created
       /\ new.used # old.used => \E t \in Upserts : new.used = req[t].used
       /\ old.revoked /\ ~new.revoked => Upserts # {}

LEMMA PutPreserves ==
  ASSUME TypeOK, SerialInv, NEW t \in Tasks, Write(t) \/ LateWrite(t), NEW k \in Keys
  PROVE  Preserved(k)
  <1> DEFINE old == table[k].val
             new == table'[k].val
  <1>1. /\ table' = [table EXCEPT ![req[t].key] = [val |-> copy[t], ttl |-> NoTtl]]
        /\ pc[t] \in {"put", "wrote", "orphan", "echo"} /\ copy[t] \in Rows
        /\ req[t] \in Requests /\ req[t].key \in Keys
    BY BusyTyped DEF Write, LateWrite, PutItem, TypeOK
  <1>2. CASE k # req[t].key \/ table[k] = NoItem \/ k \in late'
    BY <1>1, <1>2 DEF Preserved, TypeOK
  <1>3. CASE k = req[t].key /\ table[k] # NoItem /\ k \notin late'
    <2>0. t \notin overtaken /\ k \notin late
      BY <1>3 DEF Write, LateWrite, TypeOK
    <2>1. new = copy[t] /\ old \in Rows /\ Follows(pc[t], req[t], copy[t], table[k])
      BY <1>1, <1>3, <2>0 DEF SerialInv, TypeOK
    <2>2. new # old => pc[t] \in {"put", "orphan"}
      BY <1>1, <2>1 DEF Follows
    <2>3. CASE new # old /\ req[t].op = "upsert"
      <3>1. new = Mirrored(table[k], req[t])
        BY <2>1, <2>2, <2>3 DEF Follows
      <3>2. new.created = old.created /\ new.used \in {old.used, req[t].used}
        BY <1>3, <3>1 DEF Mirrored
      <3>3. t \in {u \in Busy(k) : req[u].op = "upsert" /\ (Write(u) \/ LateWrite(u))}
        BY <1>1, <1>3, <2>3 DEF Busy
      <3> QED BY <3>2, <3>3 DEF Preserved
    <2>4. CASE new # old /\ req[t].op = "revoke"
      <3>1. new = [old EXCEPT !.revoked = TRUE]
        BY <2>1, <2>2, <2>4 DEF Follows
      <3>2. new.created = old.created /\ new.used = old.used /\ new.revoked
        BY <2>1, <3>1 DEF Rows
      <3> QED BY <3>2 DEF Preserved
    <2>5. CASE new = old
      BY <2>5 DEF Preserved
    <2> QED BY <1>1, <2>3, <2>4, <2>5 DEF Requests
  <1> QED BY <1>2, <1>3

\* With consistent reads, and users that wait for each answer or give up before
\* they send the next request, an upsert keeps the creation time and the spend
\* it was not given, and a revoke keeps both: whatever fails, repeats or lands
\* late, from a user's latest request until a put it overtook lands.
THEOREM SerialUpsertPreserves ==
  ASSUME ~Overlap, ConsistentReads PROVE Spec => UpsertPreserves
  <1>1. TypeOK /\ SerialInv /\ [Next]_vars => SerialInv'
    BY SerialStep
  <1>2. TypeOK /\ SerialInv /\ [Next]_vars => [\A k \in Keys : Preserved(k)]_vars
    <2> SUFFICES ASSUME TypeOK, SerialInv, Next, NEW k \in Keys PROVE Preserved(k)
      BY DEF Next
    <2>1. ASSUME NEW t \in Tasks, Write(t) \/ LateWrite(t) PROVE Preserved(k)
      BY <2>1, PutPreserves
    <2>2. CASE table' = table
      BY <2>2 DEF Preserved
    <2>3. table' = table \/ \E t \in Tasks : Write(t) \/ LateWrite(t)
      BY DEF Next, tableVars, ReceiveUpsert, ReceiveRevoke, Receive, UpsertGet, RevokeGet, IssuePut,
             RevokeMisses, Reply, AbandonGet, AbandonPut, LostWrite, ChainMoves, Tick, Replicate
    <2> QED BY <2>1, <2>2, <2>3
  <1>3. Spec => [](TypeOK /\ SerialInv)
    BY <1>1, TypeInit, TypeStep, SerialInit, PTL DEF Spec
  <1>4. Spec => [][\A k \in Keys : Preserved(k)]_vars
    BY <1>2, <1>3, PTL DEF Spec
  <1> QED BY <1>4 DEF UpsertPreserves, Preserved
=============================================================================
