---------------------------- MODULE SessionTable ----------------------------
(***************************************************************************)
(* The DynamoDB table the enclave keeps its session rows in, as            *)
(* storage/src/ddb.rs and session_store.rs use it.                         *)
(*                                                                         *)
(* A put replaces the whole item; there is no conditional write.  A get    *)
(* does not ask for a consistent read, so it may be answered by a replica  *)
(* that has not seen the latest puts.  An item written with an expires_at  *)
(* attribute is removed by the table's time-to-live reaper some time after *)
(* that instant.  Sealing (AES-GCM under the enclave's key, the item's key *)
(* as associated data) is abstracted: no code moves a blob from one key to *)
(* another, so a get under a key returns what was put under it.            *)
(***************************************************************************)
EXTENDS Integers

CONSTANTS
  Keys,            \* the item keys a run uses
  NoItem,          \* "no such item"
  NoTtl,           \* an item put without expires_at
  ConsistentReads, \* TRUE: every get sees the latest put
  StartTime,       \* unix time when the table is empty
  MaxTime          \* bound on the clock

ASSUME TableAssumption ==
  /\ ConsistentReads \in BOOLEAN
  /\ StartTime \in Nat /\ MaxTime \in Nat
  /\ NoTtl \notin Int

VARIABLES
  table,    \* table[k]: the item at the table's leader, or NoItem
  replica,  \* replica[k]: the item as a lagging replica has it
  now       \* unix time in seconds, up to MaxTime

tableVars == <<table, replica, now>>

TableInit ==
  /\ table = [k \in Keys |-> NoItem]
  /\ replica = [k \in Keys |-> NoItem]
  /\ now = StartTime

\* The items a get of k may return.
Reads(k) == {table[k]} \cup (IF ConsistentReads THEN {} ELSE {replica[k]})

\* put_item: the whole item is replaced, whatever was there.
PutItem(k, val, ttl) == table' = [table EXCEPT ![k] = [val |-> val, ttl |-> ttl]]

\* delete_item: idempotent.
DeleteItem(k) == table' = [table EXCEPT ![k] = NoItem]

\* A replica catches up on one key.
Replicate(k) ==
  /\ ~ConsistentReads
  /\ replica' = [replica EXCEPT ![k] = table[k]]
  /\ UNCHANGED <<table, now>>

\* The reaper removes an item whose expires_at has passed.
Reap(k) ==
  /\ table[k] # NoItem
  /\ table[k].ttl # NoTtl
  /\ table[k].ttl < now
  /\ DeleteItem(k)
  /\ UNCHANGED <<replica, now>>

Tick ==
  /\ now < MaxTime
  /\ now' = now + 1
  /\ UNCHANGED <<table, replica>>
=============================================================================
