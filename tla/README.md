# A TLA+ model of polylayer-tee

`polylayer-tee` is a signing service in an AWS Nitro enclave. It derives every
key from one master mnemonic, takes HTTP requests over vsock, and signs what a
user's intent, or a session the user registered, allows. The only state that
outlives a request is outside the enclave: a sealed mnemonic in S3 and a
DynamoDB table of sealed session rows.

This directory models the program, checks the models with TLC and proves
theorems about them with TLAPS. Paths below are relative to `src/crates/`.

The stateful half (sessions, boot, bridges, credentials) is modelled as
concurrent processes that fail; the stateless half (what a request must show
before a key is used, and what the key then signs) as functions checked against
reference definitions.

## The system

### Components, their state and operations

| Component | State it keeps | Operations | Correct when |
|---|---|---|---|
| Jupiter sessions (`server/src/routes/jupiter_session.rs`) and trades (`sign_jupiter_tx.rs`) | one row per user: terms, spend, revoked flag | upsert, revoke, get, delegate, sign | a trade is signed only within the terms a user registered; it is debited before it is signed; the spend is never lost; a revoked session signs nothing |
| Session table (`storage/src/ddb.rs`, `session_store.rs`, `session_crypto.rs`) | sealed items by key, each with an optional time to live | put, get, delete | a get returns what was put under that key |
| Hyperliquid and generic sessions (`hl_session.rs`, `generic_session.rs`) | a row per session id, an index row per user | create, revoke, get, list | a revoked session stays revoked; a user's list shows the user's sessions and no others |
| Polyleverage sessions (`polyleverage_session.rs`) | one row per user mirroring an on-chain session | upsert, revoke, get, delegate | the mirror keeps what an upsert leaves out and never runs ahead of the chain |
| Bootstrap (`storage/src/bootstrap.rs`, `kms.rs`, `s3.rs`) | the sealed mnemonic in S3 | load or create | every enclave that serves uses the mnemonic that later boots will load |
| Credentials (`storage/src/vsock_creds.rs`) | credentials with an expiry, the admin token | refresh | a working parent implies usable credentials |
| Bridges (`storage/src/vsock_transport.rs`), listener (`server/src/main.rs`) | a task per port, a task per connection | accept, forward | they accept for as long as the enclave serves |
| Gate (`server/src/auth.rs`, `core/src/intents.rs`, `canonical.rs`, sign routes) | none | authenticate, verify an intent, sign | each route checks what its key's authority requires before it signs |
| EVM intents (`sign_evm_tx.rs`, `core/src/evm/`) | none | validate calldata against an intent | what is signed does what the intent says and no more |
| Perpetuals decoder (`core/src/jupiter/decode.rs`) | none | decode | exactly one trade per transaction, with its own size and custody |
| Derivation, attestations (`core/src/derive.rs`, `solana_attestor/`) | the master secret in memory | derive, attest | no two purposes share a key or a message layout |
| CMS envelope (`storage/src/cms_envelope.rs`, `ber_to_der.rs`) | none | convert, decrypt | the DER form holds the same values |

### How they interact

`main` boots storage (bridges, credentials, mnemonic), derives the keys and the
table's data key, then accepts. Each connection is a tokio task that runs its
handlers to the end or until the client leaves. Handlers share the table and
nothing else: there is no lock, and every session route is *get, change, put of
the whole row*, with an await at each call to the table. Every call goes through
a bridge to the parent, so it can fail or be cut off at any of those awaits.

### What is hard

- Two requests for one user interleave at their awaits; the table offers
  conditional writes and the code uses none.
- A get is eventually consistent.
- A request is dropped or fails between its put and its signature; a put lands
  late, even after its user's next requests, again, or never.
- The table removes an expired row, with the spend it recorded.
- Two users may use one session id; a create makes two puts.
- Enclaves boot, crash and restart against one S3 object.
- Bridges, listener and credentials have to outlive outages of the parent.
- Signed amounts pass through three parsers and two units; calldata is compared
  by position; offsets in it are the sender's.

`PROJECT.json` lists these hazards one by one, at their lines, with the
properties that would catch them.

## The modules

| Module | What it is |
|---|---|
| `SessionTable` | the table: leader, lagging replica, reaper, clock |
| `SpendLimit` | abstract: the budget a session promises its user, and when the promise is void |
| `JupiterSession` | the Jupiter routes over the table, and their properties |
| `JupiterRefinement` | the mapping of `JupiterSession` to `SpendLimit` |
| `IntentSessions` | Hyperliquid and generic sessions over the table |
| `PolyleverageSession` | the mirror of an on-chain session over the table |
| `MasterSecret` | abstract: one secret, chosen once, that whoever serves holds |
| `Bootstrap` | enclaves that boot, crash and restart over S3 and KMS |
| `EnclaveRun` | listener, bridges, credentials and calls of a running enclave |
| `Positional` | numbers by their digits, as recursive functions |
| `Amounts`, `ByteCodec` | the parsers of amounts; numbers as bytes |
| `EvmIntents` | the EVM transaction route, its decoders and validators |
| `PerpsDecode` | the perpetuals decoder and the checks of a Jupiter transaction |
| `IntentGate` | the signed text of an intent and the check of its signature |
| `SigningDomains` | derived keys, and the digests each is used on |
| `BerToDer` | the rewriting of a KMS reply, and the envelope in it |
| `SigningRoutes` | the stateless half as one service of requests and replies |
| `MC...` | constants for TLC |
| `JupiterProofs` | theorems about Jupiter sessions, for any overlap and for one request at a time, and the refinement |
| `IntentSessionsProofs`, `PolyleverageProofs` | theorems about the other session routes |
| `BootstrapProofs`, `EnclaveRunProofs` | theorems about the boot and the run of enclaves |
| `EncodingProofs` | lemmas: induction, powers, digits, bytes, amounts; the decoder against the encoder, keys, digests, attestations |
| `NestedProofs` | lemmas: what a signed text says of the value it was written from; what the rewriting makes of each encoding of a value, that it ends on any bytes, and that the DER of two values differs; two theorems about it |
| `SigningRoutesProofs` | theorems about the stateless half |

### SessionTable

`table[k]` is the item at the leader, `replica[k]` what a lagging replica
answers. `Reads(k)` is what a get may return: both, or the leader's only when
`ConsistentReads`. `PutItem` replaces the item, `Reap` removes one whose
`expires_at` has passed, at any later time. Sealing uses the key as associated
data, so an item is what was put under its key; a blob that does not open is an
error of the get, and so an abandoned request.

Replication, the reaper and the clock are not in the repository; they are
marked external and modelled after how the code depends on them.

### JupiterSession

| Model | Code |
|---|---|
| `Session` | `JupiterSession` without the fields nothing compares (public keys, surface) |
| `Terms` | the amounts, assets and expiry of `UpsertBody` |
| an amount of `-1` | a decimal string that does not parse |
| `WithinBounds`, `Debited` | `check_session_bounds` and the debit |
| `Registered`, `Revoked` | the rows `session_upsert` and `session_revoke` put |
| `pc[t]`, `req[t]`, `copy[t]` | a request task: the await it is at, its request with the clock it sampled, the row its put carries |
| `spent[k]`, `granted[k]` | history: sizes signed under k's row since it was created, terms ever requested |
| `overtaken`, `late` | history: puts left behind that a later request of their user overtook; users on whose row one has landed since it was last reaped |

A handler is split at its awaits and nowhere else:

    idle --Receive--> get --UpsertGet, RevokeGet, SignDebits--> put
         --Write--> wrote --Reply, Release, SignFails--> idle

`get` ends early when a revoke finds no row, when a trade does not fit
(`SignRejected`) and when there is no session, where the code signs on the
intent alone (`SignInteractive`). `SignFails` is the delegate missing from the
transaction's signers, found only after the debit is stored. In `wrote` the put
has landed and its caller does not know yet; `Write` may happen again there,
which is a retry inside the client library.

`AbandonGet` and `AbandonPut` end a handler at an await: a store error, a client
that left, a crash of the enclave (a crash is all of them at once, and nothing
but the tasks is lost, so the steps of one task cover it). An abandoned put is
an `orphan` if it has not landed and an `echo` if it has; `LateWrite` lets it
land, `LostWrite` does not. Both are *leftovers*: a slot that holds one waits for
nothing, and nothing waits for it. `main.rs:166-179` serves any connection at
once, so the user's next requests may come and go before a leftover lands. When a
request comes, the leftovers of its user are `overtaken`, and when one of those
lands the user is in `late`.

A `Sign` request is one that passed the checks which read no session: the
intent's signature and expiry (`IntentGate`), exactly one perpetuals
instruction, the same asset in transaction and intent (`PerpsDecode`).
`signable` is whether the delegate is among the transaction's signers. The run
of the service without a table (local development) is not modelled.

`Overlap = FALSE` is a user who sends a request only after the answer to the last,
or after giving it up, and a row that is not reaped while a request for it is in
hand. It says nothing of leftovers, which stay on their way as they do under
`Overlap = TRUE`. Nothing in the enclave enforces it; it is an assumption about
clients, stated so that it is visible. A comment
(`sign_jupiter_tx.rs:137-140`) accepts one consequence of overlap, a cap passed
by concurrent trades.

Even under that assumption an overtaken put does damage: an upsert's restores the
spend from before a debit (finding 1), a sign's restores terms and lifts a
revocation, a revoke's undoes a registration. What the serial properties say is
therefore that this is all that does: they hold of every user who is not in
`late`, and so through every failure, retry and late put until an overtaken one
lands.

### SpendLimit and the refinement

`SpendLimit` has no tasks, no table and no failures: registering, revoking,
charging and signing are single steps. `JupiterRefinement` maps the stored row
to the budget, and a trade to *pending* from the request's arrival until its debit
lands, the request is over, or, given up, it is overtaken. So a trade cannot be charged
twice, however often its put lands; what is signed was charged; a debit that was
stored for a request that then failed stays charged. `Void` is what the landing of
an overtaken put does to its user's budget, and `void` maps to `late`: while a user
is in it anything may become of that budget, and of no other; `Lapse` takes the
user out again.

### IntentSessions

The two families of routes are one module with the constant `Kind`: they differ
in what an expiry of 0 and a revoke that finds nothing mean. A row is keyed by
its id alone (`RowKey`), so that users meet in it; the list of a user is an
index item (`IndexKey`). `create` is two handlers' worth of awaits: the row's
put, the index's get (`CreateAppends`), the index's put unless the id is there.
`list` reads the index and then each row (`ListRow`), in any order of ids, and
drops rows of other users; `get` is the same test on one row. Abandoning and
leftovers are as above, with one name, `orphan`, for a put that has landed and one
that has not. A request never carries its own history: an intent sent again is just
another request.

`said[u][id]` is a history variable, the latest answer a user has about an id.
It is cleared when the user asks for a change and set by the reply, so a create
that died between its two puts has promised nothing. An overtaken put that lands
clears it too, for the id of the row it lands on, or for all ids when it lands on
the index; a request in hand at that moment is in `met`, and its answer does not
count. So an answer stands from the reply until then, and the next answer stands
again.

### PolyleverageSession

`chain[k]` is the sequence of versions the session has had on chain; a client
reads one of them (any: it may be late) and sends it, perhaps without spend,
revoked flag or version (`Left`). `Mirrored` is the row `session_upsert` puts:
spend and creation time fall back on the row found, a revoked flag left out is
false. `overtaken` and `late` are as for Jupiter, but the user's next request takes
the user out of `late`: a row is compared with the one it replaces, and a late put
spoils no more than the puts decided before it. `ChainMoves` is external.

### Bootstrap and MasterSecret

`pc[e]` is the call the boot of enclave `e` is at. `GetMissing` draws a
mnemonic that nobody has drawn (`drawn`), `Encrypt`, `Put` and `Acknowledge` seal
and store it, `GetFound` and `Open` load it. `Stop` is every way a process can
end, a failed boot step included; it may leave a put behind (`late`). `rows`
records which mnemonics seal rows of the session table, `served` what an enclave
served before it stopped; both are history. Sealing is abstracted to "KMS opens
what it sealed": that is the job of the attestation document.

`MasterSecret` says what this is for: a secret is chosen once, whoever serves
serves with that one, and rows are sealed under it. The mapping takes the blob for
the secret, what a serving enclave holds in memory (`held`) for what it serves
with, and `rows` for what seals rows.

`Overlap = FALSE` keeps first boots apart: no enclave starts while there is no
blob and another is on the way, or a put of one that crashed may still land.
As for the sessions it is an assumption, not something the code ensures, and
`boot_together` drops it.

### EnclaveRun

One process with its listener, one bridge per service, the parent, the cached
credentials with the ticks they have left, and at most one call in flight per
service. A call takes cached credentials or refreshes them (`UseCached`,
`Refresh`, `RefreshFails`), connects through its bridge (`Connect`,
`ConnectFails`), and is answered or cut (`Answered`, `Cut`). The admin token is a
clone made at boot that nothing writes later, so `token` only says whether it is
there. Faults are the parent's outage, a bridge's failed accept, the listener's
failed accept; the last ends the process.

The identity cache belongs to the AWS SDK and is external; its buffer is set at
`bootstrap.rs:90`. `CallsOutlivedByCreds` needs `MaxCall <= BufferTime`, and
`Least > MaxCall` for fresh credentials: the code's buffer is an hour, a call
takes seconds and the parent's credentials last hours.

### The signing modules

`SigningRoutes` answers one request at a time; its properties compare a reply
with a reference definition that does not share the code's way of computing it.

It reaches no recursive operator, so that theorems about it can be proved.
`IntentGate` writes recursion on a JSON value as functions of its depth, up to
`MaxDepth`, which is 128 in `serde_json`'s parser. `BerToDer` writes the mutual
recursion of `normalize`, `rewrite_one`, `flatten_primitive` and
`all_children_are_octet_strings`, and their loops, as what calls of which at most
`n` are nested in one another answer (`Reading[n]`), each operator being handed
the answers of the calls it makes (`inner`). Of the calls nested in one another
every second one has fewer bytes to read, so `2 * Len(bytes) + 2` is never run
out of, and the answers are those of the recursion without a bound: this is
proved (`RewritingEnds`). The values whose encodings are compared nest to any `BerDepth`; the code
has no limit of its own.

What the types of a request rule out (an amount that is a text, a price that is a
u64, an attestation's `pmlc` that fills the payload) is an assumption with a name,
which TLC evaluates on the run's requests. More are about a KMS reply: encodings
shorter than 64 KiB (`Modest`; KMS seals 4 KiB at most), recipients whose fields
are bytes, and an encrypted content of bytes, which is there once or not at all.

| Module | The code's way | What it is compared with |
|---|---|---|
| `Amounts` | `U256::from_str_radix`, base units by moving the point, `parse_decimal_to_scaled` | the rational number a text denotes |
| `EvmIntents` | positions, offsets and bounds of calldata, validators in the handler's order | the effect of a call by the ABI (`Effective`), fields of the intent by name |
| `PerpsDecode` | a reader over borsh data, option by option; the search for the one trade | the encoding of a trade (`Borsh`); what runs on chain (`RunTrades`) |
| `IntentGate` | `write_canonical`, the signature check and its expiry | the value a JSON text means (`Meant`) |
| `SigningDomains` | words, domains and byte layouts of every digest; salts, infos and paths | what was asked to be signed (`Meaning`), the purpose of a key |
| `BerToDer` | `normalize`, then the envelope's fields | every BER style of a value, and its one DER form (`DerOf`) |

Hashes, HMACs, HKDF, RSA, AES and signatures are ideal: injective, and opened by
whoever holds the key.

## The runs

| Run | Config | Shows |
|---|---|---|
| `jup_serial` | `JupiterSerial.cfg` | `SpentCovered`, `ImplementsSpendLimit` |
| `jup_concurrent` | `JupiterConcurrent.cfg` | `TypeOK`, `SignedWithinGrant`, `UsedWithinSomeCap`, `SettledRevocationHolds` |
| `jup_spend_reset` | `JupiterSpendReset.cfg` | `ReRegisteringKeepsSpend` is violated |
| `jup_revocation_undone` | `JupiterRevocationUndone.cfg` | `RevocationHolds` is violated |
| `intent_serial` | `IntentSerial.cfg` | `TypeOK`, `AnswersHold`, `ListAgrees`, `OwnerChanges`, `ZeroNeverExpires` |
| `intent_index_lost` | `IntentIndexLost.cfg` | `IndexOnlyGrows` is violated |
| `poly_serial` | `PolyleverageSerial.cfg` | `TypeOK`, `NeverAheadOfChain`, `UpsertPreserves` |
| `boot_first_alone` | `BootFirstAlone.cfg` | `TypeOK`, `ServedIsStored`, `StoredSecretStays`, `ImplementsMasterSecret`, `AllServeInTheEnd` |
| `boot_together` | `BootTogether.cfg` | `StableAcrossRestarts` is violated |
| `run_faults` | `RunFaults.cfg` | `TypeOK`, `CallsOutlivedByCreds`, `CallsEnd`, `ServiceComesBack` |
| `run_bridge_dies` | `RunBridgeDies.cfg` | `DeadBridgeRecovers` is violated |
| `signing` | `Signing.cfg` | `TypeOK` and twelve properties of the stateless half |

Jupiter:

- **`SpentCovered`**: the spend in the row covers every size signed under it,
  across re-registration, revocation, failed and abandoned trades, and puts that
  land late or twice, unless and until one lands that was given up before the
  user's next request.
- **`ImplementsSpendLimit`**: the refinement, as a step property; the same puts,
  and no others, are `Void` steps.
- **`SignedWithinGrant`**: under any overlap and staleness, a row carries the
  terms of one registration, never a blend of two, and a trade past its check
  fits a registration its user made, at the time the request arrived.
- **`UsedWithinSomeCap`**: debits that overwrite one another never push the
  counter over the largest cap the user registered.
- **`SettledRevocationHolds`**: once every copy of the row is revoked (stored,
  replicated, in a handler's hands) and no registration is in flight, nothing is
  signed for the user until a registration arrives or the row is reaped.

Sessions by intent:

- **`AnswersHold`**: what a user was told still stands: a session answered as
  created is in the index and active, one answered as revoked is not active,
  whatever another user did under the id, and whatever was abandoned and landed
  before the user's next request or never. A put that lands after it ends what was
  said of the session it lands on, or of all the user's if it is an index.
- **`ListAgrees`**: what a list shows, read in several awaits, agrees with the
  table when it leaves, unless such a put of the asker's landed among its reads.
- **`OwnerChanges`**: a revoke never changes another user's row, however old the
  read it decided on.
- **`ZeroNeverExpires`**: neither create nor revoke gives a session without an
  expiry a time to live.

Polyleverage:

- **`NeverAheadOfChain`**: mirrors in any order, with any fields left out, blend
  with older rows into nothing the chain has not reached.
- **`UpsertPreserves`**: the comment in `session_upsert` about what is kept, for
  puts that fail, repeat or land late; a put that lands after the user's next
  request is the exception, with what that request goes on to put.

Boot and run:

- **`StoredSecretStays`**: once the blob has settled (it is stored, no put is
  under way or late, no boot goes on with an older one), it is never replaced, and
  later boots serve it. It needs no assumption on overlap.
- **`ServedIsStored`**, **`ImplementsMasterSecret`**, **`AllServeInTheEnd`**:
  with first boots apart, nothing is served before it is stored, one secret is
  ever chosen, whoever serves holds it, and all enclaves come to serve.
- **`CallsOutlivedByCreds`**: no call arrives with expired credentials.
- **`CallsEnd`**, **`ServiceComesBack`**: calls end in any outage; services
  answer again unless their bridge died.

Stateless half:

- **`AmountsExact`**: each parser yields the number the text denotes, and refuses
  only what it must.
- **`BurnWithinIntent`**, **`MoveWithinIntent`**, **`RedeemWithinIntent`**: what
  a signed transaction does is within the intent, by token, recipient, amount
  and outcome, wherever the array of a redemption lies in the calldata.
- **`DecodeFaithful`**, **`OneTradeSigned`**: the decoder reads what the chain's
  program reads, and one trade is signed, with the asset of the intent.
- **`CanonicalInjective`**, **`IntentAuthentic`**: two intents share a signed
  text exactly if they say the same; an intent passes exactly if its key signed
  it and it has not expired.
- **`SignaturesApart`**, **`KeysApart`**: no key and digest serve two
  statements; no two purposes or users share a key, retries included.
- **`DerOfBer`**, **`EnvelopeOpens`**: every encoding of a value becomes its DER
  form; an envelope made for the enclave opens.

### Bounds

`jup_serial`: one user, two slots, so that what one request left behind meets the
next ones, any number of them before it lands; three registrations (tight, wide,
one with an amount that does not parse), two markets, sizes 1 and 2 against a cap of
2 and per-trade limits of 1 and 2, so that a trade lands below, on and above either,
a clock of 0..1 against expiries 0 and 1 so that a trade comes before, on and after
an expiry and the reaper gets its turn. Until an overtaken put lands, spend exceeds
no cap, so `SpentBound = 2` cuts nothing off; afterwards nothing reads the count. Two
puts left behind at once would need a third slot; the theorems cover any number. `jup_spend_reset` has the same slots and one registration.

`jup_concurrent`: one user, two requests in flight, a lagging replica, two
registrations of which each allows what the other forbids, so that a blend of
them would show. Two in flight are what a lost update, a lost revocation and a
late put need. The slots are interchangeable (`MCSymmetry`; all properties
treat them alike). Users share no state, so one user is enough; the theorems
cover any number. `SpentBound = 0` switches off the history variable `spent`,
which none of these properties reads.

`intent_serial`: two users, because rows are shared by id; two ids, one with the
expiry 0 and one with the expiry 1, so that one never expires and the other
may; two slots, for a request of each user, or for one user's request and a put
left behind. The clock goes from 1, where the reaper waits for that expiry, to 2, where
it has passed; the routes read no clock, so earlier times would show nothing more.
It takes the generic routes, whose answers claim more; `intent_index_lost` takes
the Hyperliquid ones. Reads are consistent.

`poly_serial`: one user, two slots, two versions on chain, of which the second
spends more, is revoked, or both: a mirror can be a version behind, a put left
behind can carry either version past a request that carries the other, and a
revocation, the user's own included, comes and goes. The theorems cover any length
of the chain.

`boot_first_alone`: three enclaves (one stores, one loads, one crashes
meanwhile), three crashes, four mnemonics, one for each draw these allow.
`boot_together`: two of each.

`run_faults`: three services, three faults of any kind in any order; life 3,
least 2, buffer 1 and call 1 are the smallest numbers under which credentials
are fresh, within the buffer, and expired. Time stops for a call at `MaxCall`.

`signing`: a byte has 8 values, a word 3 bytes, an address 2, a u32 1 and a u64 2,
so that a word can exceed each of them and an offset can overflow a u64; USDC has two
decimals; arrays hold at most 2; texts are all strings of up to four out of
three digits, the point and another character; JSON nests up to `MaxDepth = 4`. Bytes
of BER are real, with contents of 0 to 200 bytes, so that both length forms occur, and values nest up
to `BerDepth = 8`, the depth of an envelope. Each is encoded in all 81 styles: three
forms of a length that alternate through three values, and three ways to cut
strings.

Deadlock checking is off in the two boot runs only, where crashes are bounded
and nothing else remains to be done; `MaxCrashes`, `MaxFaults`, `MaxTime`,
`MaxVersion`, `SpentBound` and `MaxCall` are the bounds on what would grow;
`StartTime` is where the clock starts.

### Fairness and liveness

Safety runs assume none. Two runs have liveness properties, under weak fairness
of steps that nothing in the system can hold back for ever:

- `Bootstrap!FairSpec`: each enclave's boot step (the code goes straight on, and
  the parent's systemd starts an enclave that stopped), and late puts, which land
  or are lost. A repeated put is not fair: nobody has to retry. Stops are bounded
  by `MaxCrashes`, so the property is about the time after the last one.
- `EnclaveRun!FairSpec`: booting, the parent's return, the steps of a call once
  begun, and beginning a call (handlers keep calling). Faults are not fair.
  A service answers while the parent is up.

Session routes have no liveness of their own: a handler replies if the table
does.

### Findings

1. *A re-registration can reset the spend.* `session_upsert` says it "must not"
   (`jupiter_session.rs:187-188`). When a trade's debit lands between an
   upsert's get and its put, the put stores the spend from before the debit. The
   run shows it for a user who sends one request at a time: the upsert was given up
   with its put on the way, and the put lands after the next request's debit. With
   two requests at once it takes no late put.
2. *A revocation can be undone by a trade in flight.* `session_revoke` is to
   "mark the session revoked". A sign that read the row before the revocation
   puts it back with `revoked = false` after `session_revoke` has replied. The
   admitted race is about the cap only. The property looks at a put that lands
   at once and once, so the finding depends on no retry and no late put.
3. *Two creates at once can lose an index entry* (`hl_session.rs:147`,
   `generic_session.rs:178-188`): both read the index, the later put drops what
   the earlier one appended, and `list` never shows that session.
4. *Two first boots at once can serve two secrets* (`bootstrap.rs:161`): both
   find no blob, both put one. The enclave whose put is overwritten serves keys
   no later boot can derive; `main.rs:104-105` says the table's key is "stable
   across enclave restarts".
5. *A bridge whose accept failed stays dead* (`vsock_transport.rs:92`). The
   comment above it says that "the enclave then has to restart to recover", which
   systemd handles; but the process does not end, so nothing restarts it.

Comments that no run is about: `vsock_creds.rs:55-56` calls `expires_at`
"informational", lines 97-110 set the credentials' expiry from it.
`jupiter/sign.rs:9` and `sign_jupiter_tx.rs:3-4` say that size and owner of a
trade are compared with the intent; the handler compares the asset. The
repository's `README.md:43-44` says "every signing request is checked against a
user-authorized intent"; the routes for orders, permits and attestations verify
none and rest on the admin token.

## The proofs

All theorems hold for every value of the constants, from the assumptions the
modules name (`TableAssumption`, `JupiterAssumption`, `IntentAssumption`,
`PolyleverageAssumption`, `BootstrapAssumption`, `RunAssumption`; for the stateless
half `ByteAssumption`, `AmountsAssumption`, `EvmAssumption`, `PerpsAssumption`,
`DomainsAssumption`, and for its requests `TextsAssumption`, `EvmCallsAssumption`,
`PerpsCallsAssumption`, `PerpsDataAssumption`, `GateAssumption`,
`IntentsAssumption`, `StatementsAssumption`, `DerivationsAssumption`,
`BerAssumption`, `BerValuesAssumption`, `EnvelopesAssumption`) and what the last column adds. "Any" is any overlap of
requests (or first boots) and any staleness of reads. `~Overlap` is, for sessions, one
request at a time and any leftovers beside it.

| Theorem | States | Under |
|---|---|---|
| `TypeCorrect` | `JupiterSession`: `[]TypeOK` | any |
| `TradesWithinGrant` | `[]SignedWithinGrant` | any |
| `SpendWithinCap` | `[]UsedWithinSomeCap` | any |
| `RevocationSettles` | `SettledRevocationHolds` | any |
| `SerialSpendCovered` | `[]SpentCovered` | `~Overlap`, `ConsistentReads` |
| `SerialSessionsImplementLimit` | `ImplementsSpendLimit` | the same, and `SpentBound` no less than any cap |
| `IntentTypeCorrect` | `IntentSessions`: `[]TypeOK` | any |
| `RowsChangeByOwners` | `OwnerChanges` | any |
| `ZeroStays` | `ZeroNeverExpires` | any |
| `SerialAnswersHold` | `[]AnswersHold` | `~Overlap`, `ConsistentReads` |
| `SerialListAgrees` | `ListAgrees` | `~Overlap`, `ConsistentReads` |
| `PolyTypeCorrect` | `PolyleverageSession`: `[]TypeOK` | any |
| `MirrorsNeverAhead` | `[]NeverAheadOfChain` | any |
| `SerialUpsertPreserves` | `UpsertPreserves` | `~Overlap`, `ConsistentReads` |
| `BootTypeCorrect` | `Bootstrap`: `[]TypeOK` | any |
| `SettledSecretStays` | `StoredSecretStays` | any |
| `AloneServedIsStored` | `[]ServedIsStored` | `~Overlap` |
| `AloneStableAcrossRestarts` | `StableAcrossRestarts` | `~Overlap` |
| `AloneImplementsMasterSecret` | `ImplementsMasterSecret` | `~Overlap` |
| `RunTypeCorrect` | `EnclaveRun`: `[]TypeOK` | |
| `CredentialsOutliveCalls` | `[]CallsOutlivedByCreds` | |
| `TypesHold` | `SigningRoutes`: `[]TypeOK` | |
| `AmountsHold` | `[]AmountsExact` | |
| `BurnsHold`, `MovesHold` | `[]BurnWithinIntent`, `[]MoveWithinIntent` | |
| `RedemptionsHold` | `[]RedeemWithinIntent` | |
| `DecodingHolds`, `TradesHold` | `[]DecodeFaithful`, `[]OneTradeSigned` | |
| `KeysHold`, `SignaturesHold` | `[]KeysApart`, `[]SignaturesApart` | |
| `TextsHold`, `IntentsHold` | `[]CanonicalInjective`, `[]IntentAuthentic` | |
| `EncodingsHold`, `EnvelopesHold` | `[]DerOfBer`, `[]EnvelopeOpens` | |
| `RewritingEnds` | the rewriting has one answer for any bytes, and `Normalize` is it | |
| `RewrittenOnce` | a second rewriting changes nothing | encodings below 64 KiB |
| `BytesDecide` | one reply, one secret, whichever envelope it is read as | encodings below 64 KiB |

The inductive invariants, and why the properties alone do not do:

- `SignedWithinGrant` and `UsedWithinSomeCap` say nothing of a request whose row
  does not exist yet, nor what a debited row proves about its trade. `GrantInv`
  adds both: an upsert's terms are recorded when it arrives, and a row held for
  a trade was found to allow it (`TradeFits`).
- `SettledRevocationHolds` follows step by step from `GrantInv`: a handler that
  could release a signature would hold an unrevoked row, and none exists.
- `SpentCovered` needs to know what a handler holds *relative to the stored
  item*. `SerialInv` says it: besides overtaken leftovers one slot per user is
  busy, and (`Follows`), for a user on whose row no overtaken put has landed, the
  row to be put is that request's own change of the stored item, the row that was
  put is the stored item, and a stored debit leaves room for its trade. A leftover
  follows too until the next request comes, which is why it may land until then;
  of an overtaken one nothing is known, and nothing is needed but that its landing
  is recorded in `late`.
- The refinement maps each step with the same invariant. First puts become
  `Register`, `Revoke` or `Charge`; repeated puts stutter; requests that end
  without a put `Withdraw` their trade; `Release` maps to `Release` because the
  counter never passes a cap, and so never meets `SpentBound`. The landing of an
  overtaken put is `Void`, and so is every later change for its user until the
  reaper's, which is `Lapse`.
- `OwnerChanges` and `ZeroNeverExpires` are about the moment a put lands, long
  after it was decided. `PutInv` says what every put in flight is for: its own
  user's row, with the time to live of that row's expiry, or its own user's
  index. `TtlInv` says the same of stored rows.
- `AnswersHold` says nothing of requests under way. The `SerialInv` of
  `IntentSessionsProofs` adds what each of them follows, unless it is in `met`: a
  change under way has no answer yet; an index about to be put holds the stored one
  and the new id, so a put of it takes nothing out; a row that was put is, while its
  user's, as the request wants it; a list has read, or will read, every active
  session of its user, and has read what is stored. Steps of other users leave all
  of that alone (`Untouched`): they may take a row away, and cannot hand one over. A
  leftover of the user's own that no request has overtaken follows as it did before
  it was given up; an overtaken one that lands clears the answers it could falsify,
  and puts what is in hand in `met`.
- `NeverAheadOfChain` is about stored rows; `MirrorInv` extends it to replicas,
  to requests under way (a snapshot the chain has had) and to the rows they will
  put, and needs that spend on the chain only grows. `UpsertPreserves` has a
  `SerialInv` like that of Jupiter's, overtaken leftovers set aside as there.
- `StoredSecretStays` is inductive once every blob and held secret is known to
  have been drawn (`DrawnInv`). The others need `AloneInv`: before a blob is
  stored one enclave at most is up, and no late put coexists with it; afterwards
  nobody holds, will put or has served anything else.
- `CallsOutlivedByCreds` is about calls that have arrived; `SignedInTime` says
  that a call not yet sent has more than `MaxCall` ticks left, which is what the
  buffer is for.

In the stateless half one invariant does, `Related`: a request is one of those
the routes accept, and a reply is what the code's function answers to it. The
rest is about those functions, for texts, calldata and instruction data of any
length, bytes of any base and integers of any width:

- *Numbers.* `Power` and `Horner` are recursive functions; the provers know
  neither what those compute nor induction as a rule. `TableExists` and
  `TableUnique` give the first. `InductionOn`, `InductionUpTo` and
  `SeqInductionOn` state the second for a *set* of numbers or of sequences, which
  a proof can instantiate where it could not instantiate a predicate. From these
  follow `HornerConcat`, `HornerInjective` and `BytesInjective`.
- *Amounts* (`RadixParsed`, `BaseUnitsParsed`, `ScaledParsed`). Moving the point
  is a concatenation with zeros, cutting digits off is a division, and so what
  the parser returns is the text's number, rounded down where it is scaled.
- *Transactions* (`ArrayRead`). Where the decoder accepts an array, the words it
  tested lie inside the calldata from the offset on, so they are those the contract
  finds when it follows the offset, whatever lies before or after.
- *The decoder* (`ArgsFaithful`, `ArgsComplete`). Each kind of field is read as it
  was written and leaves the rest; the six fields follow by unrolling
  `ReadArgs`. Completeness needs that a field written is never mistaken for a
  shorter one (`Apart`).
- *Keys* (`UserKeyInjective`, `SaltsApart`). A retry appends a byte to the user's
  key, so the lengths tell a retry from a first attempt.
- *Digests.* Two kinds of statement differ in the name of their domain
  (`DomainParts`), in the type of the domain, or in the text in front. Attestations
  are bytes without separators: their header has a fixed length, and the payload
  is cut at places the type alone decides (`CutApart`, `PayloadApart`), which is
  why `SignaturesHold` needs the assumption on the length of `pmlc`.
- *Signed texts* (`SameTextSameMeaning`). A text inside another is followed by an
  end: a comma, a closing bracket, or nothing. The induction, on depth
  (`OneLevel`, `Levels`), is that two texts of values, each in front of an end and
  anything after it, are equal as a whole only if the values say the same
  (`Unambiguous`). The first character gives the kind of a value; escapes keep
  a quote inside a string from closing it, so that quoted strings are told apart
  whatever follows; the characters of a number exclude every end
  (`NumbersApart`); lists are then cut at the same commas (`SeparatedApart`). For
  objects, bytewise order is total, so that the sorted keys are a function of the
  set of keys (`OrderComplete`, `KeysSorted`), and equal texts have equal keys with
  equal members. `ScalarMembers` and `FieldForm` carry this to the fields the check
  of an intent reads: the named key and the expiry are those of the text signed.

- *Encodings* (`Rewriting`, for `DerOfBer`). What is shown of a value, by induction
  on its depth (`ValueAgrees`), is `Agrees`: each encoding of it, with any bytes
  behind, is rewritten as its DER form and taken to be as long as it is, by any
  reading with at least twice as many nested calls as the encoding has bytes. An
  atom is read by its length, in each of the three forms (`DefiniteValue`,
  `IndefiniteValue`). A value of values is read value by value, by an induction on
  the row (`RowBytes`, `MoreReads`), which is why the bytes behind matter: the last
  of them may be an end of contents. A segmented string is flattened in one pass or two
  (`SegmentsRead`). Under a context tag the code
  guesses: it is right about a segmented string (`TwoOctets`), and about a
  constructed value unless that holds nothing but octet strings (`NotAllOctets`),
  which is what `Nodes` leaves out.
- *The end of the rewriting* (`RewritingEnds`), by induction on the number of bytes.
  The calls made by a reading of a value, of segments and of a row of octet strings
  are of fewer bytes (`SmallerCalls`); those of the walk to an end of contents and of
  the loop in `normalize` are of the value in front, read already, and of fewer
  bytes (`SmallerWalks`). Both need that what is consumed is some of the bytes that
  are there, and never none (`Sound`). So the answers under any bound that suffices
  are the same, they satisfy the equations (`SettledAnswers`), and no others do
  (`NothingElse`).
- *DER apart*. A DER value in front of anything is read back to its tag and content
  (`CodedApart`), and so a row of values to its values (`CodedRows`). Values of one DER
  therefore have one tag, and hold either one string of bytes or as many values, of
  one DER each (`SameDer`, `SameDerHolds`). For envelopes, one field after another is
  told that way (`RecipientsApart`, `ContentsApart`), a content that is there from
  one that is not by the number of values next to it. This is what lets `Decrypt` in
  the model name the envelope it reads, where the code has only the bytes.
- *Envelopes*. `EnvelopesHold` rests on `Rewriting` and on `FirstKtri` and `CekFound`:
  the first key-transport recipient exists if any does, and is the enclave's if all
  are.

Only model-checked: liveness (`AllServeInTheEnd`, `CallsEnd`,
`ServiceComesBack`) and `ENABLED`, which are out of the prover's reach. Every
safety property of a passing run is a theorem.

## Not modelled

- The cryptography: AES-GCM, HKDF, signatures and hashes are taken to do what
  they promise. Whether the domains, type hashes and layouts in `core/src/polymarket/`,
  `hyperliquid.rs` and `clob/` are those the contracts and exchanges expect is
  for test vectors; the model says that they are distinct and complete.
- `session_crypto`'s envelope bytes; a blob that does not open is a failed get.
- `nsm`: a binding over a device. `auth.rs`: one comparison of a header with the
  token. Health and attestation: constant answers. The CLOB request headers: an
  HMAC over a text the exchange fixes. Reads that change nothing
  (`session_get`, `delegate`, `derive`).
- The TCP listener, the environment's mnemonic and the store-less service of a
  development run.
- Functions no route calls: `validate_erc20_approve`, `assert_owner`,
  `derive_master_evm_account`. `sign_user_action` and the level-1 headers, which
  none calls either, are in `SigningDomains` as statements, for their digests.
- In `Amounts`: underscores, which `from_str_radix` may skip. In `EvmIntents`:
  the parsing of addresses and base58 (an owner that is no key); `value`, `nonce`
  and gas of a transaction, and except for burns its chain, are compared with
  nothing, and the model compares them with nothing. The overflow at `abi.rs:108`
  ends the process and is the outcome "abort".
- In `PerpsDecode`: other instructions of the perpetuals program in the same
  transaction, which are ignored and signed along, appear as one discriminator.
- In `SigningDomains`: that attestation nonces increase and basis points stay in
  range, which comments ask of the caller and no code enforces.
- In `BerToDer`: explicit context tags around nothing but octet strings, which the
  code takes for a segmented string; unused bits of constructed bit strings, empty
  implicit strings, constructed segments inside an implicit string, context tags of
  several bytes. A length past the end of the input inside `flatten_primitive` panics
  in the code and is a refusal here.
- In `EnclaveRun`: credentials without a readable `expires_at`, whose refresh is
  the SDK's affair, and a parent that accepts a connection and never closes it:
  the read at `vsock_creds.rs:83` has no timeout.
- A get by `IntentSessions` that lags: nothing in the code promises what a revoke
  or a list sees then. `OwnerChanges` and
  `ZeroNeverExpires` are proved for it all the same; the other properties and the
  run take consistent reads.
- The callers of the service and the parent instance, beyond what the code sees.

## Plan

Every component the table at the top names is modelled, or under *Not modelled*
with the reason, and every safety property that a run checks is proved. What
would say more:

- the rewriting of inputs that are no encoding of a value: `RewritingEnds` says that
  it ends on them, and nothing yet says which of what it then returns is DER (under
  a context tag of several bytes, which is not modelled, it need not be);
- a theorem about concurrent creates and overtaken puts, weaker than `AnswersHold`:
  which index entries can be lost, and by whom;
- the routes named under *Not modelled* for whose layouts the repository has test
  vectors, if they come to hold state.
