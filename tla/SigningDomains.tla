---------------------------- MODULE SigningDomains ----------------------------
(***************************************************************************)
(* The keys the enclave derives from its seed and the digests it signs     *)
(* with them.  A statement is what a signing route was asked to sign; its  *)
(* key and its digest are all a verifier sees of it.                       *)
(*                                                                         *)
(* Hashes, HMACs and HKDF are ideal: one value per input.  A 32-byte word  *)
(* is <<"num", n>>, <<"text", s>> (the hash of a fixed text) or            *)
(* <<"hash", words>>, an address is the word it pads to.                   *)
(***************************************************************************)
EXTENDS ByteCodec

CONSTANTS
  BadScalars,  \* HKDF inputs whose output is no secp256k1 scalar
  MaxAttempt,  \* 255
  Contracts,   \* name |-> address, of the contracts of polymarket/constants.rs and permits.rs
  MaxAmount,   \* 2^256 - 1
  U16Bytes, PayloadBytes, KeyBytes  \* 2, 48 and 32

ASSUME DomainsAssumption ==
  /\ MaxAttempt \in Nat /\ U16Bytes \in Nat /\ KeyBytes \in Nat /\ PayloadBytes \in Nat
  /\ 4 * U64Bytes <= PayloadBytes /\ U16Bytes + U64Bytes <= PayloadBytes
  /\ Contracts["exchange"] # Contracts["neg_risk_exchange"]

Num(n) == <<"num", n>>
Text(s) == <<"text", s>>
Hash(words) == <<"hash", words>>

-----------------------------------------------------------------------------
(* Keys. *)

SolanaKey == [1..KeyBytes -> Byte]

Hkdf(salt, info) == <<"hkdf", salt, info>>

\* Mutant of Info: the counter takes the place of the last byte.
InfoOverwritten(user, attempt) ==
  IF attempt = 0 THEN user ELSE Append(Front(user), attempt)

Info(user, attempt) == IF attempt = 0 THEN user ELSE Append(user, attempt)

NoKey == <<"none">>

\* derive_user_private_key: the first attempt that is a scalar.
UserKey(user) ==
  LET good == {a \in 0..MaxAttempt : Info(user, a) \notin BadScalars}
  IN IF good = {} THEN NoKey
     ELSE Hkdf("polylayer-user-evm-hkdf-v1", Info(user, CHOOSE a \in good : \A b \in good : a <= b))

DelegateKey(salt, user) == Hkdf(salt, user)
SessionDek == Hkdf("polylayer-sessions-dek-v1", "session-dek")

\* slip10_derive along m/44'/501'/0'/0'.
Child(parent, i) == <<"hmac", parent, i>>
AttestorKey == Child(Child(Child(Child(<<"hmac", "ed25519 seed", "seed">>, 44), 501), 0), 0)

KeyFor(purpose, user) ==
  CASE purpose = "evm" -> UserKey(user)
    [] purpose = "jupiter" -> DelegateKey("polylayer-jupiter-delegate-v1", user)
    [] purpose = "session" -> DelegateKey("polylayer-session-delegate-v1", user)
    [] purpose = "dek" -> SessionDek
    [] purpose = "attestor" -> AttestorKey

Eoa(key) == Hash(<<<<"key", key>>>>)

\* derive_deposit_wallet_address: CREATE2 of an ERC-1967 proxy.
DepositWallet(owner) ==
  LET args == <<Num(Contracts["factory"]), owner>>
  IN Hash(<<Text("ff"), Num(Contracts["factory"]), Hash(args),
            Hash(<<Text("erc1967"), Num(Contracts["implementation"])>> \o args)>>)

-----------------------------------------------------------------------------
(* EIP-712. *)

DomainType == Text("EIP712Domain(string name,string version,uint256 chainId,address verifyingContract)")
DomainOf(name, version, chain, contract) ==
  Hash(<<DomainType, Text(name), Text(version), Num(chain), contract>>)
PolygonChainId == 137
ArbitrumChainId == 42161

Eip712(domain, struct) == Hash(<<Text("1901"), domain, struct>>)

\* Mutant of ExchangeDomain: the same exchange for both markets.
ExchangeDomainOne(negRisk) ==
  DomainOf("Polymarket CTF Exchange", "2", PolygonChainId, Num(Contracts["exchange"]))

ExchangeDomain(negRisk) ==
  DomainOf("Polymarket CTF Exchange", "2", PolygonChainId,
           Num(Contracts[IF negRisk THEN "neg_risk_exchange" ELSE "exchange"]))

OrderHash(o) ==
  Hash(<<Text("Order"), Num(o.salt), o.maker, o.signer, Num(o.token), Num(o.maker_amount),
         Num(o.taker_amount), Num(o.side), Num(o.signature_type), Num(o.timestamp),
         Num(o.metadata), Num(o.builder)>>)

TypedDataSign(contents, wallet) ==
  Hash(<<Text("TypedDataSign"), contents, Text("DepositWallet"), Text("1"), Num(PolygonChainId),
         wallet, Num(0)>>)

Poly1271 == 3
OrderSignable(o, wallet) == o.signature_type = Poly1271 /\ o.maker = wallet /\ o.signer = wallet

OrderDigest(o, negRisk) == Eip712(ExchangeDomain(negRisk), TypedDataSign(OrderHash(o), o.maker))

CallHash(call) == Hash(<<Text("Call"), Num(call.target), Num(call.value), Hash(call.data)>>)
BatchDigest(wallet, nonce, deadline, calls) ==
  Eip712(DomainOf("DepositWallet", "1", PolygonChainId, wallet),
         Hash(<<Text("Batch"), wallet, Num(nonce), Num(deadline),
                Hash([i \in DOMAIN calls |-> CallHash(calls[i])])>>))

\* bootstrap_approval_calls
BootstrapCalls ==
  FlattenSeq([i \in 1..3 |->
    LET spender == Contracts[<<"exchange", "neg_risk_exchange", "neg_risk_adapter">>[i]]
    IN <<[target |-> Contracts["pusd"], value |-> 0,
          data |-> <<Text("approve"), Num(spender), Num(MaxAmount)>>],
         [target |-> Contracts["ctf"], value |-> 0,
          data |-> <<Text("setApprovalForAll"), Num(spender), Num(1)>>]>>])

PermitDigest(owner, spender, value, nonce, deadline) ==
  Eip712(DomainOf("USD Coin", "2", ArbitrumChainId, Num(Contracts["usdc_arbitrum"])),
         Hash(<<Text("Permit"), owner, spender, Num(value), Num(nonce), Num(deadline)>>))

SourceTag(network) == IF network = "mainnet" THEN "a" ELSE "b"
AgentDigest(network, connection) ==
  Eip712(DomainOf("Exchange", "1", 1337, Num(0)),
         Hash(<<Text("Agent"), Text(SourceTag(network)), Num(connection)>>))

\* sign_user_action: the caller hashes the struct.
UserActionDigest(chain, struct) ==
  Eip712(DomainOf("HyperliquidSignTransaction", "1", chain, Num(0)), struct)

\* build_l1_headers: a domain without a contract.
ClobAuthDigest(owner, timestamp, nonce) ==
  Eip712(Hash(<<Text("EIP712Domain(string name,string version,uint256 chainId)"),
                Text("ClobAuthDomain"), Text("1"), Num(PolygonChainId)>>),
         Hash(<<Text("ClobAuth"), owner, <<"decimal", timestamp>>, Num(nonce),
                Text("This message attests that I control the given wallet")>>))

LinkDigest(user) == Hash(<<Text("polylayer-link-v1"), <<"bytes", user>>>>)

\* encode_unsigned: an RLP list, an integer without its leading zeros.
TxDigest(tx) ==
  Hash(<<Text("02"), <<"rlp", <<tx.chain, tx.nonce, tx.max_priority_fee, tx.max_fee, tx.gas_limit>>>>,
         Num(tx.to), <<"rlp", <<tx.value>>>>, <<"bytes", tx.data>>, Text("no access list")>>)

-----------------------------------------------------------------------------
(* The bytes of an attestation: magic, type, padding, market, time, nonce  *)
(* and a payload of PayloadBytes (48), the rest of it zero.                *)

TypeByte(kind) == CASE kind = "twap" -> 1 [] kind = "resolution" -> 2 [] kind = "liquidation" -> 3

Header(s) ==
  <<"ATT1", TypeByte(s.kind), 0, 0, 0>> \o s.market \o U64(s.signed_at) \o U64(s.nonce)

Payload(s) ==
  CASE s.kind = "twap" -> U64(s.price) \o U64(s.window) \o U64(s.start) \o U64(s.end)
    [] s.kind = "resolution" -> BytesOf(s.outcome_bps, U16Bytes) \o U64(s.resolved_at)
    [] s.kind = "liquidation" -> s.pmlc \o U64(s.mark) \o U64(s.breach_at)

Attestation(s) ==
  Header(s) \o Payload(s) \o [i \in 1..(PayloadBytes - Len(Payload(s))) |-> 0]

Attestable(s) ==
  /\ s.kind = "liquidation" => s.breach_at >= 0
  /\ s.kind = "twap" => s.end >= s.start

-----------------------------------------------------------------------------
(* The signing routes, and the two signers of the library that no route    *)
(* calls yet: user_action and clob_auth.  A reply is [signed, key, digest]. *)

NotSigned == [signed |-> FALSE]
SignedAs(key, digest) ==
  IF key = NoKey THEN NotSigned ELSE [signed |-> TRUE, key |-> key, digest |-> digest]

SignOrder(s) ==
  LET key == UserKey(s.user)
  IN IF OrderSignable(s.order, DepositWallet(Eoa(key)))
     THEN SignedAs(key, OrderDigest(s.order, s.neg_risk)) ELSE NotSigned

SignBatch(s) ==
  LET key == UserKey(s.user)
  IN IF /\ s.purpose = "bootstrap_approvals"
        /\ s.wallet = DepositWallet(Eoa(key))
        /\ s.calls \in {<<>>, BootstrapCalls}
     THEN SignedAs(key, BatchDigest(s.wallet, s.nonce, s.deadline, BootstrapCalls)) ELSE NotSigned

SignPermit(s) ==
  LET key == UserKey(s.user)
  IN SignedAs(key, PermitDigest(Eoa(key), Num(Contracts["hl_bridge"]), s.value, s.nonce, s.deadline))

SignAgent(s) ==
  IF s.network \in {"mainnet", "testnet"}
  THEN SignedAs(UserKey(s.user), AgentDigest(s.network, s.connection)) ELSE NotSigned

Attest(s) ==
  IF Attestable(s) THEN SignedAs(AttestorKey, <<"bytes", Attestation(s)>>) ELSE NotSigned

Sign(s) ==
  CASE s.kind = "order" -> SignOrder(s)
    [] s.kind = "batch" -> SignBatch(s)
    [] s.kind = "permit" -> SignPermit(s)
    [] s.kind = "agent" -> SignAgent(s)
    [] s.kind = "user_action" -> SignedAs(UserKey(s.user), UserActionDigest(s.chain, s.struct))
    [] s.kind = "clob_auth" ->
         SignedAs(UserKey(s.user), ClobAuthDigest(Eoa(UserKey(s.user)), s.timestamp, s.nonce))
    [] s.kind = "link" -> SignedAs(UserKey(s.user), LinkDigest(s.user))
    [] s.kind = "tx" -> SignedAs(UserKey(s.user), TxDigest(s.tx))
    [] OTHER -> Attest(s)

\* What a signature commits its key to; the calls of a batch are only an echo.
Meaning(s) == [f \in DOMAIN s \ {"calls"} |-> s[f]]
=============================================================================
