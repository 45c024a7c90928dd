----------------------------- MODULE SigningRoutes -----------------------------
(***************************************************************************)
(* The enclave's stateless half: what its routes and the functions under   *)
(* them answer, one request after another.  A request that is a pair is    *)
(* two calls whose answers are compared.                                   *)
(***************************************************************************)
EXTENDS EvmIntents, PerpsDecode, SigningDomains, IntentGate, BerToDer, FiniteSets

CONSTANTS
  Texts,         \* of amounts
  EvmCalls,      \* [verified, intent, tx]
  PerpsCalls,    \* [verified, asset, delegate, tx]
  PerpsData,     \* [disc, args]
  PerpsTrades,   \* discriminator |-> arguments of some trades
  Jsons,
  IntentChecks,  \* [intent, override, enforce, now, sig, wrote]: wrote is what was signed
  Statements,
  Derivations,   \* <<purpose, user>>
  BerValues,
  Envelopes

-----------------------------------------------------------------------------
(* The types of the requests. *)

ASSUME TextsAssumption == Texts \subseteq Seq(Char)

ASSUME EvmCallsAssumption ==
  \A c \in EvmCalls :
    LET intent == c.intent
        Named(fields) == \A f \in fields : intent[f] \in Seq(Char)
    IN /\ c.tx.args \in Seq(Byte)
       /\ intent.action \in Withdrawals => Named({"amount_wei", "amount"} \cap DOMAIN intent)
       /\ intent.action = "erc20_transfer" => Named({"amount"})
       /\ intent.action \in {"pusd_wrap", "neg_risk_redeem"} => Named({"max_amount"})
       /\ intent.action \in {"ctf_redeem", "neg_risk_redeem"} => intent.outcome_index \in Nat

ASSUME PerpsCallsAssumption ==
  \A c \in PerpsCalls :
    /\ c.tx.keys \in Seq(Range(c.tx.keys)) /\ c.tx.loaded \in Seq(Range(c.tx.loaded))
    /\ c.tx.slots \in Nat
    /\ DOMAIN c.tx.ixs \subseteq 1..Len(c.tx.ixs) /\ Len(c.tx.ixs) \in Nat
    /\ \A i \in DOMAIN c.tx.ixs : c.tx.ixs[i].args \in Seq(Byte)

U64s == 0..U64Max
TradeArgs ==
  [size : U64s, collateral : U64s, side : 0..2, slippage : U64s,
   minimum_out : U64s \cup {Absent}, entire : {0, 1, Absent}, counter : U64s]

ASSUME PerpsDataAssumption ==
  /\ PerpsData \subseteq [disc : {Increase, Decrease}, args : Seq(Byte)]
  /\ \A disc \in {Increase, Decrease} : PerpsTrades[disc] \subseteq TradeArgs

\* A record by its fields.
Has(record, fields) == record = [f \in fields |-> record[f]]

FieldsOf ==
  [order |-> {"user", "neg_risk", "order"},
   batch |-> {"user", "purpose", "wallet", "nonce", "deadline", "calls"},
   permit |-> {"user", "value", "nonce", "deadline"},
   agent |-> {"user", "network", "connection"},
   user_action |-> {"user", "chain", "struct"},
   clob_auth |-> {"user", "timestamp", "nonce"},
   link |-> {"user"},
   tx |-> {"user", "tx"},
   twap |-> {"market", "signed_at", "nonce", "price", "window", "start", "end"},
   resolution |-> {"market", "signed_at", "nonce", "outcome_bps", "resolved_at"},
   liquidation |-> {"market", "signed_at", "nonce", "pmlc", "mark", "breach_at"}]
OrderFields ==
  {"salt", "maker", "signer", "token", "maker_amount", "taker_amount", "side", "signature_type",
   "timestamp", "metadata", "builder"}
TxFields == {"chain", "nonce", "max_priority_fee", "max_fee", "gas_limit", "to", "value", "data"}
Attestations == {"twap", "resolution", "liquidation"}

ASSUME StatementsAssumption ==
  \A s \in Statements :
    /\ s.kind \in DOMAIN FieldsOf /\ Has(s, {"kind"} \cup FieldsOf[s.kind])
    /\ s.kind \notin Attestations => s.user \in SolanaKey
    /\ s.kind \in Attestations =>
         /\ s.market \in SolanaKey
         /\ \A f \in {"signed_at", "nonce", "price", "window", "start", "end", "resolved_at", "mark"} \cap DOMAIN s :
              s[f] \in U64s
    /\ s.kind = "order" => s.neg_risk \in BOOLEAN /\ Has(s.order, OrderFields)
    /\ s.kind = "tx" => Has(s.tx, TxFields)
    /\ s.kind = "resolution" => s.outcome_bps \in 0..(Power(ByteBase, U16Bytes) - 1)
    /\ s.kind = "liquidation" =>
         /\ s.pmlc \in [1..(PayloadBytes - 2 * U64Bytes) -> Byte]
         /\ s.breach_at \in Int /\ s.breach_at <= U64Max

ASSUME IntentsAssumption ==
  /\ Jsons \subseteq Json
  /\ \A c \in IntentChecks :
       /\ c.intent \in Json /\ c.wrote \in Json
       /\ c.enforce \in BOOLEAN
       /\ c.sig.over = Canonical(c.wrote)

ASSUME DerivationsAssumption ==
  Derivations \subseteq {"evm", "jupiter", "session", "dek", "attestor"} \X SolanaKey

\* Values whose lengths take no more than two bytes: KMS seals a few kilobytes at most.
Modest(value) ==
  /\ value \in Tree[BerDepth] /\ Len(DerOf(value)) < 65536
  /\ \A style \in Styles : Len(BerOf(value, style)) < 65536

ASSUME BerValuesAssumption == \A v \in BerValues : Modest(v)

ASSUME EnvelopesAssumption ==
  \A e \in Envelopes :
    /\ e.recipients \in Seq([kind : Tag, for : 0..255, cek : 0..255])
    /\ e.content \in Seq([cek : 0..255, bytes : Octets]) /\ Len(e.content) <= 1
    /\ Modest(EnvelopeValue(e))

-----------------------------------------------------------------------------
VARIABLES
  request,  \* [kind, body], or of the kind "idle"
  reply     \* [kind, body], or of the kind "none"

vars == <<request, reply>>

Init == request = [kind |-> "idle"] /\ reply = [kind |-> "none"]

Receive(kind, bodies) ==
  /\ request.kind = "idle"
  /\ \E b \in bodies : request' = [kind |-> kind, body |-> b]
  /\ UNCHANGED reply

\* answer is of request.body.
Handle(kind, answer) ==
  /\ request.kind = kind
  /\ reply.kind = "none"
  /\ reply' = [kind |-> kind, body |-> answer]
  /\ UNCHANGED request

Answered ==
  /\ reply.kind # "none"
  /\ request' = [kind |-> "idle"]
  /\ reply' = [kind |-> "none"]

Parsers == ({"radix", "base units", "integer"} \X {0}) \cup ({"scaled"} \X (0..Decimals))

Parse(b) ==
  CASE b[1][1] = "radix" -> FromStrRadix(b[2])
    [] b[1][1] = "base units" -> BaseUnits(b[2])
    [] b[1][1] = "integer" -> ParseInteger(b[2])
    [] b[1][1] = "scaled" -> ParseScaled(b[2], b[1][2])

Pairs(S) == S \X S

Opened(b) == Decrypt(BerOf(EnvelopeValue(b.envelope), b.style), b.envelope)

ReceiveAmount == Receive("amount", Parsers \X Texts)
ReceiveEvm == Receive("evm", EvmCalls)
ReceivePerps == Receive("perps", PerpsCalls)
ReceiveData == Receive("data", PerpsData)
ReceiveJson == Receive("json", Pairs(Jsons))
ReceiveIntent == Receive("intent", IntentChecks)
ReceiveStatement == Receive("statement", Pairs(Statements))
ReceiveDerivation == Receive("derivation", Pairs(Derivations))
ReceiveBer == Receive("ber", [value : BerValues, style : Styles])
ReceiveEnvelope == Receive("envelope", [envelope : Envelopes, style : Styles])

HandleAmount == Handle("amount", Parse(request.body))
HandleEvm == Handle("evm", SignEvmTx(request.body))
HandlePerps == Handle("perps", SignJupiterTx(request.body))
HandleData == Handle("data", ReadArgs(request.body.disc, request.body.args))
HandleJson == Handle("json", <<Canonical(request.body[1]), Canonical(request.body[2])>>)
HandleIntent == Handle("intent", Verified(request.body))
HandleStatement == Handle("statement", <<Sign(request.body[1]), Sign(request.body[2])>>)
HandleDerivation ==
  Handle("derivation", <<KeyFor(request.body[1][1], request.body[1][2]),
                         KeyFor(request.body[2][1], request.body[2][2])>>)
HandleBer == Handle("ber", Normalize(BerOf(request.body.value, request.body.style)))
HandleEnvelope == Handle("envelope", Opened(request.body))

Next ==
  \/ ReceiveAmount \/ ReceiveEvm \/ ReceivePerps \/ ReceiveData \/ ReceiveJson
  \/ ReceiveIntent \/ ReceiveStatement \/ ReceiveDerivation \/ ReceiveBer \/ ReceiveEnvelope
  \/ HandleAmount \/ HandleEvm \/ HandlePerps \/ HandleData \/ HandleJson
  \/ HandleIntent \/ HandleStatement \/ HandleDerivation \/ HandleBer \/ HandleEnvelope
  \/ Answered

Spec == Init /\ [][Next]_vars

-----------------------------------------------------------------------------
Answer(kind) == reply.kind = kind
Signs == Answer("evm") /\ reply.body = "signed"
Effect == request.body.tx
Intent == request.body.intent

\* Type correctness: a reply answers the request that waits, an amount that was
\* parsed fits the type it was parsed to, and a transaction is signed, refused or
\* ends the process.
TypeOK ==
  /\ request.kind \in {"idle", "amount", "evm", "perps", "data", "json", "intent", "statement",
                       "derivation", "ber", "envelope"}
  /\ reply.kind \in {"none", request.kind}
  /\ Answer("amount") => reply.body \in {Refused} \cup 0..MaxU256
  /\ Answer("evm") => reply.body \in {"signed", "refused", "abort"}

\* Every parser of amounts gives the number the text means in the units it
\* converts to: the USDC amounts of an intent and the integers exactly, scaled
\* decimals rounded down.  It refuses only a text that is no amount, has more
\* digits than the units can hold, or exceeds the type.
AmountsExact ==
  Answer("amount") =>
    LET parser == request.body[1][1]
        d == IF parser = "base units" THEN Decimals ELSE request.body[1][2]
        s == request.body[2]
        n == reply.body
        WellFormed ==
          /\ IsDecimal(s)
          /\ parser \in {"radix", "integer"} => DotAt(s) = 0
          /\ parser \in {"integer", "scaled"} => Whole(s) # <<>>
          /\ parser = "scaled" /\ DotAt(s) # 0 => Fraction(s) # <<>>
          /\ parser = "base units" => Len(Fraction(s)) <= Decimals
    IN IF n = Refused
       THEN ~WellFormed \/ Numerator(s) * Power(10, d) >= (MaxU256 + 1) * Power(10, Len(Fraction(s)))
       ELSE /\ WellFormed /\ RoundsTo(s, d, n)
            /\ parser # "scaled" => IsExactly(s, d, n)

\* A burn is signed only if it moves the USDC of its own chain to the Solana
\* account of the destination the user signed, and no more of it than the
\* amount of the intent, in whichever of its two units the intent gives it.
BurnWithinIntent ==
  Signs /\ Intent.action \in Withdrawals =>
    LET args == Effect.args
        text == IF "amount_wei" \in DOMAIN Intent THEN Intent.amount_wei ELSE Intent.amount
        units == IF "amount_wei" \in DOMAIN Intent THEN 0 ELSE Decimals
    IN /\ Effect.to = TokenMessenger
       /\ <<Effect.chain, Address(args, 3)>> \in {<<Polygon, PolygonUsdc>>, <<Arbitrum, ArbitrumUsdc>>}
       /\ U32(args, 1) = Solana
       /\ Word(args, 2) = Ata(Destination(Intent))
       /\ Word(args, 0) * Power(10, Len(Fraction(text))) <= Numerator(text) * Power(10, units)

\* A transfer or a wrap is signed only if the tokens that move are those the user
\* named, to the account the user named, and as many (a wrap: at most).
MoveWithinIntent ==
  /\ Signs /\ Intent.action = "erc20_transfer" =>
       /\ Effect.to = Intent.token
       /\ Address(Effect.args, 0) = Intent.recipient
       /\ Word(Effect.args, 1) = Numerator(Intent.amount)
  /\ Signs /\ Intent.action = "pusd_wrap" =>
       /\ Address(Effect.args, 0) = Intent.source_token
       /\ Address(Effect.args, 1) = Intent.deposit_wallet
       /\ Word(Effect.args, 2) <= Numerator(Intent.max_amount)

\* However its array argument is laid out, a redemption is signed only if the
\* contract, which follows the offset, redeems the outcome of the intent and
\* nothing of any other.
RedeemWithinIntent ==
  /\ Signs /\ Intent.action = "ctf_redeem" =>
       LET sets == Effective(Effect.args, 3)
       IN /\ \A k \in DOMAIN sets : Outcomes(sets[k]) \subseteq {Intent.outcome_index}
          /\ \E k \in DOMAIN sets : sets[k] # 0
          /\ Word(Effect.args, 2) = Intent.condition_id
  /\ Signs /\ Intent.action = "neg_risk_redeem" =>
       LET amounts == Effective(Effect.args, 1)
       IN /\ \A k \in DOMAIN amounts \ {Intent.outcome_index} : amounts[k] = 0
          /\ amounts[Intent.outcome_index] <= Numerator(Intent.max_amount)
          /\ Word(Effect.args, 0) = Intent.condition_id

\* The decoder of perpetuals instructions reads what the program that runs them
\* reads: the arguments it finds, encoded again, are the data up to what it left
\* over, and it refuses no data that starts with the encoding of a trade.
DecodeFaithful ==
  Answer("data") =>
    LET b == request.body
    IN IF reply.body # <<>>
       THEN Borsh(b.disc, reply.body[1]) \o reply.body[2] = b.args
       ELSE \A a \in PerpsTrades[b.disc] : ~IsPrefix(Borsh(b.disc, a), b.args)

\* A transaction is signed only if exactly one of its instructions trades when it
\* runs, that trade is in the asset of the intent and is the one the session is
\* charged for, and the signature is in the delegate's slot.
OneTradeSigned ==
  Answer("perps") /\ reply.body.signed =>
    LET tx == request.body.tx
        ran == RunTrades(tx)
        slot == reply.body.slot
    IN /\ Cardinality(ran) = 1
       /\ \A i \in ran :
            /\ RunKey(tx, tx.ixs[i].accounts[CustodyAccount]) \in DOMAIN AssetOf
            /\ AssetOf[RunKey(tx, tx.ixs[i].accounts[CustodyAccount])] = request.body.asset
            /\ IsPrefix(Borsh(tx.ixs[i].disc, reply.body.trade), tx.ixs[i].args)
       /\ slot \in 1..tx.slots /\ tx.keys[slot] = request.body.delegate

\* Two intents have one signed text exactly if they say the same: no string an
\* intent carries can pass for structure, and the order of members is immaterial.
CanonicalInjective ==
  Answer("json") =>
    (reply.body[1] = reply.body[2] <=> Meant(request.body[1]) = Meant(request.body[2]))

\* An intent passes exactly if the key it is checked against signed an intent that
\* says the same and that, where expiry is enforced, has not expired.
IntentAuthentic ==
  Answer("intent") =>
    LET b == request.body
        members == IF b.wrote[1] = "obj" THEN Range(b.wrote[2]) ELSE {}
        Member(name, v) == \E m \in members : m = <<name, v>>
        Late(m) == m[1] = ExpiryField /\ m[2][1] = "num" /\ IsU64(m[2][2]) /\ U64Of(m[2][2]) < b.now
    IN reply.body <=>
         /\ Meant(b.wrote) = Meant(b.intent)
         /\ b.sig.by \in Keys
         /\ IF b.override # <<>> THEN b.sig.by = b.override
            ELSE Member(PubkeyField, <<"str", b.sig.by>>)
         /\ ~(b.enforce /\ \E m \in members : Late(m))

\* No signature of the enclave commits its key to two things: two requests answered
\* with one key and one digest asked for the same.
SignaturesApart ==
  Answer("statement") =>
    LET a == request.body[1]
        b == request.body[2]
        x == reply.body[1]
        y == reply.body[2]
    IN x.signed /\ y.signed =>
         (x.key = y.key /\ x.digest = y.digest => a.kind = b.kind /\ Meaning(a) = Meaning(b))

\* Two derived keys are equal exactly if they are of one purpose and, unless there
\* is one key of that purpose, of one user, retries or not.
KeysApart ==
  Answer("derivation") =>
    LET a == request.body[1]
        b == request.body[2]
    IN NoKey \notin Range(reply.body) =>
         (reply.body[1] = reply.body[2] <=>
            a[1] = b[1] /\ (a[1] \in {"dek", "attestor"} \/ a[2] = b[2]))

\* The rewriting gives the one DER encoding of a value from each of its BER
\* encodings: of every length form, with and without end-of-contents, strings
\* whole or in segments.
DerOfBer == Answer("ber") => reply.body = <<DerOf(request.body.value)>>

\* In whichever encoding it arrives, an envelope KMS made for the enclave opens to
\* its secret, and one made for nobody here does not.
EnvelopeOpens ==
  Answer("envelope") =>
    LET e == request.body.envelope
        ForEnclave == {r \in Range(e.recipients) : r.kind = KeyTrans /\ r.for = Enclave}
        others == {r \in Range(e.recipients) : r.kind = KeyTrans /\ r.for # Enclave}
    IN /\ reply.body # <<>> =>
            \E r \in ForEnclave : e.content # <<>> /\ e.content[1].cek = r.cek
                                  /\ reply.body = <<e.content[1].bytes>>
       /\ /\ e.type = EnvelopedData /\ e.algorithm = Aes256Cbc
          /\ Len(e.iv) = IvBytes /\ e.content # <<>>
          /\ others = {} /\ Cardinality(ForEnclave) = 1
          /\ \A r \in ForEnclave : r.cek = e.content[1].cek
          => reply.body = <<e.content[1].bytes>>
=============================================================================
