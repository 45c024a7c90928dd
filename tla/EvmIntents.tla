----------------------------- MODULE EvmIntents -----------------------------
(***************************************************************************)
(* POST /v1/sign/evm-tx (routes/sign_evm_tx.rs): which transaction is      *)
(* signed for which intent.  The calldata decoders are those of            *)
(* core/src/evm/abi.rs and cctp.rs, the validators those of                *)
(* core/src/evm/polymarket_flows.rs and cctp.rs.                           *)
(*                                                                         *)
(* The arguments of a call are a sequence of bytes; a word is WordBytes of *)
(* them (32), an address the last AddressBytes of a word (20), a u32 the   *)
(* last U32Bytes (4): the bytes before them are not read.  A usize is a    *)
(* u64.                                                                    *)
(***************************************************************************)
EXTENDS Amounts, ByteCodec

CONSTANTS
  WordBytes, AddressBytes, U32Bytes,
  ArrayCap,      \* 256
  PolygonUsdc, ArbitrumUsdc, Pusd,    \* addresses: of tokens
  TokenMessenger, Onramp, Ctf, NegRiskAdapter,  \* and of contracts
  Solana,        \* CCTP_DOMAIN_SOLANA
  Finality,      \* CCTP_STANDARD_FINALITY
  Ata(_)         \* the USDC account of a Solana owner, a word

\* Chain ids.
Polygon == 137
Arbitrum == 42161

ASSUME EvmAssumption ==
  /\ WordBytes \in Nat /\ AddressBytes \in 1..WordBytes /\ U32Bytes \in 1..WordBytes
  /\ ArrayCap \in Nat

Bytes(n) == n * WordBytes
WordAt(args, off) == BigEndian(SubSeq(args, off + 1, off + WordBytes))
HasWords(args, n) == Len(args) >= Bytes(n)
Word(args, i) == WordAt(args, Bytes(i))
EndOfWord(args, i, n) == BigEndian(SubSeq(args, Bytes(i + 1) - n + 1, Bytes(i + 1)))
Address(args, i) == EndOfWord(args, i, AddressBytes)
U32(args, i) == EndOfWord(args, i, U32Bytes)

\* Overflow checks are on and a panic aborts the process.
Overflows(n) == n > U64Max

\* dynamic_u256_array: how the array argument i of a call with the given number
\* of static words decodes.
ArrayVerdict(args, statics, i) ==
  LET off == Word(args, i)
      count == WordAt(args, off)
  IN CASE ~HasWords(args, i + 1) \/ off > U64Max \/ off < Bytes(statics) -> "refused"
       [] OTHER ->
          CASE Overflows(off + WordBytes) -> "abort"
            [] Len(args) < off + WordBytes -> "refused"
            [] OTHER -> IF /\ count <= U64Max /\ count <= ArrayCap
                           /\ Len(args) >= off + WordBytes + Bytes(count)
                        THEN "ok" ELSE "refused"

UintArray(args, i) ==
  LET off == Word(args, i)
  IN [k \in 1..WordAt(args, off) |-> WordAt(args, off + Bytes(k))]

\* The outcomes in an index set, bit by bit.
Outcomes(set) == {k \in 0..set : (set \div Power(2, k)) % 2 = 1}

-----------------------------------------------------------------------------
(* The validators.  Each assumes what the one before it in the handler has *)
(* checked; tx is [chain, to, selector, args].                             *)

TransferAllowed(tx, intent) ==
  /\ tx.to = intent.token
  /\ tx.selector = "transfer"
  /\ HasWords(tx.args, 2)
  /\ Address(tx.args, 0) = intent.recipient
  /\ Word(tx.args, 1) = FromStrRadix(intent.amount)

\* Mutant of WrapAllowed: the asset and the wallet swapped.
WrapAllowedSwapped(tx, intent) ==
  /\ tx.to = Onramp
  /\ tx.selector = "wrap"
  /\ HasWords(tx.args, 3)
  /\ Address(tx.args, 1) = intent.source_token
  /\ Address(tx.args, 0) = intent.deposit_wallet
  /\ Word(tx.args, 2) <= FromStrRadix(intent.max_amount)

WrapAllowed(tx, intent) ==
  /\ tx.to = Onramp
  /\ tx.selector = "wrap"
  /\ HasWords(tx.args, 3)
  /\ Address(tx.args, 0) = intent.source_token
  /\ Address(tx.args, 1) = intent.deposit_wallet
  /\ Word(tx.args, 2) <= FromStrRadix(intent.max_amount)

CallsRedeem(tx) == tx.to = Ctf /\ tx.selector = "redeemPositions4" /\ HasWords(tx.args, 3)

\* Mutant of RedeemAllowed: some index set is the outcome's, not their union.
RedeemAllowedSome(tx, intent) ==
  /\ Address(tx.args, 0) = Pusd
  /\ Word(tx.args, 1) = 0
  /\ Word(tx.args, 2) = intent.condition_id
  /\ \E s \in Range(UintArray(tx.args, 3)) : Outcomes(s) = {intent.outcome_index}

RedeemAllowed(tx, intent) ==
  /\ Address(tx.args, 0) = Pusd
  /\ Word(tx.args, 1) = 0
  /\ Word(tx.args, 2) = intent.condition_id
  /\ UNION {Outcomes(s) : s \in Range(UintArray(tx.args, 3))} = {intent.outcome_index}

CallsNegRisk(tx) ==
  tx.to = NegRiskAdapter /\ tx.selector = "redeemPositions2" /\ HasWords(tx.args, 1)

NegRiskAllowed(tx, intent) ==
  LET amounts == UintArray(tx.args, 1)
      mine == intent.outcome_index + 1
  IN /\ Word(tx.args, 0) = intent.condition_id
     /\ mine \in DOMAIN amounts
     /\ \A i \in DOMAIN amounts \ {mine} : amounts[i] = 0
     /\ amounts[mine] <= FromStrRadix(intent.max_amount)

\* Mutant of AmountMax: a decimal amount read as base units.
AmountMaxRaw(intent) ==
  IF "amount_wei" \in DOMAIN intent THEN FromStrRadix(intent.amount_wei)
  ELSE IF "amount" \in DOMAIN intent
       THEN FromStrRadix(SelectSeq(intent.amount, LAMBDA c : c # Dot) \o Zeros(Decimals))
       ELSE Refused

AmountMax(intent) ==
  IF "amount_wei" \in DOMAIN intent THEN FromStrRadix(intent.amount_wei)
  ELSE IF "amount" \in DOMAIN intent THEN BaseUnits(intent.amount)
       ELSE Refused

HasDestination(intent) == DOMAIN intent \cap {"destination", "solana_destination"} # {}
Destination(intent) ==
  IF "destination" \in DOMAIN intent THEN intent.destination ELSE intent.solana_destination

BurnToken(chain) == IF chain = Polygon THEN PolygonUsdc ELSE ArbitrumUsdc

\* depositForBurn(amount, domain, recipient, token, caller, max fee, finality)
BurnAllowed(tx, intent) ==
  /\ tx.to = TokenMessenger
  /\ tx.selector = "depositForBurn"
  /\ HasWords(tx.args, 7)
  /\ HasDestination(intent)
  /\ tx.chain \in {Polygon, Arbitrum}
  /\ Address(tx.args, 3) = BurnToken(tx.chain)
  /\ U32(tx.args, 1) = Solana
  /\ Word(tx.args, 0) <= AmountMax(intent)
  /\ U32(tx.args, 6) = Finality
  /\ Word(tx.args, 2) = Ata(Destination(intent))

-----------------------------------------------------------------------------
Withdrawals == {"withdraw", "polymarket_to_solana_withdraw", "hyperliquid_to_solana_withdraw"}

WithArray(verdict, allowed) ==
  CASE verdict = "ok" -> IF allowed THEN "signed" ELSE "refused"
    [] OTHER -> verdict

SignedIf(allowed) == IF allowed THEN "signed" ELSE "refused"

\* The handler, of an intent whose signature has been verified or not.
SignEvmTx(req) ==
  LET tx == req.tx
      intent == req.intent
  IN IF ~req.verified THEN "refused"
     ELSE CASE intent.action \in Withdrawals -> SignedIf(BurnAllowed(tx, intent))
            [] intent.action = "pusd_wrap" -> SignedIf(WrapAllowed(tx, intent))
            [] intent.action = "erc20_transfer" -> SignedIf(TransferAllowed(tx, intent))
            [] intent.action = "ctf_redeem" ->
                 IF CallsRedeem(tx)
                 THEN WithArray(ArrayVerdict(tx.args, 4, 3), RedeemAllowed(tx, intent))
                 ELSE "refused"
            [] intent.action = "neg_risk_redeem" ->
                 IF CallsNegRisk(tx)
                 THEN WithArray(ArrayVerdict(tx.args, 2, 1), NegRiskAllowed(tx, intent))
                 ELSE "refused"
            [] OTHER -> "refused"

-----------------------------------------------------------------------------
(* What a signed call does on its chain, by the ABI: array argument i is a  *)
(* count and as many words, at the offset argument word i holds.            *)

Effective(args, i) ==
  LET off == Word(args, i)
      bytes == SubSeq(args, off + 1, Len(args))
      count == BigEndian(SubSeq(bytes, 1, WordBytes))
  IN [k \in 0..(count - 1) |->
        BigEndian(SubSeq(bytes, (k + 1) * WordBytes + 1, (k + 2) * WordBytes))]
=============================================================================
