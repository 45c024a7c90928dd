\* A byte has 8 values, a word is 3 bytes, an address 2, a u32 1, a u64 2; USDC has 2 decimals.
SPECIFICATION Spec
CONSTANTS
  ByteBase = 8
  U64Bytes = 2
  U16Bytes = 1
  WordBytes = 3
  AddressBytes = 2
  U32Bytes = 1
  Decimals = 2
  MaxU256 = 511
  ArrayCap = 2
  PolygonUsdc = 10
  ArbitrumUsdc = 11
  Pusd = 12
  TokenMessenger = 13
  Onramp = 14
  Ctf = 15
  NegRiskAdapter = 16
  Solana = 5
  Finality = 4
  Ata <- MCAta
  PerpsProgram = "perps"
  DefaultKey = "default"
  AssetOf <- MCAssetOf
  Rank <- MCRank
  MaxDepth = 4
  Keys <- MCKeys
  PubkeyField <- MCPubkeyField
  ExpiryField <- MCExpiryField
  BadScalars <- MCBadScalars
  MaxAttempt = 2
  Contracts <- MCContracts
  MaxAmount = 511
  PayloadBytes = 12
  KeyBytes = 2
  BerDepth = 8
  Texts <- MCTexts
  EvmCalls <- MCEvmCalls
  PerpsCalls <- MCPerpsCalls
  PerpsData <- MCPerpsData
  PerpsTrades <- MCPerpsTrades
  Jsons <- MCJsons
  IntentChecks <- MCIntentChecks
  Statements <- MCStatements
  Derivations <- MCDerivations
  BerValues <- MCBerValues
  Envelopes <- MCEnvelopes
INVARIANT TypeOK
INVARIANT AmountsExact
INVARIANT BurnWithinIntent
INVARIANT MoveWithinIntent
INVARIANT RedeemWithinIntent
INVARIANT DecodeFaithful
INVARIANT OneTradeSigned
INVARIANT CanonicalInjective
INVARIANT IntentAuthentic
INVARIANT SignaturesApart
INVARIANT KeysApart
INVARIANT DerOfBer
INVARIANT EnvelopeOpens
