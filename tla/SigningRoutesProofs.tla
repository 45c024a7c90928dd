------------------------ MODULE SigningRoutesProofs ------------------------
(***************************************************************************)
(* Theorems about SigningRoutes, for every set of requests and every width *)
(* of an integer: what an amount means, what a signed transaction does,    *)
(* and what a signature commits its key to.                                *)
(***************************************************************************)
EXTENDS SigningRoutes, NestedProofs

-----------------------------------------------------------------------------
(* What every state relates. *)

Kinds ==
  {"amount", "evm", "perps", "data", "json", "intent", "statement", "derivation", "ber", "envelope"}

\* The requests of a kind are those the routes accept, and a reply is the answer to
\* the request that waits.
Asked(kind, bodies) == request.kind = kind => request.body \in bodies
Answers(kind, answer) == reply.kind = kind => reply.body = answer

Related ==
  /\ request.kind \in Kinds \cup {"idle"}
  /\ reply.kind \in {"none", request.kind}
  /\ reply.kind # "idle"
  /\ Asked("amount", Parsers \X Texts)
  /\ Asked("evm", EvmCalls)
  /\ Asked("perps", PerpsCalls)
  /\ Asked("data", PerpsData)
  /\ Asked("json", Pairs(Jsons))
  /\ Asked("intent", IntentChecks)
  /\ Asked("statement", Pairs(Statements))
  /\ Asked("derivation", Pairs(Derivations))
  /\ Asked("ber", [value : BerValues, style : Styles])
  /\ Asked("envelope", [envelope : Envelopes, style : Styles])
  /\ Answers("amount", Parse(request.body))
  /\ Answers("evm", SignEvmTx(request.body))
  /\ Answers("perps", SignJupiterTx(request.body))
  /\ Answers("data", ReadArgs(request.body.disc, request.body.args))
  /\ Answers("json", <<Canonical(request.body[1]), Canonical(request.body[2])>>)
  /\ Answers("intent", Verified(request.body))
  /\ Answers("statement", <<Sign(request.body[1]), Sign(request.body[2])>>)
  /\ Answers("derivation", <<KeyFor(request.body[1][1], request.body[1][2]),
                              KeyFor(request.body[2][1], request.body[2][2])>>)
  /\ Answers("ber", Normalize(BerOf(request.body.value, request.body.style)))
  /\ Answers("envelope", Opened(request.body))

LEMMA RelatedInit == Init => Related
BY DEF Init, Related, Kinds, Asked, Answers

LEMMA ReceiveRelated ==
  ASSUME NEW kind \in Kinds, NEW bodies, Related, Receive(kind, bodies),
         kind = "amount" => bodies = Parsers \X Texts,
         kind = "evm" => bodies = EvmCalls,
         kind = "perps" => bodies = PerpsCalls,
         kind = "data" => bodies = PerpsData,
         kind = "json" => bodies = Pairs(Jsons),
         kind = "intent" => bodies = IntentChecks,
         kind = "statement" => bodies = Pairs(Statements),
         kind = "derivation" => bodies = Pairs(Derivations),
         kind = "ber" => bodies = [value : BerValues, style : Styles],
         kind = "envelope" => bodies = [envelope : Envelopes, style : Styles]
  PROVE  Related'
<1>1. PICK b \in bodies : request' = [kind |-> kind, body |-> b]
  BY DEF Receive
<1>2. request'.kind = kind /\ request'.body = b
  BY <1>1
<1>3. reply' = reply /\ reply.kind = "none"
  BY DEF Receive, Related, Kinds
<1> QED BY <1>2, <1>3, ZenonT(60) DEF Related, Kinds, Asked, Answers

LEMMA HandleRelated ==
  ASSUME NEW kind \in Kinds, NEW answer, Related, Handle(kind, answer),
         kind = "amount" => answer = Parse(request.body),
         kind = "evm" => answer = SignEvmTx(request.body),
         kind = "perps" => answer = SignJupiterTx(request.body),
         kind = "data" => answer = ReadArgs(request.body.disc, request.body.args),
         kind = "json" => answer = <<Canonical(request.body[1]), Canonical(request.body[2])>>,
         kind = "intent" => answer = Verified(request.body),
         kind = "statement" => answer = <<Sign(request.body[1]), Sign(request.body[2])>>,
         kind = "derivation" => answer = <<KeyFor(request.body[1][1], request.body[1][2]),
                                           KeyFor(request.body[2][1], request.body[2][2])>>,
         kind = "ber" => answer = Normalize(BerOf(request.body.value, request.body.style)),
         kind = "envelope" => answer = Opened(request.body)
  PROVE  Related'
<1>1. reply'.kind = kind /\ reply'.body = answer /\ request' = request /\ request.kind = kind
  BY DEF Handle
<1> QED BY <1>1 DEF Related, Kinds, Asked, Answers

LEMMA RelatedStep == Related /\ [Next]_vars => Related'
<1> SUFFICES ASSUME Related, [Next]_vars PROVE Related'
  OBVIOUS
<1>1. CASE ReceiveAmount
  BY <1>1, ReceiveRelated, Zenon DEF ReceiveAmount, Kinds
<1>2. CASE ReceiveEvm
  BY <1>2, ReceiveRelated DEF ReceiveEvm, Kinds
<1>3. CASE ReceivePerps
  BY <1>3, ReceiveRelated DEF ReceivePerps, Kinds
<1>4. CASE ReceiveData
  BY <1>4, ReceiveRelated DEF ReceiveData, Kinds
<1>5. CASE ReceiveJson
  BY <1>5, ReceiveRelated DEF ReceiveJson, Kinds
<1>6. CASE ReceiveIntent
  BY <1>6, ReceiveRelated DEF ReceiveIntent, Kinds
<1>7. CASE ReceiveStatement
  BY <1>7, ReceiveRelated DEF ReceiveStatement, Kinds
<1>8. CASE ReceiveDerivation
  BY <1>8, ReceiveRelated DEF ReceiveDerivation, Kinds
<1>9. CASE ReceiveBer
  BY <1>9, ReceiveRelated DEF ReceiveBer, Kinds
<1>10. CASE ReceiveEnvelope
  BY <1>10, ReceiveRelated DEF ReceiveEnvelope, Kinds
<1>11. CASE HandleAmount
  BY <1>11, HandleRelated DEF HandleAmount, Kinds
<1>12. CASE HandleEvm
  BY <1>12, HandleRelated DEF HandleEvm, Kinds
<1>13. CASE HandlePerps
  BY <1>13, HandleRelated DEF HandlePerps, Kinds
<1>14. CASE HandleData
  BY <1>14, HandleRelated DEF HandleData, Kinds
<1>15. CASE HandleJson
  BY <1>15, HandleRelated DEF HandleJson, Kinds
<1>16. CASE HandleIntent
  BY <1>16, HandleRelated DEF HandleIntent, Kinds
<1>17. CASE HandleStatement
  BY <1>17, HandleRelated DEF HandleStatement, Kinds
<1>18. CASE HandleDerivation
  BY <1>18, HandleRelated DEF HandleDerivation, Kinds
<1>19. CASE HandleBer
  BY <1>19, HandleRelated DEF HandleBer, Kinds
<1>20. CASE HandleEnvelope
  BY <1>20, HandleRelated DEF HandleEnvelope, Kinds
<1>21. CASE Answered
  BY <1>21 DEF Answered, Related, Kinds, Asked, Answers
<1>22. CASE UNCHANGED vars
  BY <1>22 DEF vars, Related, Asked, Answers
<1> QED
  BY <1>1, <1>2, <1>3, <1>4, <1>5, <1>6, <1>7, <1>8, <1>9, <1>10, <1>11, <1>12, <1>13, <1>14,
     <1>15, <1>16, <1>17, <1>18, <1>19, <1>20, <1>21, <1>22 DEF Next

LEMMA RelatedAlways == Spec => []Related
BY RelatedInit, RelatedStep, PTL DEF Spec

-----------------------------------------------------------------------------
(* Type correctness, and the parsers. *)

LEMMA ParserRange ==
  ASSUME NEW b \in Parsers \X Texts
  PROVE  /\ b[1][1] \in {"radix", "base units", "integer", "scaled"}
         /\ b[1][2] \in 0..Decimals
         /\ b[1][1] # "scaled" => b[1][2] = 0
         /\ b[2] \in Seq(Char)
<1>1. b[1] \in Parsers /\ b[2] \in Texts
  OBVIOUS
<1>2. 0 \in 0..Decimals
  BY AmountsAssumption
<1>3. CASE b[1] \in {"radix", "base units", "integer"} \X {0}
  BY <1>1, <1>2, <1>3, TextsAssumption
<1>4. CASE b[1] \in {"scaled"} \X (0..Decimals)
  BY <1>1, <1>4, TextsAssumption
<1> QED BY <1>1, <1>3, <1>4 DEF Parsers

LEMMA ParseFits ==
  ASSUME NEW b \in Parsers \X Texts
  PROVE  Parse(b) \in {Refused} \cup 0..MaxU256
<1>1. FromStrRadix(b[2]) \in {Refused} \cup 0..MaxU256
  BY ParserRange, RadixParsed
<1>2. BaseUnits(b[2]) \in {Refused} \cup 0..MaxU256
  BY ParserRange, BaseUnitsParsed
<1>3. ParseInteger(b[2]) \in {Refused} \cup 0..MaxU256
  BY <1>1 DEF ParseInteger
<1>4. ParseScaled(b[2], b[1][2]) \in {Refused} \cup 0..MaxU256
  BY ParserRange, ScaledParsed
<1> QED BY <1>1, <1>2, <1>3, <1>4, ParserRange DEF Parse

LEMMA EvmVerdict ==
  ASSUME NEW req
  PROVE  SignEvmTx(req) \in {"signed", "refused", "abort"}
<1>1. \A args, statics, i : ArrayVerdict(args, statics, i) \in {"ok", "refused", "abort"}
  BY DEF ArrayVerdict
<1>2. \A verdict \in {"ok", "refused", "abort"} : \A allowed :
        WithArray(verdict, allowed) \in {"signed", "refused", "abort"}
  BY DEF WithArray
<1>3. \A allowed : SignedIf(allowed) \in {"signed", "refused"}
  BY DEF SignedIf
<1> QED BY <1>1, <1>2, <1>3 DEF SignEvmTx

\* Every reachable state is well typed; in particular no parser leaves the range of
\* the unsigned integer it parses to.
THEOREM TypesHold == Spec => []TypeOK
<1>1. Related => TypeOK
  <2> SUFFICES ASSUME Related PROVE TypeOK
    OBVIOUS
  <2>1. reply.kind = "amount" => request.body \in Parsers \X Texts /\ reply.body = Parse(request.body)
    BY DEF Related, Asked, Answers
  <2>2. reply.kind = "evm" => reply.body = SignEvmTx(request.body)
    BY DEF Related, Answers
  <2>3. Answer("amount") => reply.body \in {Refused} \cup 0..MaxU256
    BY <2>1, ParseFits DEF Answer
  <2>4. Answer("evm") => reply.body \in {"signed", "refused", "abort"}
    BY <2>2, EvmVerdict DEF Answer
  <2>5. request.kind \in Kinds \cup {"idle"} /\ reply.kind \in {"none", request.kind}
    BY DEF Related
  <2> QED BY <2>3, <2>4, <2>5 DEF TypeOK, Kinds
<1> QED BY <1>1, RelatedAlways, PTL

\* What AmountsExact says of one parser and text.
Exact(parser, d, s, n) ==
  LET WellFormed ==
        /\ IsDecimal(s)
        /\ parser \in {"radix", "integer"} => DotAt(s) = 0
        /\ parser \in {"integer", "scaled"} => Whole(s) # <<>>
        /\ parser = "scaled" /\ DotAt(s) # 0 => Fraction(s) # <<>>
        /\ parser = "base units" => Len(Fraction(s)) <= Decimals
  IN IF n = Refused
     THEN ~WellFormed \/ Numerator(s) * Power(10, d) >= (MaxU256 + 1) * Power(10, Len(Fraction(s)))
     ELSE /\ WellFormed /\ RoundsTo(s, d, n)
          /\ parser # "scaled" => IsExactly(s, d, n)

LEMMA ExactRounds ==
  ASSUME NEW s \in Seq(Char), NEW d \in Nat, NEW n \in Nat, IsDecimal(s), IsExactly(s, d, n)
  PROVE  RoundsTo(s, d, n)
<1>1. Numerator(s) \in Nat
  BY Parts, DigitText DEF Numerator, IsDecimal
<1> DEFINE x == Numerator(s) * Power(10, d)
           p == Power(10, Len(Fraction(s)))
<1>2. p \in Nat \ {0} /\ Power(10, d) \in Nat
  BY Parts, TenPower
<1>3. x \in Nat /\ n * p = x
  BY <1>1, <1>2 DEF IsExactly
<1> HIDE DEF x, p
<1>4. n * p <= x /\ x < (n + 1) * p
  <2>1. (n + 1) * p = n * p + p
    BY <1>2
  <2> QED BY <1>2, <1>3, <2>1
<1> QED BY <1>4 DEF RoundsTo, x, p

\* from_str_radix takes the text for the number it is.
LEMMA RadixExact ==
  ASSUME NEW s \in Seq(Char)
  PROVE  LET n == FromStrRadix(s)
         IN /\ n # Refused => /\ n \in Nat /\ IsDecimal(s) /\ DotAt(s) = 0 /\ Whole(s) = s
                              /\ n = Numerator(s) /\ IsExactly(s, 0, n)
            /\ n = Refused /\ IsDecimal(s) /\ DotAt(s) = 0 =>
                 Numerator(s) * Power(10, 0) >= (MaxU256 + 1) * Power(10, Len(Fraction(s)))
<1> DEFINE n == FromStrRadix(s)
<1>1. MaxU256 \in Nat /\ Power(10, 0) = 1
  BY AmountsAssumption, PowerStep
<1>2. CASE n # Refused
  <2>1. Digits(s) /\ n = Number(s) /\ Number(s) \in Nat
    BY <1>2, RadixParsed, DigitText
  <2>2. DotAt(s) = 0
    BY <2>1, DigitsNoPoint
  <2>3. IsDecimal(s) /\ Numerator(s) = Number(s) /\ Len(Fraction(s)) = 0 /\ Whole(s) = s
    BY <2>1, <2>2, NoPoint
  <2> QED BY <1>1, <1>2, <2>1, <2>2, <2>3 DEF IsExactly
<1>3. ASSUME n = Refused, IsDecimal(s), DotAt(s) = 0
      PROVE  Numerator(s) * Power(10, 0) >= (MaxU256 + 1) * Power(10, Len(Fraction(s)))
  <2>1. Digits(s) /\ Numerator(s) = Number(s) /\ Len(Fraction(s)) = 0
    BY <1>3, NoPoint
  <2>2. Number(s) \in Nat /\ Number(s) > MaxU256
    BY <1>3, <2>1, RadixParsed, DigitText
  <2> QED BY <1>1, <2>1, <2>2
<1> QED BY <1>2, <1>3

LEMMA ParsersExact ==
  ASSUME NEW b \in Parsers \X Texts
  PROVE  Exact(b[1][1], IF b[1][1] = "base units" THEN Decimals ELSE b[1][2], b[2], Parse(b))
<1> DEFINE parser == b[1][1]
           s == b[2]
           n == Parse(b)
<1>0. /\ parser \in {"radix", "base units", "integer", "scaled"} /\ b[1][2] \in 0..Decimals
      /\ parser # "scaled" => b[1][2] = 0
      /\ s \in Seq(Char) /\ Decimals \in Nat /\ MaxU256 \in Nat
      /\ n \in {Refused} \cup 0..MaxU256
  BY ParserRange, ParseFits, AmountsAssumption
<1>1. CASE parser = "radix"
  <2>1. n = FromStrRadix(s) /\ b[1][2] = 0
    BY <1>0, <1>1 DEF Parse
  <2> HIDE DEF parser, s, n
  <2>2. n # Refused => RoundsTo(s, 0, n)
    BY <1>0, <2>1, RadixExact, ExactRounds
  <2>3. Exact(parser, 0, s, n)
    BY <1>0, <1>1, <2>1, <2>2, RadixExact DEF Exact
  <2> QED BY <1>0, <1>1, <2>1, <2>3 DEF parser, s, n
<1>2. CASE parser = "integer"
  <2>1. n = ParseInteger(s) /\ b[1][2] = 0
    BY <1>0, <1>2 DEF Parse
  <2> HIDE DEF parser, s, n
  <2>2. s = <<>> => Whole(s) = <<>> /\ n = Refused
    <3>1. s = <<>> => DotAt(s) = 0
      <4>1. s = <<>> => Digits(s)
        BY DEF Digits
      <4> QED BY <1>0, <4>1, DigitsNoPoint
    <3> QED BY <1>0, <2>1, <3>1, NoPoint DEF ParseInteger
  <2>3. s # <<>> => n = FromStrRadix(s)
    BY <2>1 DEF ParseInteger
  <2>4. n # Refused => RoundsTo(s, 0, n)
    BY <1>0, <2>2, <2>3, RadixExact, ExactRounds
  <2>5. Exact(parser, 0, s, n)
    BY <1>0, <1>2, <2>2, <2>3, <2>4, RadixExact DEF Exact
  <2> QED BY <1>0, <1>2, <2>1, <2>5 DEF parser, s, n
<1>3. CASE parser = "base units"
  <2>1. n = BaseUnits(s)
    BY <1>0, <1>3 DEF Parse
  <2> HIDE DEF parser, s, n
  <2>2. n # Refused => IsDecimal(s) /\ Len(Fraction(s)) <= Decimals /\ IsExactly(s, Decimals, n)
    BY <1>0, <2>1, BaseUnitsParsed
  <2>3. n = Refused => \/ ~IsDecimal(s) \/ Len(Fraction(s)) > Decimals
                       \/ Numerator(s) * Power(10, Decimals) >= (MaxU256 + 1) * Power(10, Len(Fraction(s)))
    BY <1>0, <2>1, BaseUnitsParsed
  <2>4. Len(Fraction(s)) \in Nat
    BY <1>0, Parts
  <2>5. n # Refused => RoundsTo(s, Decimals, n)
    <3>1. n # Refused => n \in 0..MaxU256
      BY <1>0, Zenon
    <3>2. MaxU256 \in Nat
      BY AmountsAssumption
    <3>3. n # Refused => n \in Nat
      BY <3>1, <3>2
    <3> QED BY <1>0, <2>2, <3>3, ExactRounds
  <2>6. n # Refused => Exact(parser, Decimals, s, n)
    BY <1>3, <2>2, <2>5 DEF Exact
  <2>7. n = Refused => Exact(parser, Decimals, s, n)
    <3> DEFINE x == Numerator(s) * Power(10, Decimals) >= (MaxU256 + 1) * Power(10, Len(Fraction(s)))
               L == Len(Fraction(s))
    <3>1. n = Refused => ~IsDecimal(s) \/ L > Decimals \/ x
      BY <2>3
    <3>2. L \in Nat /\ Decimals \in Nat
      BY <2>4, AmountsAssumption
    <3> HIDE DEF x, L
    <3>3. L > Decimals => ~(L <= Decimals)
      BY <3>2
    <3> QED BY <1>3, <3>1, <3>3 DEF Exact, x, L
  <2> QED BY <1>3, <2>6, <2>7 DEF parser, s, n
<1>4. CASE parser = "scaled"
  <2> DEFINE d == b[1][2]
  <2>1. n = ParseScaled(s, d) /\ d \in 0..Decimals
    BY <1>0, <1>4 DEF Parse
  <2> HIDE DEF parser, s, n, d
  <2>2. Exact(parser, d, s, n)
    BY <1>0, <1>4, <2>1, ScaledParsed DEF Exact
  <2> QED BY <1>4, <2>2 DEF parser, s, n, d
<1> QED BY <1>0, <1>1, <1>2, <1>3, <1>4

\* The parsers give what the text means: exactly, or for scaled decimals rounded
\* down, and they refuse nothing else than the texts that mean no amount of the type.
THEOREM AmountsHold == Spec => []AmountsExact
<1>1. Related => AmountsExact
  <2> SUFFICES ASSUME Related, Answer("amount")
               PROVE  Exact(request.body[1][1],
                            IF request.body[1][1] = "base units" THEN Decimals ELSE request.body[1][2],
                            request.body[2], reply.body)
    BY Zenon DEF AmountsExact, Exact
  <2>1. request.body \in Parsers \X Texts /\ reply.body = Parse(request.body)
    BY DEF Related, Asked, Answers, Answer
  <2> QED BY <2>1, ParsersExact
<1> QED BY <1>1, RelatedAlways, PTL

-----------------------------------------------------------------------------
(* POST /v1/sign/evm-tx. *)

LEMMA WordNat ==
  ASSUME NEW args \in Seq(Byte), NEW off \in Nat, off + WordBytes <= Len(args)
  PROVE  WordAt(args, off) \in Nat
<1>1. WordBytes \in Nat /\ Len(args) \in Nat
  BY EvmAssumption
<1>2. \A i \in (off + 1)..(off + WordBytes) : args[i] \in Byte
  BY <1>1
<1>3. SubSeq(args, off + 1, off + WordBytes) \in Seq(Byte)
  BY <1>1, <1>2, SubSeqProperties
<1> QED BY <1>3, EndianRange DEF WordAt

LEMMA ArgumentNat ==
  ASSUME NEW args \in Seq(Byte), NEW n \in Nat, HasWords(args, n), NEW i \in 0..(n - 1)
  PROVE  Word(args, i) \in Nat
<1>1. WordBytes \in Nat
  BY EvmAssumption
<1>2. Bytes(i) \in Nat /\ Bytes(i) + WordBytes <= Bytes(n)
  <2>1. Bytes(i) + WordBytes = (i + 1) * WordBytes /\ i + 1 <= n /\ i + 1 \in Nat
    BY <1>1 DEF Bytes
  <2>2. (i + 1) * WordBytes <= n * WordBytes
    BY <1>1, <2>1, Scale
  <2> QED BY <1>1, <2>1, <2>2 DEF Bytes
<1>3. Bytes(i) + WordBytes <= Len(args)
  BY <1>1, <1>2 DEF HasWords, Bytes
<1> QED BY <1>2, <1>3, WordNat DEF Word

\* What each kind of intent admits.
LEMMA EvmSigned ==
  ASSUME NEW req, SignEvmTx(req) = "signed"
  PROVE  LET tx == req.tx
             intent == req.intent
         IN /\ intent.action \in Withdrawals => BurnAllowed(tx, intent)
            /\ intent.action = "pusd_wrap" => WrapAllowed(tx, intent)
            /\ intent.action = "erc20_transfer" => TransferAllowed(tx, intent)
            /\ intent.action = "ctf_redeem" =>
                 CallsRedeem(tx) /\ ArrayVerdict(tx.args, 4, 3) = "ok" /\ RedeemAllowed(tx, intent)
            /\ intent.action = "neg_risk_redeem" =>
                 CallsNegRisk(tx) /\ ArrayVerdict(tx.args, 2, 1) = "ok" /\ NegRiskAllowed(tx, intent)
<1> DEFINE tx == req.tx
           intent == req.intent
<1>1. \A args, statics, i : ArrayVerdict(args, statics, i) \in {"ok", "refused", "abort"}
  BY DEF ArrayVerdict
<1>2. \A verdict \in {"ok", "refused", "abort"} : \A allowed :
        WithArray(verdict, allowed) = "signed" => verdict = "ok" /\ allowed
  BY DEF WithArray
<1>3. \A allowed : SignedIf(allowed) = "signed" => allowed
  BY DEF SignedIf
<1>4. CASE intent.action \in Withdrawals
  <2>1. intent.action \notin {"pusd_wrap", "erc20_transfer", "ctf_redeem", "neg_risk_redeem"}
    BY <1>4 DEF Withdrawals
  <2>2. SignedIf(BurnAllowed(tx, intent)) = "signed"
    BY <1>4, <2>1 DEF SignEvmTx
  <2> QED BY <1>3, <2>1, <2>2
<1>5. CASE intent.action \notin Withdrawals
  <2>1. intent.action = "pusd_wrap" => SignedIf(WrapAllowed(tx, intent)) = "signed"
    BY <1>5 DEF SignEvmTx
  <2>2. intent.action = "erc20_transfer" => SignedIf(TransferAllowed(tx, intent)) = "signed"
    BY <1>5 DEF SignEvmTx
  <2>3. intent.action = "ctf_redeem" =>
          CallsRedeem(tx) /\ WithArray(ArrayVerdict(tx.args, 4, 3), RedeemAllowed(tx, intent)) = "signed"
    BY <1>5 DEF SignEvmTx
  <2>4. intent.action = "neg_risk_redeem" =>
          CallsNegRisk(tx) /\ WithArray(ArrayVerdict(tx.args, 2, 1), NegRiskAllowed(tx, intent)) = "signed"
    BY <1>5 DEF SignEvmTx
  <2> QED BY <1>1, <1>2, <1>3, <1>5, <2>1, <2>2, <2>3, <2>4
<1> QED BY <1>4, <1>5

LEMMA SignedCall ==
  ASSUME Related, Signs
  PROVE  /\ request.body \in EvmCalls /\ SignEvmTx(request.body) = "signed"
         /\ Effect.args \in Seq(Byte)
BY EvmCallsAssumption DEF Related, Asked, Answers, Signs, Answer, Effect

\* Tokens that move are those named, to the account named, and as many.
THEOREM MovesHold == Spec => []MoveWithinIntent
<1>1. ASSUME Related PROVE MoveWithinIntent
  <2>1. ASSUME Signs, Intent.action = "erc20_transfer"
        PROVE  /\ Effect.to = Intent.token
               /\ Address(Effect.args, 0) = Intent.recipient
               /\ Word(Effect.args, 1) = Numerator(Intent.amount)
    <3>1. /\ Effect.to = Intent.token
          /\ HasWords(Effect.args, 2)
          /\ Address(Effect.args, 0) = Intent.recipient
          /\ Word(Effect.args, 1) = FromStrRadix(Intent.amount)
      BY <1>1, <2>1, SignedCall, EvmSigned DEF TransferAllowed, Effect, Intent
    <3>2. Intent.amount \in Seq(Char) /\ Effect.args \in Seq(Byte)
      BY <1>1, <2>1, SignedCall, EvmCallsAssumption DEF Intent
    <3>3. Word(Effect.args, 1) \in Nat
      BY <3>1, <3>2, ArgumentNat
    <3>4. FromStrRadix(Intent.amount) # Refused
      BY <3>1, <3>3 DEF Refused
    <3> QED BY <3>1, <3>2, <3>4, RadixExact
  <2>2. ASSUME Signs, Intent.action = "pusd_wrap"
        PROVE  /\ Address(Effect.args, 0) = Intent.source_token
               /\ Address(Effect.args, 1) = Intent.deposit_wallet
               /\ Word(Effect.args, 2) <= Numerator(Intent.max_amount)
    <3>1. /\ HasWords(Effect.args, 3)
          /\ Address(Effect.args, 0) = Intent.source_token
          /\ Address(Effect.args, 1) = Intent.deposit_wallet
          /\ Word(Effect.args, 2) <= FromStrRadix(Intent.max_amount)
      BY <1>1, <2>2, SignedCall, EvmSigned DEF WrapAllowed, Effect, Intent
    <3>2. Intent.max_amount \in Seq(Char) /\ Effect.args \in Seq(Byte)
      BY <1>1, <2>2, SignedCall, EvmCallsAssumption DEF Intent
    <3>3. Word(Effect.args, 2) \in Nat
      BY <3>1, <3>2, ArgumentNat
    <3>4. FromStrRadix(Intent.max_amount) # Refused
      BY <3>1, <3>3 DEF Refused
    <3> QED BY <3>1, <3>2, <3>4, RadixExact
  <2> QED BY <2>1, <2>2 DEF MoveWithinIntent
<1> QED BY <1>1, RelatedAlways, PTL

\* A burn takes no more than the amount of the intent, to the account it names.
THEOREM BurnsHold == Spec => []BurnWithinIntent
<1>1. ASSUME Related, Signs, Intent.action \in Withdrawals
      PROVE  LET args == Effect.args
                 text == IF "amount_wei" \in DOMAIN Intent THEN Intent.amount_wei ELSE Intent.amount
                 units == IF "amount_wei" \in DOMAIN Intent THEN 0 ELSE Decimals
             IN /\ Effect.to = TokenMessenger
                /\ <<Effect.chain, Address(args, 3)>> \in {<<Polygon, PolygonUsdc>>, <<Arbitrum, ArbitrumUsdc>>}
                /\ U32(args, 1) = Solana
                /\ Word(args, 2) = Ata(Destination(Intent))
                /\ Word(args, 0) * Power(10, Len(Fraction(text))) <= Numerator(text) * Power(10, units)
  <2> DEFINE args == Effect.args
             text == IF "amount_wei" \in DOMAIN Intent THEN Intent.amount_wei ELSE Intent.amount
             units == IF "amount_wei" \in DOMAIN Intent THEN 0 ELSE Decimals
             max == AmountMax(Intent)
             moved == Word(args, 0)
  <2>1. BurnAllowed(Effect, Intent)
    BY <1>1, SignedCall, EvmSigned DEF Effect, Intent
  <2>2. /\ Effect.to = TokenMessenger
        /\ HasWords(args, 7)
        /\ Effect.chain \in {Polygon, Arbitrum}
        /\ Address(args, 3) = BurnToken(Effect.chain)
        /\ U32(args, 1) = Solana
        /\ moved <= max
        /\ Word(args, 2) = Ata(Destination(Intent))
    BY <2>1 DEF BurnAllowed
  <2>3. <<Effect.chain, Address(args, 3)>> \in {<<Polygon, PolygonUsdc>>, <<Arbitrum, ArbitrumUsdc>>}
    BY <2>2 DEF BurnToken, Polygon, Arbitrum
  <2>4. args \in Seq(Byte)
    BY <1>1, SignedCall
  <2>5. moved \in Nat
    BY <2>2, <2>4, ArgumentNat
  <2>6. max # Refused
    BY <2>2, <2>5 DEF Refused
  <2>7. \A f \in {"amount_wei", "amount"} \cap DOMAIN Intent : Intent[f] \in Seq(Char)
    BY <1>1, SignedCall, EvmCallsAssumption DEF Intent
  <2>8. text \in Seq(Char) /\ max \in Nat /\ IsDecimal(text) /\ IsExactly(text, units, max)
    <3>1. CASE "amount_wei" \in DOMAIN Intent
      <4>1. max = FromStrRadix(text) /\ text \in Seq(Char) /\ units = 0
        BY <2>7, <3>1 DEF AmountMax
      <4> HIDE DEF max, text, units
      <4> QED BY <2>6, <4>1, RadixExact
    <3>2. CASE "amount_wei" \notin DOMAIN Intent
      <4>1. "amount" \in DOMAIN Intent /\ max = BaseUnits(text)
        BY <2>6, <3>2 DEF AmountMax
      <4>2. text \in Seq(Char) /\ units = Decimals
        BY <2>7, <3>2, <4>1
      <4> HIDE DEF max, text, units
      <4>3. max \in {Refused} \cup 0..MaxU256 /\ IsDecimal(text) /\ IsExactly(text, Decimals, max)
        BY <2>6, <4>1, <4>2, BaseUnitsParsed
      <4>4. max \in Nat
        BY <2>6, <4>3, AmountsAssumption
      <4> QED BY <4>2, <4>3, <4>4
    <3> QED BY <3>1, <3>2
  <2> DEFINE p == Power(10, Len(Fraction(text)))
  <2>9. p \in Nat
    BY <2>8, Parts, TenPower
  <2>10. max * p = Numerator(text) * Power(10, units)
    BY <2>8 DEF IsExactly
  <2> HIDE DEF moved, max, p
  <2>11. moved * p <= max * p
    BY <2>2, <2>5, <2>8, <2>9, Scale
  <2>12. moved * p <= Numerator(text) * Power(10, units)
    <3> HIDE DEF text, units
    <3> QED BY <2>10, <2>11
  <2> QED BY <2>2, <2>3, <2>12 DEF moved, p
<1>2. Related => BurnWithinIntent
  BY <1>1, Zenon DEF BurnWithinIntent
<1> QED BY <1>2, RelatedAlways, PTL

-----------------------------------------------------------------------------
(* Redemptions: the array the decoder read is the array the contract reads. *)

\* Neighbouring words after an offset.
LEMMA WordAfter ==
  ASSUME NEW args \in Seq(Byte), NEW off \in Nat, NEW k \in Nat,
         off + (k + 1) * WordBytes <= Len(args), WordBytes # 0
  PROVE  SubSeq(SubSeq(args, off + 1, Len(args)), k * WordBytes + 1, (k + 1) * WordBytes)
           = SubSeq(args, off + k * WordBytes + 1, off + (k + 1) * WordBytes)
<1> DEFINE w == WordBytes
           L == Len(args)
           i == off + 1
           m == k * w + 1
           n == (k + 1) * w
<1>1. w \in Nat \ {0} /\ L \in Nat
  BY EvmAssumption
<1>2. k * w \in Nat /\ n = k * w + w
  BY <1>1
<1> HIDE DEF w
<1>3. i \in 1..L /\ L \in 1..L
  BY <1>1, <1>2 DEF w
<1>4. L - i + 1 = L - off /\ n <= L - off
  BY <1>1, <1>2 DEF w
<1>5. m \in 1..(L - i + 1) /\ n \in 1..(L - i + 1)
  BY <1>1, <1>2, <1>4
<1>6. SubSeq(SubSeq(args, i, L), m, n) = SubSeq(args, i + m - 1, i + n - 1)
  <2> HIDE DEF i, m, n, L
  <2> QED BY <1>3, <1>5, SubSeqOfSubSeq
<1>7. i + m - 1 = off + k * w + 1 /\ i + n - 1 = off + n
  BY <1>1, <1>2
<1> QED BY <1>6, <1>7 DEF w

\* Where the decoder accepts, it reads what the offset points to.
LEMMA ArrayRead ==
  ASSUME NEW args \in Seq(Byte), NEW statics \in Nat, NEW i \in Nat,
         ArrayVerdict(args, statics, i) = "ok"
  PROVE  LET count == WordAt(args, Word(args, i))
         IN /\ count \in Nat /\ HasWords(args, i + 1)
            /\ Effective(args, i) = [k \in 0..(count - 1) |-> UintArray(args, i)[k + 1]]
            /\ UintArray(args, i) \in [1..count -> Nat]
<1> DEFINE off == Word(args, i)
           count == WordAt(args, off)
           w == WordBytes
           L == Len(args)
<1>1. /\ HasWords(args, i + 1)
      /\ ~(Len(args) < off + WordBytes)
      /\ Len(args) >= off + WordBytes + Bytes(count)
  BY DEF ArrayVerdict
<1>2. w \in Nat /\ L \in Nat
  BY EvmAssumption
<1>3. off \in Nat
  BY <1>1, ArgumentNat
<1>4. off + w <= L /\ count \in Nat
  BY <1>1, <1>2, <1>3, WordNat
<1>5. w # 0
  BY EvmAssumption
<1> HIDE DEF off, count
<1>6. \A k \in 0..count : off + (k + 1) * w <= L
  <2> TAKE k \in 0..count
  <2>1. (k + 1) * w = w + k * w /\ k * w <= count * w /\ k * w \in Nat /\ count * w \in Nat
    <3>1. k \in Nat /\ k <= count
      BY <1>4
    <3>2. k * w <= count * w
      BY <1>2, <1>4, <3>1, Scale
    <3> QED BY <1>2, <1>4, <3>1, <3>2
  <2>2. L >= off + w + count * w
    BY <1>1 DEF Bytes
  <2> QED BY <1>2, <1>3, <2>1, <2>2
<1> DEFINE bytes == SubSeq(args, off + 1, L)
<1>7. \A k \in 0..count :
        BigEndian(SubSeq(bytes, k * w + 1, (k + 1) * w)) = WordAt(args, off + Bytes(k))
  <2> TAKE k \in 0..count
  <2>1. k \in Nat
    BY <1>4
  <2>2. SubSeq(bytes, k * w + 1, (k + 1) * w) = SubSeq(args, off + k * w + 1, off + (k + 1) * w)
    BY <1>3, <1>5, <1>6, <2>1, WordAfter
  <2>3. off + (k + 1) * w = off + k * w + w
    BY <1>2, <1>3, <2>1
  <2> QED BY <2>2, <2>3 DEF WordAt, Bytes
<1>8. BigEndian(SubSeq(bytes, 1, w)) = count
  <2>1. 0 \in 0..count /\ 0 * w + 1 = 1 /\ (0 + 1) * w = w /\ off + Bytes(0) = off
    BY <1>2, <1>3, <1>4 DEF Bytes
  <2>2. BigEndian(SubSeq(bytes, 0 * w + 1, (0 + 1) * w)) = WordAt(args, off + Bytes(0))
    BY <1>7, <2>1
  <2> QED BY <2>1, <2>2 DEF count
<1>9. UintArray(args, i) = [k \in 1..count |-> WordAt(args, off + Bytes(k))]
  BY DEF UintArray, off, count
<1>10. \A k \in 1..count : WordAt(args, off + Bytes(k)) \in Nat
  <2> TAKE k \in 1..count
  <2>1. off + (k + 1) * w <= L /\ k \in Nat
    BY <1>4, <1>6
  <2>2. off + Bytes(k) \in Nat /\ off + Bytes(k) + w = off + (k + 1) * w
    BY <1>2, <1>3, <2>1 DEF Bytes
  <2> QED BY <2>1, <2>2, WordNat
<1>11. Effective(args, i) = [k \in 0..(count - 1) |-> BigEndian(SubSeq(bytes, (k + 1) * w + 1, (k + 2) * w))]
  BY <1>8 DEF Effective, off
<1>12. \A k \in 0..(count - 1) :
         BigEndian(SubSeq(bytes, (k + 1) * w + 1, (k + 2) * w)) = UintArray(args, i)[k + 1]
  <2> TAKE k \in 0..(count - 1)
  <2>1. k + 1 \in 1..count /\ k + 1 \in 0..count /\ (k + 1) + 1 = k + 2
    BY <1>4
  <2>2. BigEndian(SubSeq(bytes, (k + 1) * w + 1, ((k + 1) + 1) * w)) = WordAt(args, off + Bytes(k + 1))
    BY <1>7, <2>1
  <2> HIDE DEF bytes
  <2> QED BY <1>9, <2>1, <2>2
<1>13. Effective(args, i) = [k \in 0..(count - 1) |-> UintArray(args, i)[k + 1]]
  BY <1>11, <1>12
<1> QED BY <1>1, <1>4, <1>9, <1>10, <1>13 DEF off, count

LEMMA NoOutcome == Outcomes(0) = {}
<1> SUFFICES ASSUME NEW k \in 0..0, (0 \div Power(2, k)) % 2 = 1 PROVE FALSE
  BY DEF Outcomes
<1>1. Power(2, k) \in Nat \ {0}
  BY PowerPositive
<1> DEFINE p == Power(2, k)
<1> HIDE DEF p
<1>2. 0 \div p = 0
  BY <1>1 DEF p
<1> QED BY <1>2 DEF p

\* A redemption is signed only if the contract redeems the outcome of the intent and
\* nothing of any other, wherever its array is.
THEOREM RedemptionsHold == Spec => []RedeemWithinIntent
<1>1. ASSUME Related, Signs, Intent.action = "ctf_redeem"
      PROVE  LET sets == Effective(Effect.args, 3)
             IN /\ \A k \in DOMAIN sets : Outcomes(sets[k]) \subseteq {Intent.outcome_index}
                /\ \E k \in DOMAIN sets : sets[k] # 0
                /\ Word(Effect.args, 2) = Intent.condition_id
  <2> DEFINE args == Effect.args
             sets == Effective(args, 3)
             U == UintArray(args, 3)
             count == WordAt(args, Word(args, 3))
             o == Intent.outcome_index
  <2>1. args \in Seq(Byte) /\ ArrayVerdict(args, 4, 3) = "ok" /\ RedeemAllowed(Effect, Intent)
    BY <1>1, SignedCall, EvmSigned DEF Effect, Intent
  <2>2. Word(args, 2) = Intent.condition_id /\ UNION {Outcomes(s) : s \in Range(U)} = {o}
    BY <2>1 DEF RedeemAllowed
  <2>3. count \in Nat /\ sets = [k \in 0..(count - 1) |-> U[k + 1]] /\ U \in [1..count -> Nat]
    BY <2>1, ArrayRead
  <2> HIDE DEF args, sets, U, count, o
  <2>4. \A j \in 1..count : U[j] \in Range(U)
    BY <2>3 DEF Range
  <2>5. ASSUME NEW k \in DOMAIN sets PROVE Outcomes(sets[k]) \subseteq {o}
    <3>1. k \in 0..(count - 1) /\ sets[k] = U[k + 1] /\ k + 1 \in 1..count
      BY <2>3, <2>5
    <3>2. U[k + 1] \in Range(U)
      BY <2>4, <3>1
    <3> QED BY <2>2, <3>1, <3>2
  <2>6. \E k \in DOMAIN sets : sets[k] # 0
    <3>1. PICK s \in Range(U) : o \in Outcomes(s)
      BY <2>2
    <3>2. PICK j \in 1..count : s = U[j]
      BY <2>3, <3>1 DEF Range
    <3>3. s # 0
      BY <3>1, NoOutcome
    <3>4. j - 1 \in 0..(count - 1) /\ (j - 1) + 1 = j
      BY <2>3, <3>2
    <3>5. sets[j - 1] = U[(j - 1) + 1] /\ j - 1 \in DOMAIN sets
      BY <2>3, <3>4
    <3> QED BY <3>2, <3>3, <3>4, <3>5
  <2> QED BY <2>2, <2>5, <2>6 DEF args, sets, o
<1>2. ASSUME Related, Signs, Intent.action = "neg_risk_redeem"
      PROVE  LET amounts == Effective(Effect.args, 1)
             IN /\ \A k \in DOMAIN amounts \ {Intent.outcome_index} : amounts[k] = 0
                /\ amounts[Intent.outcome_index] <= Numerator(Intent.max_amount)
                /\ Word(Effect.args, 0) = Intent.condition_id
  <2> DEFINE args == Effect.args
             amounts == Effective(args, 1)
             U == UintArray(args, 1)
             count == WordAt(args, Word(args, 1))
             o == Intent.outcome_index
             mine == o + 1
             max == FromStrRadix(Intent.max_amount)
  <2>1. args \in Seq(Byte) /\ ArrayVerdict(args, 2, 1) = "ok" /\ NegRiskAllowed(Effect, Intent)
    BY <1>2, SignedCall, EvmSigned DEF Effect, Intent
  <2>2. /\ Word(args, 0) = Intent.condition_id
        /\ mine \in DOMAIN U
        /\ \A i \in DOMAIN U \ {mine} : U[i] = 0
        /\ U[mine] <= max
    BY <2>1 DEF NegRiskAllowed
  <2>3. count \in Nat /\ amounts = [k \in 0..(count - 1) |-> U[k + 1]] /\ U \in [1..count -> Nat]
    BY <2>1, ArrayRead
  <2>4. o \in Nat /\ Intent.max_amount \in Seq(Char)
    BY <1>2, SignedCall, EvmCallsAssumption DEF Intent
  <2> HIDE DEF args, amounts, U, count, o
  <2>5. mine \in 1..count /\ U[mine] \in Nat
    BY <2>2, <2>3
  <2>6. max # Refused
    <3> HIDE DEF max, mine
    <3> QED BY <2>2, <2>5 DEF Refused
  <2>7. max = Numerator(Intent.max_amount)
    BY <2>4, <2>6, RadixExact
  <2>8. o \in 0..(count - 1) /\ amounts[o] = U[mine]
    BY <2>3, <2>4, <2>5
  <2>9. ASSUME NEW k \in DOMAIN amounts \ {o} PROVE amounts[k] = 0
    <3>1. k \in 0..(count - 1) /\ amounts[k] = U[k + 1] /\ k # o
      BY <2>3, <2>9
    <3>2. k + 1 \in 1..count /\ k + 1 # mine
      BY <2>3, <2>4, <3>1
    <3> QED BY <2>2, <2>3, <3>1, <3>2
  <2>10. amounts[o] <= Numerator(Intent.max_amount)
    <3> HIDE DEF max, mine
    <3> QED BY <2>2, <2>7, <2>8
  <2> QED BY <2>2, <2>9, <2>10 DEF args, amounts, o
<1>3. Related => RedeemWithinIntent
  BY <1>1, <1>2, Zenon DEF RedeemWithinIntent
<1> QED BY <1>3, RelatedAlways, PTL

-----------------------------------------------------------------------------
(* Trades of the perpetuals. *)

LEMMA TradeValues ==
  ASSUME NEW disc \in Discs, NEW a \in TradeArgs
  PROVE  \A n \in 1..6 : a[NameAt(disc, n)] \in Values(TypeAt(disc, n))
<1>1. /\ a.size \in 0..U64Max /\ a.collateral \in 0..U64Max /\ a.side \in 0..2
      /\ a.slippage \in 0..U64Max /\ a.counter \in 0..U64Max
      /\ a.minimum_out \in 0..U64Max \cup {Absent} /\ a.entire \in {0, 1, Absent}
  BY DEF TradeArgs, U64s
<1>2. /\ \A v \in 0..U64Max : v \in Values("u64") /\ v \in Values("option u64")
      /\ \A v \in 0..2 : v \in Values("side")
      /\ Absent \in Values("option u64")
      /\ \A v \in {0, 1, Absent} : v \in Values("option bool")
  BY DEF Values
<1>3. \A n \in 1..6 : n = 1 \/ n = 2 \/ n = 3 \/ n = 4 \/ n = 5 \/ n = 6
  OBVIOUS
<1> DEFINE Fit(n) == a[NameAt(disc, n)] \in Values(TypeAt(disc, n))
<1>4. CASE disc = Increase
  <2>1. Fit(1) /\ Fit(2)
    BY <1>1, <1>2, <1>4 DEF Fields, NameAt, TypeAt
  <2>2. Fit(3) /\ Fit(4)
    BY <1>1, <1>2, <1>4 DEF Fields, NameAt, TypeAt
  <2>3. Fit(5) /\ Fit(6)
    BY <1>1, <1>2, <1>4 DEF Fields, NameAt, TypeAt
  <2> HIDE DEF Fit
  <2>4. \A n \in 1..6 : Fit(n)
    BY <1>3, <2>1, <2>2, <2>3
  <2> QED BY <2>4 DEF Fit
<1>5. CASE disc = Decrease
  <2>0. disc # Increase
    BY <1>5 DEF Increase, Decrease
  <2>1. Fit(1) /\ Fit(2)
    BY <1>1, <1>2, <2>0 DEF Fields, NameAt, TypeAt
  <2>2. Fit(3) /\ Fit(4)
    BY <1>1, <1>2, <2>0 DEF Fields, NameAt, TypeAt
  <2>3. Fit(5) /\ Fit(6)
    BY <1>1, <1>2, <2>0 DEF Fields, NameAt, TypeAt
  <2> HIDE DEF Fit
  <2>4. \A n \in 1..6 : Fit(n)
    BY <1>3, <2>1, <2>2, <2>3
  <2> QED BY <2>4 DEF Fit
<1> QED BY <1>4, <1>5 DEF Discs

\* The decoder of the instructions reads what they say, and refuses none that says
\* a trade.
THEOREM DecodingHolds == Spec => []DecodeFaithful
<1>1. ASSUME Related, Answer("data")
      PROVE  LET b == request.body
             IN IF reply.body # <<>>
                THEN Borsh(b.disc, reply.body[1]) \o reply.body[2] = b.args
                ELSE \A a \in PerpsTrades[b.disc] : ~IsPrefix(Borsh(b.disc, a), b.args)
  <2> DEFINE disc == request.body.disc
             args == request.body.args
  <2>1. request.kind = "data"
    BY <1>1 DEF Related, Answer
  <2>2. request.body \in PerpsData /\ reply.body = ReadArgs(disc, args)
    BY <1>1, <2>1 DEF Related, Asked, Answers, Answer
  <2>3. disc \in Discs /\ args \in Seq(Byte)
    BY <2>2, PerpsDataAssumption DEF Discs
  <2> HIDE DEF disc, args
  <2>4. CASE reply.body # <<>>
    <3>1. Borsh(disc, reply.body[1]) \o reply.body[2] = args
      BY <2>2, <2>3, <2>4, ArgsRead
    <3> QED BY <2>4, <3>1 DEF disc, args
  <2>5. CASE reply.body = <<>>
    <3>1. ASSUME NEW a \in PerpsTrades[disc], IsPrefix(Borsh(disc, a), args)
          PROVE  FALSE
      <4>1. a \in TradeArgs
        BY <2>3, PerpsDataAssumption DEF Discs
      <4>2. \A n \in 1..6 : a[NameAt(disc, n)] \in Values(TypeAt(disc, n))
        BY <2>3, <4>1, TradeValues
      <4>3. Borsh(disc, a) \in Seq(Nat)
        BY <2>3, <4>2, BorshBytes
      <4>4. PICK rest \in Seq(Byte) : Cat(Borsh(disc, a), rest, args)
        BY <2>3, <3>1, <4>3, PrefixRest
      <4>5. ReadArgs(disc, args) # <<>>
        BY <2>3, <4>2, <4>4, ArgsComplete
      <4> QED BY <2>2, <2>5, <4>5
    <3> QED BY <2>5, <3>1 DEF disc, args
  <2> QED BY <2>4, <2>5
<1>2. Related => DecodeFaithful
  BY <1>1 DEF DecodeFaithful
<1> QED BY <1>2, RelatedAlways, PTL

\* One trade runs, in the asset of the intent, and it is the one that was decoded.
THEOREM TradesHold == Spec => []OneTradeSigned
<1>1. ASSUME Related, Answer("perps"), reply.body.signed
      PROVE  LET tx == request.body.tx
                 ran == RunTrades(tx)
                 slot == reply.body.slot
             IN /\ Cardinality(ran) = 1
                /\ \A i \in ran :
                     /\ RunKey(tx, tx.ixs[i].accounts[CustodyAccount]) \in DOMAIN AssetOf
                     /\ AssetOf[RunKey(tx, tx.ixs[i].accounts[CustodyAccount])] = request.body.asset
                     /\ IsPrefix(Borsh(tx.ixs[i].disc, reply.body.trade), tx.ixs[i].args)
                /\ slot \in 1..tx.slots /\ tx.keys[slot] = request.body.delegate
  <2> DEFINE req == request.body
             tx == req.tx
  <2>1. request.kind = "perps"
    BY <1>1 DEF Related, Answer
  <2>2. req \in PerpsCalls /\ reply.body = SignJupiterTx(req)
    BY <1>1, <2>1 DEF Related, Asked, Answers, Answer
  <2>3. /\ tx.keys \in Seq(Range(tx.keys)) /\ tx.loaded \in Seq(Range(tx.loaded))
        /\ tx.slots \in Nat /\ DOMAIN tx.ixs \subseteq Int
        /\ \A i \in DOMAIN tx.ixs : tx.ixs[i].args \in Seq(Byte)
    BY <2>2, PerpsCallsAssumption
  <2> HIDE DEF req
  <2>4. /\ OneTrade(tx) /\ Custody(tx) \in DOMAIN AssetOf /\ AssetOf[Custody(tx)] = req.asset
        /\ SlotOf(tx, req.delegate) # 0
        /\ reply.body = [signed |-> TRUE, slot |-> SlotOf(tx, req.delegate),
                         trade |-> ReadArgs(Trade(tx).disc, Trade(tx).args)[1]]
    BY <1>1, <2>2 DEF SignJupiterTx
  <2>5. /\ reply.body.slot = SlotOf(tx, req.delegate)
        /\ reply.body.trade = ReadArgs(Trade(tx).disc, Trade(tx).args)[1]
    BY <2>4
  <2> HIDE DEF tx
  <2>6. reply.body.slot \in 1..tx.slots /\ tx.keys[reply.body.slot] = req.delegate
    <3>1. SlotOf(tx, req.delegate) \in 1..tx.slots /\ tx.keys[SlotOf(tx, req.delegate)] = req.delegate
      BY <2>3, <2>4, SlotFirst
    <3> QED BY <2>5, <3>1
  <2>7. PICK i \in DOMAIN tx.ixs : /\ TradeIxs(tx) = {i} /\ Trade(tx) = tx.ixs[i]
                                   /\ Matches(tx.ixs[i]) /\ ~Malformed(tx.ixs[i])
    BY <2>3, <2>4, TradeIs
  <2>8. RunTrades(tx) = {i}
    BY <2>3, <2>7, TradesRun
  <2>9. Cardinality(RunTrades(tx)) = 1
    BY <2>8, FS_Singleton
  <2>10. /\ RunKey(tx, tx.ixs[i].accounts[CustodyAccount]) \in DOMAIN AssetOf
         /\ AssetOf[RunKey(tx, tx.ixs[i].accounts[CustodyAccount])] = req.asset
    <3> DEFINE c == tx.ixs[i].accounts[CustodyAccount]
    <3>1. KeyAt(tx, c) \in DOMAIN AssetOf /\ AssetOf[KeyAt(tx, c)] = req.asset
      BY <2>4, <2>7 DEF Custody
    <3>2. c \in DOMAIN tx.keys
      BY <3>1, PerpsAssumption DEF KeyAt
    <3> HIDE DEF c
    <3>3. RunKey(tx, c) = KeyAt(tx, c)
      BY <2>3, <3>2, StaticKey
    <3> QED BY <3>1, <3>3 DEF c
  <2>11. IsPrefix(Borsh(tx.ixs[i].disc, reply.body.trade), tx.ixs[i].args)
    <3> DEFINE disc == tx.ixs[i].disc
               args == tx.ixs[i].args
    <3>1. disc \in Discs /\ args \in Seq(Byte)
      BY <2>3, <2>7 DEF Matches, Discs
    <3>2. ReadArgs(disc, args) # <<>>
      BY <2>7 DEF Malformed
    <3>3. reply.body.trade = ReadArgs(disc, args)[1]
      BY <2>5, <2>7
    <3> HIDE DEF disc, args
    <3>4. IsPrefix(Borsh(disc, ReadArgs(disc, args)[1]), args)
      BY <3>1, <3>2, ArgsRead
    <3> QED BY <3>3, <3>4 DEF disc, args
  <2>12. \A j \in RunTrades(tx) :
           /\ RunKey(tx, tx.ixs[j].accounts[CustodyAccount]) \in DOMAIN AssetOf
           /\ AssetOf[RunKey(tx, tx.ixs[j].accounts[CustodyAccount])] = req.asset
           /\ IsPrefix(Borsh(tx.ixs[j].disc, reply.body.trade), tx.ixs[j].args)
    BY <2>8, <2>10, <2>11
  <2> QED BY <2>6, <2>9, <2>12 DEF tx, req
<1>2. Related => OneTradeSigned
  BY <1>1 DEF OneTradeSigned
<1> QED BY <1>2, RelatedAlways, PTL

-----------------------------------------------------------------------------
(* Keys and signatures. *)

\* Two derived keys are equal only if they are of one purpose and one user.
THEOREM KeysHold == Spec => []KeysApart
<1>1. ASSUME Related, Answer("derivation"), NoKey \notin Range(reply.body)
      PROVE  LET a == request.body[1]
                 b == request.body[2]
             IN reply.body[1] = reply.body[2] <=>
                  a[1] = b[1] /\ (a[1] \in {"dek", "attestor"} \/ a[2] = b[2])
  <2> DEFINE a == request.body[1]
             b == request.body[2]
             x == KeyFor(a[1], a[2])
             y == KeyFor(b[1], b[2])
  <2>1. request.kind = "derivation"
    BY <1>1 DEF Related, Answer
  <2>2. request.body \in Pairs(Derivations) /\ reply.body = <<x, y>>
    BY <1>1, <2>1 DEF Related, Asked, Answers, Answer
  <2>3. a \in Derivations /\ b \in Derivations
    BY <2>2 DEF Pairs
  <2>4. a[1] \in Purposes /\ b[1] \in Purposes /\ a[2] \in SolanaKey /\ b[2] \in SolanaKey
    BY <2>3, DerivationsAssumption DEF Purposes
  <2> HIDE DEF a, b
  <2>5. x # NoKey /\ y # NoKey
    <3> HIDE DEF x, y
    <3> QED BY <1>1, <2>2 DEF Range
  <2>6. x = y <=> a[1] = b[1] /\ (a[1] \in {"dek", "attestor"} \/ a[2] = b[2])
    BY <2>4, <2>5, KeysDiffer
  <2> HIDE DEF x, y
  <2>7. reply.body[1] = x /\ reply.body[2] = y
    BY <2>2
  <2> QED BY <2>6, <2>7 DEF a, b
<1>2. Related => KeysApart
  BY <1>1 DEF KeysApart
<1> QED BY <1>2, RelatedAlways, PTL

-----------------------------------------------------------------------------
(* The statements the enclave signs. *)

LEMMA ReplyParts ==
  /\ ~NotSigned.signed
  /\ \A key, digest : LET r == SignedAs(key, digest)
                      IN r.signed => key # NoKey /\ r.key = key /\ r.digest = digest
BY DEF NotSigned, SignedAs

\* The key a statement is signed with and its digest.
SignsWith(s, key, digest) ==
  Sign(s).signed => key # NoKey /\ Sign(s).key = key /\ Sign(s).digest = digest

LEMMA SignedOrder ==
  ASSUME NEW s, s.kind = "order"
  PROVE  SignsWith(s, UserKey(s.user), OrderDigest(s.order, s.neg_risk))
<1>1. Sign(s) = SignOrder(s)
  BY DEF Sign
<1> QED BY <1>1, ReplyParts DEF SignsWith, SignOrder

LEMMA SignedBatch ==
  ASSUME NEW s, s.kind = "batch"
  PROVE  /\ SignsWith(s, UserKey(s.user), BatchDigest(s.wallet, s.nonce, s.deadline, BootstrapCalls))
         /\ Sign(s).signed => s.purpose = "bootstrap_approvals"
<1>1. Sign(s) = SignBatch(s)
  BY DEF Sign
<1> QED BY <1>1, ReplyParts DEF SignsWith, SignBatch

LEMMA SignedPermit ==
  ASSUME NEW s, s.kind = "permit"
  PROVE  SignsWith(s, UserKey(s.user),
                   PermitDigest(Eoa(UserKey(s.user)), Num(Contracts["hl_bridge"]), s.value, s.nonce, s.deadline))
<1>1. Sign(s) = SignPermit(s)
  BY DEF Sign
<1> QED BY <1>1, ReplyParts DEF SignsWith, SignPermit

LEMMA SignedAgent ==
  ASSUME NEW s, s.kind = "agent"
  PROVE  /\ SignsWith(s, UserKey(s.user), AgentDigest(s.network, s.connection))
         /\ Sign(s).signed => s.network \in {"mainnet", "testnet"}
<1>1. Sign(s) = SignAgent(s)
  BY DEF Sign
<1> QED BY <1>1, ReplyParts DEF SignsWith, SignAgent

LEMMA SignedOthers ==
  ASSUME NEW s
  PROVE  /\ s.kind = "user_action" => SignsWith(s, UserKey(s.user), UserActionDigest(s.chain, s.struct))
         /\ s.kind = "clob_auth" =>
              SignsWith(s, UserKey(s.user), ClobAuthDigest(Eoa(UserKey(s.user)), s.timestamp, s.nonce))
         /\ s.kind = "link" => SignsWith(s, UserKey(s.user), LinkDigest(s.user))
         /\ s.kind = "tx" => SignsWith(s, UserKey(s.user), TxDigest(s.tx))
<1>1. CASE s.kind = "user_action"
  <2>1. Sign(s) = SignedAs(UserKey(s.user), UserActionDigest(s.chain, s.struct))
    BY <1>1 DEF Sign
  <2> QED BY <1>1, <2>1, ReplyParts DEF SignsWith
<1>2. CASE s.kind = "clob_auth"
  <2>1. Sign(s) = SignedAs(UserKey(s.user), ClobAuthDigest(Eoa(UserKey(s.user)), s.timestamp, s.nonce))
    BY <1>2 DEF Sign
  <2> QED BY <1>2, <2>1, ReplyParts DEF SignsWith
<1>3. CASE s.kind = "link"
  <2>1. Sign(s) = SignedAs(UserKey(s.user), LinkDigest(s.user))
    BY <1>3 DEF Sign
  <2> QED BY <1>3, <2>1, ReplyParts DEF SignsWith
<1>4. CASE s.kind = "tx"
  <2>1. Sign(s) = SignedAs(UserKey(s.user), TxDigest(s.tx))
    BY <1>4 DEF Sign
  <2> QED BY <1>4, <2>1, ReplyParts DEF SignsWith
<1> QED BY <1>1, <1>2, <1>3, <1>4

LEMMA SignedAttestation ==
  ASSUME NEW s \in Statements, s.kind \in Attestations
  PROVE  /\ SignsWith(s, AttestorKey, <<"bytes", Attestation(s)>>)
         /\ Sign(s).signed => Attested(s)
<1>1. Sign(s) = Attest(s)
  BY DEF Sign, Attestations
<1>2. SignsWith(s, AttestorKey, <<"bytes", Attestation(s)>>)
  BY <1>1, ReplyParts DEF SignsWith, Attest
<1>3. ASSUME Sign(s).signed PROVE Attested(s)
  <2>1. Attestable(s)
    BY <1>1, <1>3, ReplyParts DEF Attest
  <2>2. Has(s, {"kind"} \cup FieldsOf[s.kind])
    BY StatementsAssumption
  <2>3. DOMAIN s = {"kind"} \cup FieldsOf[s.kind]
    <3> DEFINE F == {"kind"} \cup FieldsOf[s.kind]
    <3> HIDE DEF F
    <3>1. s = [f \in F |-> s[f]]
      BY <2>2 DEF Has, F
    <3> QED BY <3>1 DEF F
  <2>4. s.market \in SolanaKey
    BY StatementsAssumption
  <2>5. \A f \in {"signed_at", "nonce", "price", "window", "start", "end", "resolved_at", "mark"} \cap DOMAIN s :
          s[f] \in 0..U64Max
    BY StatementsAssumption DEF U64s
  <2>6. {"signed_at", "nonce"} \subseteq DOMAIN s
    BY <2>3 DEF FieldsOf, Attestations
  <2>7. s.signed_at \in 0..U64Max /\ s.nonce \in 0..U64Max
    BY <2>5, <2>6
  <2>8. CASE s.kind = "twap"
    <3>1. {"price", "window", "start", "end"} \subseteq DOMAIN s
      BY <2>3, <2>8 DEF FieldsOf
    <3> QED BY <2>4, <2>5, <2>7, <2>8, <3>1 DEF Attested
  <2>9. CASE s.kind = "resolution"
    <3>1. "resolved_at" \in DOMAIN s
      BY <2>3, <2>9 DEF FieldsOf
    <3>2. s.outcome_bps \in 0..(Power(ByteBase, U16Bytes) - 1)
      BY <2>9, StatementsAssumption
    <3> QED BY <2>4, <2>5, <2>7, <2>9, <3>1, <3>2 DEF Attested
  <2>10. CASE s.kind = "liquidation"
    <3>1. "mark" \in DOMAIN s
      BY <2>3, <2>10 DEF FieldsOf
    <3>2. /\ s.pmlc \in [1..(PayloadBytes - 2 * U64Bytes) -> Byte]
          /\ s.breach_at \in Int /\ s.breach_at <= U64Max
      BY <2>10, StatementsAssumption
    <3>3. s.breach_at \in 0..U64Max
      BY <2>1, <2>10, <3>2, U64Type DEF Attestable
    <3> QED BY <2>4, <2>5, <2>7, <2>10, <3>1, <3>2, <3>3 DEF Attested
  <2> QED BY <2>8, <2>9, <2>10 DEF Attestations
<1> QED BY <1>2, <1>3

-----------------------------------------------------------------------------
(* A digest tells the kind of its statement. *)

NameOfKind(kind) ==
  CASE kind = "order" -> "Polymarket CTF Exchange"
    [] kind = "batch" -> "DepositWallet"
    [] kind = "permit" -> "USD Coin"
    [] kind = "agent" -> "Exchange"
    [] kind = "user_action" -> "HyperliquidSignTransaction"
    [] kind = "clob_auth" -> "ClobAuthDomain"
TypedKinds == {"order", "batch", "permit", "agent", "user_action", "clob_auth"}

LEMMA NamesApart == \A k, l \in TypedKinds : NameOfKind(k) = NameOfKind(l) => k = l
BY DEF TypedKinds, NameOfKind

\* How the digest of a statement of a kind starts.
Labeled(d, kind) ==
  /\ kind \in TypedKinds => NameOf(d, NameOfKind(kind))
  /\ kind = "link" => d[1] = "hash" /\ Prefixed(d) = Text("polylayer-link-v1")
  /\ kind = "tx" => d[1] = "hash" /\ Prefixed(d) = Text("02")
  /\ kind \in Attestations => d[1] = "bytes"

LEMMA LabelsApart ==
  ASSUME NEW k \in DOMAIN FieldsOf, NEW l \in DOMAIN FieldsOf, NEW d, Labeled(d, k), Labeled(d, l)
  PROVE  k = l \/ (k \in Attestations /\ l \in Attestations)
<1> DEFINE typed == Text("1901")
           link == Text("polylayer-link-v1")
           tx == Text("02")
<1>1. typed # link /\ typed # tx /\ link # tx
  <2>1. "1901" # "polylayer-link-v1" /\ "1901" # "02" /\ "polylayer-link-v1" # "02"
    OBVIOUS
  <2> QED BY <2>1, TextApart
<1>2. \A m \in TypedKinds : Labeled(d, m) =>
        d[1] = "hash" /\ Prefixed(d) = typed /\ DomainPart(d, 2) = Text(NameOfKind(m))
  BY DEF Labeled, NameOf
<1>3. \A m, n \in TypedKinds : Labeled(d, m) /\ Labeled(d, n) => m = n
  BY <1>2, TextApart, NamesApart
<1>4. Labeled(d, "link") => d[1] = "hash" /\ Prefixed(d) = link
  BY DEF Labeled
<1>5. Labeled(d, "tx") => d[1] = "hash" /\ Prefixed(d) = tx
  BY DEF Labeled
<1>6. \A m \in Attestations : Labeled(d, m) => d[1] = "bytes"
  BY DEF Labeled
<1>7. DOMAIN FieldsOf = TypedKinds \cup {"link", "tx"} \cup Attestations
  BY DEF FieldsOf, TypedKinds, Attestations
<1> HIDE DEF typed, link, tx
<1> QED BY <1>1, <1>2, <1>3, <1>4, <1>5, <1>6, <1>7

-----------------------------------------------------------------------------
(* What a digest commits to. *)

LEMMA SameRecord ==
  ASSUME NEW F, NEW r, NEW s, Has(r, F), Has(s, F), \A f \in F : r[f] = s[f]
  PROVE  r = s
BY DEF Has

LEMMA SameMeaning ==
  ASSUME NEW F, NEW r, NEW s, Has(r, F), Has(s, F), \A f \in F \ {"calls"} : r[f] = s[f]
  PROVE  Meaning(r) = Meaning(s)
<1>1. DOMAIN r = F /\ DOMAIN s = F
  BY DEF Has
<1> QED BY <1>1 DEF Meaning

\* The two statements of a kind are signed, with one key and one digest.
Coincide(a, b) ==
  /\ Sign(a).signed /\ Sign(b).signed
  /\ Sign(a).key = Sign(b).key /\ Sign(a).digest = Sign(b).digest

LEMMA SameUser ==
  ASSUME NEW a, NEW b, a.user \in SolanaKey, b.user \in SolanaKey, Coincide(a, b),
         NEW d, NEW e, SignsWith(a, UserKey(a.user), d), SignsWith(b, UserKey(b.user), e)
  PROVE  a.user = b.user /\ d = e
<1>1. UserKey(a.user) # NoKey /\ UserKey(a.user) = UserKey(b.user) /\ d = e
  BY DEF Coincide, SignsWith
<1>2. a.user = b.user
  BY <1>1, UserKeyInjective
<1> QED BY <1>1, <1>2

\* The fields of a statement of a kind, its kind among them.
LEMMA StatementFields ==
  ASSUME NEW s \in Statements
  PROVE  /\ s.kind \in DOMAIN FieldsOf
         /\ Has(s, {"kind"} \cup FieldsOf[s.kind])
         /\ s.kind \notin Attestations => s.user \in SolanaKey
BY StatementsAssumption

LEMMA OrderMeaning ==
  ASSUME NEW a \in Statements, NEW b \in Statements, a.kind = "order", b.kind = "order", Coincide(a, b)
  PROVE  Meaning(a) = Meaning(b)
<1> DEFINE F == {"kind"} \cup FieldsOf["order"]
<1>1. Has(a, F) /\ Has(b, F) /\ a.user \in SolanaKey /\ b.user \in SolanaKey
  BY StatementFields DEF Attestations
<1>2. a.user = b.user /\ OrderDigest(a.order, a.neg_risk) = OrderDigest(b.order, b.neg_risk)
  BY <1>1, SameUser, SignedOrder
<1>3. /\ a.neg_risk \in BOOLEAN /\ b.neg_risk \in BOOLEAN
      /\ Has(a.order, OrderFields) /\ Has(b.order, OrderFields)
  BY StatementsAssumption
<1>4. a.neg_risk = b.neg_risk
  <2> DEFINE o == a.order
             p == b.order
             m == a.neg_risk
             n == b.neg_risk
  <2>1. m \in BOOLEAN /\ n \in BOOLEAN /\ OrderDigest(o, m) = OrderDigest(p, n)
    BY <1>2, <1>3
  <2> HIDE DEF o, p, m, n
  <2>2. m = n
    BY <2>1, OrderApart
  <2> QED BY <2>2 DEF m, n
<1>5. a.order = b.order
  <2> DEFINE o == a.order
             p == b.order
             m == a.neg_risk
             n == b.neg_risk
  <2>0. m \in BOOLEAN /\ n \in BOOLEAN /\ OrderDigest(o, m) = OrderDigest(p, n)
    BY <1>2, <1>3
  <2> HIDE DEF o, p, m, n
  <2>1. /\ o.salt = p.salt /\ o.maker = p.maker /\ o.signer = p.signer /\ o.token = p.token
        /\ o.maker_amount = p.maker_amount /\ o.taker_amount = p.taker_amount
        /\ o.side = p.side /\ o.signature_type = p.signature_type
        /\ o.timestamp = p.timestamp /\ o.metadata = p.metadata /\ o.builder = p.builder
    BY <2>0, OrderApart, ZenonT(60)
  <2>2. \A f \in OrderFields : o[f] = p[f]
    BY <2>1 DEF OrderFields
  <2>3. Has(o, OrderFields) /\ Has(p, OrderFields)
    BY <1>3 DEF o, p
  <2>4. o = p
    BY <2>2, <2>3, SameRecord
  <2> QED BY <2>4 DEF o, p
<1>6. \A f \in F \ {"calls"} : a[f] = b[f]
  BY <1>2, <1>4, <1>5 DEF FieldsOf
<1> HIDE DEF F
<1> QED BY <1>1, <1>6, SameMeaning

LEMMA BatchMeaning ==
  ASSUME NEW a \in Statements, NEW b \in Statements, a.kind = "batch", b.kind = "batch", Coincide(a, b)
  PROVE  Meaning(a) = Meaning(b)
<1> DEFINE F == {"kind"} \cup FieldsOf["batch"]
<1>1. Has(a, F) /\ Has(b, F) /\ a.user \in SolanaKey /\ b.user \in SolanaKey
  BY StatementFields DEF Attestations
<1>2. /\ a.user = b.user
      /\ BatchDigest(a.wallet, a.nonce, a.deadline, BootstrapCalls) =
           BatchDigest(b.wallet, b.nonce, b.deadline, BootstrapCalls)
  BY <1>1, SameUser, SignedBatch
<1>3. a.purpose = b.purpose
  BY SignedBatch DEF Coincide
<1>4. a.wallet = b.wallet /\ a.nonce = b.nonce /\ a.deadline = b.deadline
  BY <1>2, BatchApart
<1>5. \A f \in F \ {"calls"} : a[f] = b[f]
  BY <1>2, <1>3, <1>4 DEF FieldsOf
<1> HIDE DEF F
<1> QED BY <1>1, <1>5, SameMeaning

LEMMA PermitMeaning ==
  ASSUME NEW a \in Statements, NEW b \in Statements, a.kind = "permit", b.kind = "permit", Coincide(a, b)
  PROVE  Meaning(a) = Meaning(b)
<1> DEFINE F == {"kind"} \cup FieldsOf["permit"]
           D(s) == PermitDigest(Eoa(UserKey(s.user)), Num(Contracts["hl_bridge"]), s.value, s.nonce, s.deadline)
<1>1. Has(a, F) /\ Has(b, F) /\ a.user \in SolanaKey /\ b.user \in SolanaKey
  BY StatementFields DEF Attestations
<1>2. a.user = b.user /\ D(a) = D(b)
  <2>1. SignsWith(a, UserKey(a.user), D(a)) /\ SignsWith(b, UserKey(b.user), D(b))
    BY SignedPermit
  <2> HIDE DEF D
  <2> QED BY <1>1, <2>1, SameUser
<1>3. a.value = b.value /\ a.nonce = b.nonce /\ a.deadline = b.deadline
  <2> DEFINE x == Eoa(UserKey(a.user))
             y == Eoa(UserKey(b.user))
             z == Num(Contracts["hl_bridge"])
             u == a.value
             v == b.value
             m == a.nonce
             n == b.nonce
             d == a.deadline
             e == b.deadline
  <2>1. PermitDigest(x, z, u, m, d) = PermitDigest(y, z, v, n, e)
    BY <1>2
  <2> HIDE DEF x, y, z, u, v, m, n, d, e
  <2>2. u = v /\ m = n /\ d = e
    BY <2>1, PermitApart
  <2> QED BY <2>2 DEF u, v, m, n, d, e
<1>4. \A f \in F \ {"calls"} : a[f] = b[f]
  BY <1>2, <1>3 DEF FieldsOf
<1> HIDE DEF F
<1> QED BY <1>1, <1>4, SameMeaning

LEMMA AgentMeaning ==
  ASSUME NEW a \in Statements, NEW b \in Statements, a.kind = "agent", b.kind = "agent", Coincide(a, b)
  PROVE  Meaning(a) = Meaning(b)
<1> DEFINE F == {"kind"} \cup FieldsOf["agent"]
<1>1. Has(a, F) /\ Has(b, F) /\ a.user \in SolanaKey /\ b.user \in SolanaKey
  BY StatementFields DEF Attestations
<1>2. a.user = b.user /\ AgentDigest(a.network, a.connection) = AgentDigest(b.network, b.connection)
  BY <1>1, SameUser, SignedAgent
<1>3. a.network \in {"mainnet", "testnet"} /\ b.network \in {"mainnet", "testnet"}
  BY SignedAgent DEF Coincide
<1>4. a.network = b.network /\ a.connection = b.connection
  BY <1>2, <1>3, AgentApart
<1>5. \A f \in F \ {"calls"} : a[f] = b[f]
  BY <1>2, <1>4 DEF FieldsOf
<1> HIDE DEF F
<1> QED BY <1>1, <1>5, SameMeaning

LEMMA UserActionMeaning ==
  ASSUME NEW a \in Statements, NEW b \in Statements, a.kind = "user_action", b.kind = "user_action",
         Coincide(a, b)
  PROVE  Meaning(a) = Meaning(b)
<1> DEFINE F == {"kind"} \cup FieldsOf["user_action"]
<1>1. Has(a, F) /\ Has(b, F) /\ a.user \in SolanaKey /\ b.user \in SolanaKey
  BY StatementFields DEF Attestations
<1>2. a.user = b.user /\ UserActionDigest(a.chain, a.struct) = UserActionDigest(b.chain, b.struct)
  BY <1>1, SameUser, SignedOthers
<1>3. a.chain = b.chain /\ a.struct = b.struct
  BY <1>2, UserActionApart
<1>4. \A f \in F \ {"calls"} : a[f] = b[f]
  BY <1>2, <1>3 DEF FieldsOf
<1> HIDE DEF F
<1> QED BY <1>1, <1>4, SameMeaning

LEMMA ClobAuthMeaning ==
  ASSUME NEW a \in Statements, NEW b \in Statements, a.kind = "clob_auth", b.kind = "clob_auth",
         Coincide(a, b)
  PROVE  Meaning(a) = Meaning(b)
<1> DEFINE F == {"kind"} \cup FieldsOf["clob_auth"]
           D(s) == ClobAuthDigest(Eoa(UserKey(s.user)), s.timestamp, s.nonce)
<1>1. Has(a, F) /\ Has(b, F) /\ a.user \in SolanaKey /\ b.user \in SolanaKey
  BY StatementFields DEF Attestations
<1>2. a.user = b.user /\ D(a) = D(b)
  <2>1. SignsWith(a, UserKey(a.user), D(a)) /\ SignsWith(b, UserKey(b.user), D(b))
    BY SignedOthers
  <2> HIDE DEF D
  <2> QED BY <1>1, <2>1, SameUser
<1>3. a.timestamp = b.timestamp /\ a.nonce = b.nonce
  BY <1>2, ClobAuthApart
<1>4. \A f \in F \ {"calls"} : a[f] = b[f]
  BY <1>2, <1>3 DEF FieldsOf
<1> HIDE DEF F
<1> QED BY <1>1, <1>4, SameMeaning

LEMMA LinkMeaning ==
  ASSUME NEW a \in Statements, NEW b \in Statements, a.kind = "link", b.kind = "link", Coincide(a, b)
  PROVE  Meaning(a) = Meaning(b)
<1> DEFINE F == {"kind"} \cup FieldsOf["link"]
<1>1. Has(a, F) /\ Has(b, F) /\ a.user \in SolanaKey /\ b.user \in SolanaKey
  BY StatementFields DEF Attestations
<1>2. a.user = b.user
  BY <1>1, SameUser, SignedOthers
<1>3. \A f \in F \ {"calls"} : a[f] = b[f]
  BY <1>2 DEF FieldsOf
<1> HIDE DEF F
<1> QED BY <1>1, <1>3, SameMeaning

LEMMA TxMeaning ==
  ASSUME NEW a \in Statements, NEW b \in Statements, a.kind = "tx", b.kind = "tx", Coincide(a, b)
  PROVE  Meaning(a) = Meaning(b)
<1> DEFINE F == {"kind"} \cup FieldsOf["tx"]
<1>1. Has(a, F) /\ Has(b, F) /\ a.user \in SolanaKey /\ b.user \in SolanaKey
  BY StatementFields DEF Attestations
<1>2. a.user = b.user /\ TxDigest(a.tx) = TxDigest(b.tx)
  BY <1>1, SameUser, SignedOthers
<1>3. Has(a.tx, TxFields) /\ Has(b.tx, TxFields)
  BY StatementsAssumption
<1>4. a.tx = b.tx
  <2> DEFINE t == a.tx
             u == b.tx
  <2>1. /\ t.chain = u.chain /\ t.nonce = u.nonce /\ t.max_priority_fee = u.max_priority_fee
        /\ t.max_fee = u.max_fee /\ t.gas_limit = u.gas_limit /\ t.to = u.to
        /\ t.value = u.value /\ t.data = u.data
    BY <1>2, TxApart
  <2> HIDE DEF t, u
  <2>2. \A f \in TxFields : t[f] = u[f]
    BY <2>1 DEF TxFields
  <2>3. Has(t, TxFields) /\ Has(u, TxFields)
    BY <1>3 DEF t, u
  <2>4. t = u
    BY <2>2, <2>3, SameRecord
  <2> QED BY <2>4 DEF t, u
<1>5. \A f \in F \ {"calls"} : a[f] = b[f]
  BY <1>2, <1>4 DEF FieldsOf
<1> HIDE DEF F
<1> QED BY <1>1, <1>5, SameMeaning

LEMMA AttestationMeaning ==
  ASSUME NEW a \in Statements, NEW b \in Statements, a.kind \in Attestations, b.kind \in Attestations,
         Coincide(a, b)
  PROVE  a.kind = b.kind /\ Meaning(a) = Meaning(b)
<1>1. Attested(a) /\ Attested(b)
  BY SignedAttestation DEF Coincide
<1>2. Attestation(a) = Attestation(b)
  <2>1. Sign(a).digest = <<"bytes", Attestation(a)>> /\ Sign(b).digest = <<"bytes", Attestation(b)>>
    BY SignedAttestation DEF Coincide, SignsWith
  <2>2. <<"bytes", Attestation(a)>> = <<"bytes", Attestation(b)>>
    BY <2>1 DEF Coincide
  <2> QED BY <2>2
<1>3. Header(a) = Header(b) /\ a.kind = b.kind /\ Payload(a) = Payload(b)
  BY <1>1, <1>2, AttestationApart
<1>4. a.market = b.market /\ a.signed_at = b.signed_at /\ a.nonce = b.nonce
  BY <1>1, <1>3, HeaderApart
<1> DEFINE F == {"kind"} \cup FieldsOf[a.kind]
<1>5. Has(a, F) /\ Has(b, F)
  BY <1>3, StatementFields
<1>6. \A f \in F \ {"calls"} : a[f] = b[f]
  <2>1. CASE a.kind = "twap"
    <3>1. a.price = b.price /\ a.window = b.window /\ a.start = b.start /\ a.end = b.end
      BY <1>1, <1>3, <2>1, PayloadApart
    <3>2. F = {"kind", "market", "signed_at", "nonce", "price", "window", "start", "end"}
      BY <2>1 DEF FieldsOf
    <3> HIDE DEF F
    <3> QED BY <1>3, <1>4, <3>1, <3>2
  <2>2. CASE a.kind = "resolution"
    <3>1. a.outcome_bps = b.outcome_bps /\ a.resolved_at = b.resolved_at
      BY <1>1, <1>3, <2>2, PayloadApart
    <3>2. F = {"kind", "market", "signed_at", "nonce", "outcome_bps", "resolved_at"}
      BY <2>2 DEF FieldsOf
    <3> HIDE DEF F
    <3> QED BY <1>3, <1>4, <3>1, <3>2
  <2>3. CASE a.kind = "liquidation"
    <3>1. a.pmlc = b.pmlc /\ a.mark = b.mark /\ a.breach_at = b.breach_at
      BY <1>1, <1>3, <2>3, PayloadApart
    <3>2. F = {"kind", "market", "signed_at", "nonce", "pmlc", "mark", "breach_at"}
      BY <2>3 DEF FieldsOf
    <3> HIDE DEF F
    <3> QED BY <1>3, <1>4, <3>1, <3>2
  <2> QED BY <2>1, <2>2, <2>3 DEF Attestations
<1> HIDE DEF F
<1> QED BY <1>3, <1>5, <1>6, SameMeaning

LEMMA SignedLabel ==
  ASSUME NEW s \in Statements, Sign(s).signed
  PROVE  Labeled(Sign(s).digest, s.kind)
<1>1. CASE s.kind \in TypedKinds
  <2>1. s.kind = "order" => NameOf(Sign(s).digest, NameOfKind(s.kind))
    BY SignedOrder, OrderApart, StatementsAssumption DEF SignsWith, NameOfKind
  <2>2. s.kind = "batch" => NameOf(Sign(s).digest, NameOfKind(s.kind))
    BY SignedBatch, BatchApart DEF SignsWith, NameOfKind
  <2>3. s.kind = "permit" => NameOf(Sign(s).digest, NameOfKind(s.kind))
    <3>1. \A x, z, v, n, d : NameOf(PermitDigest(x, z, v, n, d), "USD Coin")
      BY PermitParts
    <3>2. s.kind = "permit" => \E x, z, v, n, d : Sign(s).digest = PermitDigest(x, z, v, n, d)
      BY SignedPermit DEF SignsWith
    <3>3. s.kind = "permit" => NameOf(Sign(s).digest, "USD Coin")
      BY <3>1, <3>2
    <3> QED BY <3>3 DEF NameOfKind
  <2>4. s.kind = "agent" => NameOf(Sign(s).digest, NameOfKind(s.kind))
    BY SignedAgent, AgentApart DEF SignsWith, NameOfKind
  <2>5. s.kind = "user_action" => NameOf(Sign(s).digest, NameOfKind(s.kind))
    BY SignedOthers, UserActionApart DEF SignsWith, NameOfKind
  <2>6. s.kind = "clob_auth" => NameOf(Sign(s).digest, NameOfKind(s.kind))
    BY SignedOthers, ClobAuthApart DEF SignsWith, NameOfKind
  <2>7. NameOf(Sign(s).digest, NameOfKind(s.kind))
    BY <1>1, <2>1, <2>2, <2>3, <2>4, <2>5, <2>6 DEF TypedKinds
  <2> QED BY <1>1, <2>7 DEF Labeled, TypedKinds, Attestations
<1>2. CASE s.kind = "link"
  <2>1. Sign(s).digest = LinkDigest(s.user)
    BY <1>2, SignedOthers DEF SignsWith
  <2> QED BY <1>2, <2>1, LinkOf DEF Labeled, TypedKinds, Attestations
<1>3. CASE s.kind = "tx"
  <2>1. Sign(s).digest = TxDigest(s.tx)
    BY <1>3, SignedOthers DEF SignsWith
  <2> QED BY <1>3, <2>1, TxApart DEF Labeled, TypedKinds, Attestations
<1>4. CASE s.kind \in Attestations
  <2>1. Sign(s).digest = <<"bytes", Attestation(s)>>
    BY <1>4, SignedAttestation DEF SignsWith
  <2>2. Sign(s).digest[1] = "bytes"
    BY <2>1
  <2> QED BY <1>4, <2>2 DEF Labeled, TypedKinds, Attestations
<1>5. s.kind \in TypedKinds \cup {"link", "tx"} \cup Attestations
  <2>1. DOMAIN FieldsOf = TypedKinds \cup {"link", "tx"} \cup Attestations
    BY DEF FieldsOf, TypedKinds, Attestations
  <2> QED BY <2>1, StatementsAssumption
<1> QED BY <1>1, <1>2, <1>3, <1>4, <1>5

\* Two statements signed with one key and one digest are of one kind and mean the same.
LEMMA StatementsApart ==
  ASSUME NEW a \in Statements, NEW b \in Statements, Coincide(a, b)
  PROVE  a.kind = b.kind /\ Meaning(a) = Meaning(b)
<1>1. Labeled(Sign(a).digest, a.kind) /\ Labeled(Sign(a).digest, b.kind)
  BY SignedLabel DEF Coincide
<1>2. a.kind \in DOMAIN FieldsOf /\ b.kind \in DOMAIN FieldsOf
  BY StatementsAssumption
<1>3. CASE a.kind \in Attestations /\ b.kind \in Attestations
  BY <1>3, AttestationMeaning
<1>4. CASE ~(a.kind \in Attestations /\ b.kind \in Attestations)
  <2>1. a.kind = b.kind
    BY <1>1, <1>2, <1>4, LabelsApart
  <2>2. a.kind \in {"order", "batch", "permit", "agent", "user_action", "clob_auth", "link", "tx"}
    BY <1>2, <1>4, <2>1 DEF FieldsOf, Attestations
  <2>3. Meaning(a) = Meaning(b)
    BY <2>1, <2>2, OrderMeaning, BatchMeaning, PermitMeaning, AgentMeaning, UserActionMeaning,
       ClobAuthMeaning, LinkMeaning, TxMeaning
  <2> QED BY <2>1, <2>3
<1> QED BY <1>3, <1>4

\* No signature commits its key to two things, whatever the statements: the domains
\* separate the routes, and every digest is one-to-one in what it commits to.
THEOREM SignaturesHold == Spec => []SignaturesApart
<1>1. ASSUME Related, Answer("statement")
      PROVE  LET a == request.body[1]
                 b == request.body[2]
                 x == reply.body[1]
                 y == reply.body[2]
             IN x.signed /\ y.signed =>
                  (x.key = y.key /\ x.digest = y.digest => a.kind = b.kind /\ Meaning(a) = Meaning(b))
  <2> DEFINE a == request.body[1]
             b == request.body[2]
  <2>1. request.kind = "statement"
    BY <1>1 DEF Related, Answer
  <2>2. request.body \in Pairs(Statements) /\ reply.body = <<Sign(a), Sign(b)>>
    BY <1>1, <2>1 DEF Related, Asked, Answers, Answer
  <2>3. a \in Statements /\ b \in Statements
    BY <2>2 DEF Pairs
  <2>4. reply.body[1] = Sign(a) /\ reply.body[2] = Sign(b)
    BY <2>2
  <2> HIDE DEF a, b
  <2>5. Coincide(a, b) => a.kind = b.kind /\ Meaning(a) = Meaning(b)
    BY <2>3, StatementsApart
  <2> QED BY <2>4, <2>5 DEF a, b, Coincide
<1>2. Related => SignaturesApart
  BY <1>1 DEF SignaturesApart
<1> QED BY <1>2, RelatedAlways, PTL

-----------------------------------------------------------------------------
(* Intents: what their text commits to, and whose signature passes. *)

\* Whatever the characters and however deep an intent, its signed text is that of
\* the intents that say the same, and of no other: escapes, commas, brackets and
\* the order of keys leave nothing to confuse.
THEOREM TextsHold == Spec => []CanonicalInjective
<1>1. ASSUME Related, Answer("json")
      PROVE  reply.body[1] = reply.body[2] <=> Meant(request.body[1]) = Meant(request.body[2])
  <2> DEFINE v == request.body[1]
             w == request.body[2]
  <2>1. request.kind = "json"
    BY <1>1 DEF Related, Answer
  <2>2. request.body \in Pairs(Jsons) /\ reply.body = <<Canonical(v), Canonical(w)>>
    BY <1>1, <2>1 DEF Related, Asked, Answers, Answer
  <2>3. v \in Json /\ w \in Json
    BY <2>2, IntentsAssumption DEF Pairs
  <2>4. reply.body[1] = Canonical(v) /\ reply.body[2] = Canonical(w)
    BY <2>2
  <2> HIDE DEF v, w
  <2>5. Canonical(v) = Canonical(w) <=> Meant(v) = Meant(w)
    BY <2>3, SameTextSameMeaning
  <2> QED BY <2>4, <2>5 DEF v, w
<1>2. Related => CanonicalInjective
  BY <1>1 DEF CanonicalInjective
<1> QED BY <1>2, RelatedAlways, PTL

Tardy(now) == {d \in Seq(Digit) : U64Of(d) < now}

LEMMA IntentVerdict ==
  ASSUME NEW b \in IntentChecks
  PROVE  Verified(b) <=>
           /\ Meant(b.wrote) = Meant(b.intent)
           /\ b.sig.by \in Keys
           /\ IF b.override # <<>> THEN b.sig.by = b.override
              ELSE <<PubkeyField, <<"str", b.sig.by>>>> \in MembersOf(b.wrote)
           /\ ~(b.enforce /\ \E m \in MembersOf(b.wrote) :
                               m[1] = ExpiryField /\ m[2][1] = "num" /\ m[2][2] \in Tardy(b.now))
<1> DEFINE v == b.intent
           w == b.wrote
           k == b.sig.by
           D == Tardy(b.now)
           Named == IF b.override # <<>> THEN k = b.override
                    ELSE <<PubkeyField, <<"str", k>>>> \in MembersOf(w)
           Late == \E m \in MembersOf(w) : m[1] = ExpiryField /\ m[2][1] = "num" /\ m[2][2] \in D
<1>1. v \in Json /\ w \in Json /\ b.sig.over = Canonical(w) /\ b.enforce \in BOOLEAN
  BY IntentsAssumption
<1>2. b.sig.over = Canonical(v) <=> Meant(v) = Meant(w)
  <2> HIDE DEF v, w
  <2>1. Canonical(v) = Canonical(w) <=> Meant(v) = Meant(w)
    BY <1>1, SameTextSameMeaning
  <2> QED BY <1>1, <2>1
<1>3. ASSUME Meant(v) = Meant(w) PROVE Expected(b) \in Keys /\ k = Expected(b) <=> k \in Keys /\ Named
  <2>1. <<>> \notin Keys
    BY GateAssumption
  <2>2. CASE b.override # <<>>
    BY <2>2 DEF Expected
  <2>3. CASE b.override = <<>>
    <3>1. Expected(b) = TextOf(FieldOf(v, PubkeyField))
      BY <2>3 DEF Expected
    <3>2. Named <=> <<PubkeyField, <<"str", k>>>> \in MembersOf(w)
      BY <2>3
    <3> HIDE DEF v, w, k, Named
    <3>3. k \in Keys => k # <<>>
      BY <2>1
    <3>4. k # <<>> => (TextOf(FieldOf(v, PubkeyField)) = k <=> <<PubkeyField, <<"str", k>>>> \in MembersOf(w))
      BY <1>1, <1>3, TextField
    <3> QED BY <3>1, <3>2, <3>3, <3>4
  <2> QED BY <2>2, <2>3
<1>4. ASSUME Meant(v) = Meant(w) PROVE Expired(b) <=> b.enforce /\ Late
  <2> DEFINE f == FieldOf(v, ExpiryField)
  <2>1. Expired(b) <=> b.enforce /\ f # Missing /\ f[1] = "num" /\ f[2] \in D
    BY DEF Expired, Tardy, IsU64
  <2>2. f # Missing /\ f[1] = "num" /\ f[2] \in D <=> Late
    <3> HIDE DEF v, w, D
    <3> QED BY <1>1, <1>4, NumberField
  <2> HIDE DEF f, D, Late
  <2> QED BY <2>1, <2>2
<1>5. Verified(b) <=> Expected(b) \in Keys /\ ~Expired(b) /\ k = Expected(b) /\ b.sig.over = Canonical(v)
  BY DEF Verified
<1>6. Verified(b) <=> Meant(w) = Meant(v) /\ k \in Keys /\ Named /\ ~(b.enforce /\ Late)
  <2> HIDE DEF v, w, k, Named, Late
  <2> QED BY <1>2, <1>3, <1>4, <1>5
<1> QED BY <1>6

\* An intent passes exactly if the key it is checked against signed one that says
\* the same and has not expired where that counts, whatever the two texts.
THEOREM IntentsHold == Spec => []IntentAuthentic
<1>1. ASSUME Related, Answer("intent") PROVE IntentAuthentic
  <2> DEFINE b == request.body
  <2>1. request.kind = "intent"
    BY <1>1 DEF Related, Answer
  <2>2. b \in IntentChecks /\ reply.body = Verified(b)
    BY <1>1, <2>1 DEF Related, Asked, Answers, Answer
  <2> DEFINE M == MembersOf(b.wrote)
             Late(m) == m[1] = ExpiryField /\ m[2][1] = "num" /\ m[2][2] \in Tardy(b.now)
  <2>3. reply.body <=>
          /\ Meant(b.wrote) = Meant(b.intent)
          /\ b.sig.by \in Keys
          /\ IF b.override # <<>> THEN b.sig.by = b.override
             ELSE <<PubkeyField, <<"str", b.sig.by>>>> \in M
          /\ ~(b.enforce /\ \E m \in M : Late(m))
    BY <2>2, IntentVerdict
  <2>4. \A m : m[2][2] \in Tardy(b.now) <=> IsU64(m[2][2]) /\ U64Of(m[2][2]) < b.now
    BY DEF Tardy, IsU64
  <2>5. <<PubkeyField, <<"str", b.sig.by>>>> \in M <=> \E m \in M : m = <<PubkeyField, <<"str", b.sig.by>>>>
    OBVIOUS
  <2>6. M = IF b.wrote[1] = "obj" THEN Range(b.wrote[2]) ELSE {}
    BY DEF MembersOf
  <2> HIDE DEF M
  <2> QED BY <2>3, <2>4, <2>5, <2>6 DEF IntentAuthentic
<1>2. Related => IntentAuthentic
  BY <1>1 DEF IntentAuthentic
<1> QED BY <1>2, RelatedAlways, PTL

-----------------------------------------------------------------------------
(* BER and envelopes. *)

\* Each BER encoding of a value becomes its one DER encoding.
THEOREM EncodingsHold == Spec => []DerOfBer
<1>1. ASSUME Related, Answer("ber") PROVE reply.body = <<DerOf(request.body.value)>>
  <2> DEFINE v == request.body.value
             style == request.body.style
  <2>1. request.kind = "ber"
    BY <1>1 DEF Related, Answer
  <2>2. request.body \in [value : BerValues, style : Styles] /\ reply.body = Normalize(BerOf(v, style))
    BY <1>1, <2>1 DEF Related, Asked, Answers, Answer
  <2>3. v \in BerValues /\ style \in Styles
    BY <2>2
  <2> HIDE DEF v, style
  <2>4. v \in Tree[BerDepth] /\ Brief(DerOf(v)) /\ Brief(BerOf(v, style))
    BY <2>3, BerValuesAssumption DEF Modest, Brief
  <2>5. Normalize(BerOf(v, style)) = <<DerOf(v)>>
    BY <2>4, Rewriting
  <2> QED BY <2>2, <2>5 DEF v
<1>2. Related => DerOfBer
  BY <1>1 DEF DerOfBer
<1> QED BY <1>2, RelatedAlways, PTL

\* The recipient whose key is taken is the first of the key-transport ones.
LEMMA FirstKtri ==
  ASSUME NEW rs, NEW n \in Nat, DOMAIN rs = 1..n, NEW K, K = {i \in DOMAIN rs : rs[i].kind = KeyTrans}, K # {}
  PROVE  (CHOOSE i \in K : \A j \in K : i <= j) \in K
<1>1. \E i \in K : \A j \in K : i <= j
  <2>1. K \subseteq Nat
    OBVIOUS
  <2> QED BY <2>1, LeastElement
<1> QED BY <1>1

LEMMA CekFound ==
  ASSUME NEW e, NEW n \in Nat, DOMAIN e.recipients = 1..n
  PROVE  /\ Cek(e) # <<>> =>
              \E r \in Range(e.recipients) : r.kind = KeyTrans /\ r.for = Enclave /\ Cek(e) = <<r>>
         /\ (\E r \in Range(e.recipients) : r.kind = KeyTrans)
            /\ (\A r \in Range(e.recipients) : r.kind = KeyTrans => r.for = Enclave) => Cek(e) # <<>>
<1> DEFINE rs == e.recipients
           K == {i \in DOMAIN rs : rs[i].kind = KeyTrans}
           least == CHOOSE i \in K : \A j \in K : i <= j
           first == rs[least]
<1>1. Cek(e) = IF K # {} /\ first.for = Enclave THEN <<first>> ELSE <<>>
  BY DEF Cek
<1>2. ASSUME K # {} PROVE first \in Range(rs) /\ first.kind = KeyTrans
  <2>1. least \in K
    <3> HIDE DEF rs
    <3>1. DOMAIN rs = 1..n
      BY DEF rs
    <3> QED BY <1>2, <3>1, FirstKtri
  <2> HIDE DEF least, rs
  <2> QED BY <2>1 DEF Range
<1>3. (\E r \in Range(rs) : r.kind = KeyTrans) => K # {}
  <2> HIDE DEF rs
  <2> QED BY DEF Range
<1>4. <<first>> # <<>>
  OBVIOUS
<1> HIDE DEF first, K
<1> QED BY <1>1, <1>2, <1>3, <1>4 DEF rs

\* An envelope opens, to its secret, exactly if it was made for the enclave.
THEOREM EnvelopesHold == Spec => []EnvelopeOpens
<1>1. ASSUME Related, Answer("envelope") PROVE EnvelopeOpens
  <2> DEFINE e == request.body.envelope
             style == request.body.style
             v == EnvelopeValue(e)
             ForEnclave == {r \in Range(e.recipients) : r.kind = KeyTrans /\ r.for = Enclave}
             others == {r \in Range(e.recipients) : r.kind = KeyTrans /\ r.for # Enclave}
             Good == /\ e.type = EnvelopedData /\ e.algorithm = Aes256Cbc
                     /\ Len(e.iv) = IvBytes /\ e.content # <<>>
                     /\ others = {} /\ Cardinality(ForEnclave) = 1
                     /\ \A r \in ForEnclave : r.cek = e.content[1].cek
             Known == \E r \in ForEnclave : e.content # <<>> /\ e.content[1].cek = r.cek
                                            /\ reply.body = <<e.content[1].bytes>>
  <2>1. request.kind = "envelope"
    BY <1>1 DEF Related, Answer
  <2>2. request.body \in [envelope : Envelopes, style : Styles] /\ reply.body = Opened(request.body)
    BY <1>1, <2>1 DEF Related, Asked, Answers, Answer
  <2>3. e \in Envelopes /\ style \in Styles /\ reply.body = Decrypt(BerOf(v, style), e)
    BY <2>2 DEF Opened
  <2> HIDE DEF e, style
  <2>4. e.recipients \in Seq([kind : Tag, for : 0..255, cek : 0..255]) /\ Modest(v)
    BY <2>3, EnvelopesAssumption
  <2> HIDE DEF v
  <2>5. v \in Tree[BerDepth] /\ Brief(DerOf(v)) /\ Brief(BerOf(v, style))
    BY <2>3, <2>4 DEF Modest, Brief
  <2>6. Normalize(BerOf(v, style)) = <<DerOf(v)>>
    BY <2>5, Rewriting
  <2>7. reply.body = IF Opens(e) THEN <<e.content[1].bytes>> ELSE <<>>
    BY <2>3, <2>6 DEF Decrypt, v
  <2>8. /\ Cek(e) # <<>> => \E r \in ForEnclave : Cek(e) = <<r>>
        /\ ForEnclave # {} /\ others = {} => Cek(e) # <<>>
    <3>1. \E n \in Nat : DOMAIN e.recipients = 1..n
      BY <2>4
    <3>2. PICK n \in Nat : DOMAIN e.recipients = 1..n
      BY <3>1
    <3>3. /\ Cek(e) # <<>> =>
               \E r \in Range(e.recipients) : r.kind = KeyTrans /\ r.for = Enclave /\ Cek(e) = <<r>>
          /\ (\E r \in Range(e.recipients) : r.kind = KeyTrans)
             /\ (\A r \in Range(e.recipients) : r.kind = KeyTrans => r.for = Enclave) => Cek(e) # <<>>
      BY <3>2, CekFound
    <3> QED BY <3>3
  <2>9. reply.body # <<>> => Known
    <3> SUFFICES ASSUME reply.body # <<>> PROVE Known
      OBVIOUS
    <3>1. Opens(e) /\ reply.body = <<e.content[1].bytes>>
      BY <2>7
    <3>2. Cek(e) # <<>> /\ e.content # <<>> /\ e.content[1].cek = Cek(e)[1].cek
      BY <3>1 DEF Opens
    <3>3. PICK r \in ForEnclave : Cek(e) = <<r>>
      BY <2>8, <3>2
    <3>4. Cek(e)[1] = r
      BY <3>3
    <3> QED BY <3>1, <3>2, <3>4
  <2>10. Good => reply.body = <<e.content[1].bytes>>
    <3> SUFFICES ASSUME Good PROVE Opens(e)
      BY <2>7
    <3>1. ForEnclave # {}
      <4>1. Cardinality({}) = 0
        BY FS_EmptySet
      <4>2. Cardinality(ForEnclave) = 1
        OBVIOUS
      <4> HIDE DEF ForEnclave, Good
      <4> QED BY <4>1, <4>2
    <3>2. Cek(e) # <<>>
      BY <2>8, <3>1
    <3>3. PICK r \in ForEnclave : Cek(e) = <<r>>
      BY <2>8, <3>2
    <3>4. Cek(e)[1] = r /\ r.cek = e.content[1].cek
      BY <3>3
    <3> QED BY <3>2, <3>4 DEF Opens
  <2> QED BY <2>9, <2>10 DEF EnvelopeOpens, e
<1>2. Related => EnvelopeOpens
  BY <1>1 DEF EnvelopeOpens
<1> QED BY <1>2, RelatedAlways, PTL

-----------------------------------------------------------------------------
(* What the bytes of a reply decide. *)

\* Bytes behind a first one.
LEMMA ByteInFront ==
  ASSUME NEW a \in 0..255, NEW b \in 0..255, NEW x \in Octets, NEW y \in Octets, <<a>> \o x = <<b>> \o y
  PROVE  a = b /\ x = y
<1> DEFINE S == 0..255
<1>1. a \in S /\ b \in S /\ x \in Seq(S) /\ y \in Seq(S) /\ Cons(a, x) = Cons(b, y)
  BY DEF Octets, Cons
<1> HIDE DEF S
<1> QED BY <1>1, Ahead

\* Envelopes that say the same in every field decrypt_enveloped_data reads.
EnvelopeRead(e, f) ==
  /\ e.type = f.type /\ e.recipients = f.recipients /\ e.algorithm = f.algorithm
  /\ e.iv = f.iv /\ e.content = f.content

\* Two values in one: around values of one DER, the tags are one tag and what they
\* hold is of one DER.
LEMMA TwoHeld ==
  ASSUME NEW der, DerBy(der), NEW t, NEW u, NEW a, NEW b, NEW c, NEW d,
         SameDer(der, <<"node", t, <<a, b>>>>, <<"node", u, <<c, d>>>>)
  PROVE  t = u /\ SameDer(der, a, c) /\ SameDer(der, b, d)
<1> DEFINE v == <<"node", t, <<a, b>>>>
           w == <<"node", u, <<c, d>>>>
           x == <<a, b>>
           y == <<c, d>>
<1>1. v[1] = "node" /\ v[2] = t /\ v[3] = x /\ w[2] = u /\ w[3] = y
  OBVIOUS
<1>2. x[1] = a /\ x[2] = b /\ y[1] = c /\ y[2] = d /\ Len(x) = 2 /\ 1 \in 1..2 /\ 2 \in 1..2
  OBVIOUS
<1> HIDE DEF v, w, x, y
<1>3. SameDer(der, v, w)
  BY DEF v, w, x, y
<1>4. v[2] = w[2] /\ \A i \in 1..Len(v[3]) : SameDer(der, v[3][i], w[3][i])
  BY <1>1, <1>3, SameDerHolds
<1> QED BY <1>1, <1>2, <1>4

\* Three values in one, in the same way.
LEMMA ThreeHeld ==
  ASSUME NEW der, DerBy(der), NEW t, NEW u, NEW a, NEW b, NEW c, NEW d, NEW p, NEW q,
         SameDer(der, <<"node", t, <<a, b, p>>>>, <<"node", u, <<c, d, q>>>>)
  PROVE  t = u /\ SameDer(der, a, c) /\ SameDer(der, b, d) /\ SameDer(der, p, q)
<1> DEFINE v == <<"node", t, <<a, b, p>>>>
           w == <<"node", u, <<c, d, q>>>>
           x == <<a, b, p>>
           y == <<c, d, q>>
<1>1. v[1] = "node" /\ v[2] = t /\ v[3] = x /\ w[2] = u /\ w[3] = y
  OBVIOUS
<1>2. /\ x[1] = a /\ x[2] = b /\ x[3] = p /\ y[1] = c /\ y[2] = d /\ y[3] = q
      /\ Len(x) = 3 /\ 1 \in 1..3 /\ 2 \in 1..3 /\ 3 \in 1..3
  OBVIOUS
<1> HIDE DEF v, w, x, y
<1>3. SameDer(der, v, w)
  BY DEF v, w, x, y
<1>4. v[2] = w[2] /\ \A i \in 1..Len(v[3]) : SameDer(der, v[3][i], w[3][i])
  BY <1>1, <1>3, SameDerHolds
<1> QED BY <1>1, <1>2, <1>4

\* One value in another, in the same way.
LEMMA OneHeld ==
  ASSUME NEW der, DerBy(der), NEW t, NEW u, NEW a, NEW c, SameDer(der, <<"node", t, <<a>>>>, <<"node", u, <<c>>>>)
  PROVE  t = u /\ SameDer(der, a, c)
<1> DEFINE v == <<"node", t, <<a>>>>
           w == <<"node", u, <<c>>>>
           x == <<a>>
           y == <<c>>
<1>1. v[1] = "node" /\ v[2] = t /\ v[3] = x /\ w[2] = u /\ w[3] = y
  OBVIOUS
<1>2. x[1] = a /\ y[1] = c /\ Len(x) = 1 /\ 1 \in 1..1
  OBVIOUS
<1> HIDE DEF v, w, x, y
<1>3. SameDer(der, v, w)
  BY DEF v, w, x, y
<1>4. v[2] = w[2] /\ \A i \in 1..Len(v[3]) : SameDer(der, v[3][i], w[3][i])
  BY <1>1, <1>3, SameDerHolds
<1> QED BY <1>1, <1>2, <1>4

\* Values of bytes, of one DER, are of the same bytes.
LEMMA BytesHeld ==
  ASSUME NEW der, DerBy(der), NEW k \in {"atom", "octets"}, NEW t, NEW x, NEW y,
         SameDer(der, <<k, t, x>>, <<k, t, y>>)
  PROVE  x = y
<1> DEFINE v == <<k, t, x>>
           w == <<k, t, y>>
<1>1. v[1] # "node" /\ v[3] = x /\ w[3] = y
  OBVIOUS
<1> HIDE DEF v, w
<1>2. SameDer(der, v, w)
  BY DEF v, w
<1> QED BY <1>1, <1>2, SameDerHolds

\* Sequences that begin with the same two, and may go on.
LEMMA Appended ==
  ASSUME NEW a, NEW b, NEW x, x = <<>> \/ \E z : x = <<z>>
  PROVE  \/ x = <<>> /\ <<a, b>> \o x = <<a, b>>
         \/ \E z : x = <<z>> /\ <<a, b>> \o x = <<a, b, z>>
<1>1. CASE x = <<>>
  <2> DEFINE S == {a, b}
  <2>1. <<a, b>> \in Seq(S)
    OBVIOUS
  <2> HIDE DEF S
  <2>2. <<a, b>> \o <<>> = <<a, b>>
    BY <2>1, ConcatEmptySeq
  <2> QED BY <1>1, <2>2
<1>2. ASSUME NEW z, x = <<z>> PROVE <<a, b>> \o x = <<a, b, z>>
  <2> DEFINE S == {a, b, z}
             p == <<a>>
             q == <<b>>
             r == <<z>>
  <2>1. a \in S /\ b \in S /\ p \in Seq(S) /\ q \in Seq(S) /\ r \in Seq(S)
    OBVIOUS
  <2>2. Cons(a, q) = <<a, b>> /\ Cons(b, r) = <<b, z>> /\ Cons(a, <<b, z>>) = <<a, b, z>>
    BY TwoInRow, ThreeInRow
  <2>3. Cons(a, q) = p \o q /\ Cons(b, r) = q \o r /\ Cons(a, <<b, z>>) = p \o <<b, z>>
    BY DEF Cons
  <2> HIDE DEF S, p, q, r
  <2>4. (p \o q) \o r = p \o (q \o r)
    BY <2>1, Joining
  <2> QED BY <1>2, <2>2, <2>3, <2>4 DEF r
<1> QED BY <1>1, <1>2

\* The parts of an envelope, as they are in one another.
RecipientPart(r) == <<"node", r.kind, <<<<"atom", 2, <<0>>>>, <<"octets", 4, <<r.for, r.cek>>>>>>>>
RecipientsPart(e) == <<"node", 49, [i \in DOMAIN e.recipients |-> RecipientPart(e.recipients[i])]>>
CipherPart(e) == <<"node", 48, <<Oid(e.algorithm), <<"octets", 4, e.iv>>>>>>
SecretPart(e) ==
  IF e.content = <<>> THEN <<>> ELSE <<<<"octets", 128, <<e.content[1].cek>> \o e.content[1].bytes>>>>
ContentPart(e) == <<"node", 48, <<Oid(1), CipherPart(e)>> \o SecretPart(e)>>
BodyPart(e) == <<"node", 48, <<<<"atom", 2, <<0>>>>, RecipientsPart(e), ContentPart(e)>>>>

\* An envelope is made of these parts.
LEMMA EnvelopeParts ==
  ASSUME NEW e
  PROVE  EnvelopeValue(e) = <<"node", 48, <<Oid(e.type), <<"node", 160, <<BodyPart(e)>>>>>>>>
BY DEF EnvelopeValue, Sequence, BodyPart, ContentPart, SecretPart, CipherPart, RecipientsPart, RecipientPart

\* Recipients of one DER are the same recipients.
LEMMA RecipientsApart ==
  ASSUME NEW der, DerBy(der), NEW e \in Envelopes, NEW f \in Envelopes,
         SameDer(der, RecipientsPart(e), RecipientsPart(f))
  PROVE  e.recipients = f.recipients
<1> DEFINE rs == e.recipients
           ss == f.recipients
           A == [i \in DOMAIN rs |-> RecipientPart(rs[i])]
           B == [i \in DOMAIN ss |-> RecipientPart(ss[i])]
           v == <<"node", 49, A>>
           w == <<"node", 49, B>>
           R == [kind : Tag, for : 0..255, cek : 0..255]
<1>1. rs \in Seq(R) /\ ss \in Seq(R)
  BY EnvelopesAssumption
<1>2. v[1] = "node" /\ v[3] = A /\ w[3] = B /\ DOMAIN A = DOMAIN rs /\ DOMAIN B = DOMAIN ss
  OBVIOUS
<1>3. SameDer(der, v, w)
  BY DEF RecipientsPart
<1> HIDE DEF v, w, rs, ss
<1>4. DOMAIN A = DOMAIN B /\ \A i \in DOMAIN A : SameDer(der, A[i], B[i])
  <2> HIDE DEF A, B
  <2> QED BY <1>2, <1>3, SameDerHolds
<1>5. DOMAIN rs = DOMAIN ss
  BY <1>2, <1>4
<1>6. ASSUME NEW i \in DOMAIN rs PROVE rs[i] = ss[i]
  <2> DEFINE r == rs[i]
             s == ss[i]
             z == <<"atom", 2, <<0>>>>
             a == <<r.for, r.cek>>
             b == <<s.for, s.cek>>
  <2>1. r \in R /\ s \in R
    <3> HIDE DEF R
    <3> QED BY <1>1, <1>5, <1>6
  <2>2. A[i] = RecipientPart(r) /\ B[i] = RecipientPart(s)
    BY <1>5, <1>6
  <2>3. SameDer(der, RecipientPart(r), RecipientPart(s))
    <3> HIDE DEF A, B
    <3> QED BY <1>2, <1>4, <1>6, <2>2
  <2>4. SameDer(der, <<"node", r.kind, <<z, <<"octets", 4, a>>>>>>, <<"node", s.kind, <<z, <<"octets", 4, b>>>>>>)
    BY <2>3 DEF RecipientPart
  <2>5. r.kind = s.kind /\ SameDer(der, <<"octets", 4, a>>, <<"octets", 4, b>>)
    <3> HIDE DEF r, s, a, b, z
    <3> QED BY <2>4, TwoHeld
  <2>6. a = b
    <3> HIDE DEF a, b
    <3> QED BY <2>5, BytesHeld
  <2>7. r.for = s.for /\ r.cek = s.cek
    <3> HIDE DEF r, s
    <3> QED BY <2>6
  <2> HIDE DEF r, s
  <2>8. r = s
    BY <2>1, <2>5, <2>7
  <2> QED BY <2>8 DEF r, s
<1>7. rs = ss
  <2> HIDE DEF R
  <2> QED BY <1>1, <1>5, <1>6
<1> QED BY <1>7 DEF rs, ss

\* A sequence of one element at most.
LEMMA AtMostOne ==
  ASSUME NEW S, NEW s \in Seq(S), Len(s) <= 1
  PROVE  s = <<>> \/ \E c \in S : s = <<c>>
<1> DEFINE n == Len(s)
<1>1. n \in Nat /\ n <= 1
  OBVIOUS
<1>2. CASE n = 0
  BY <1>2
<1>3. CASE n = 1
  <2>1. s[1] \in S
    BY <1>3
  <2>2. s = <<s[1]>>
    BY <1>3
  <2> QED BY <2>1, <2>2
<1> HIDE DEF n
<1> QED BY <1>1, <1>2, <1>3

\* Encrypted contents of one DER are the same: also one that is there and one that is
\* not are apart.
LEMMA ContentsApart ==
  ASSUME NEW der, DerBy(der), NEW e \in Envelopes, NEW f \in Envelopes,
         SameDer(der, ContentPart(e), ContentPart(f))
  PROVE  e.algorithm = f.algorithm /\ e.iv = f.iv /\ e.content = f.content
<1> DEFINE C == [cek : 0..255, bytes : Octets]
           x == SecretPart(e)
           y == SecretPart(f)
           a == Oid(1)
           b == CipherPart(e)
           d == CipherPart(f)
           Secret(c) == <<"octets", 128, <<c.cek>> \o c.bytes>>
<1>1. \A g \in Envelopes : \/ g.content = <<>> /\ SecretPart(g) = <<>>
                           \/ \E c \in C : g.content = <<c>> /\ SecretPart(g) = <<Secret(c)>>
  <2> SUFFICES ASSUME NEW g \in Envelopes
               PROVE  \/ g.content = <<>> /\ SecretPart(g) = <<>>
                      \/ \E c \in C : g.content = <<c>> /\ SecretPart(g) = <<Secret(c)>>
    OBVIOUS
  <2> DEFINE s == g.content
  <2>1. s \in Seq(C) /\ Len(s) <= 1
    BY EnvelopesAssumption
  <2>2. SecretPart(g) = IF s = <<>> THEN <<>> ELSE <<Secret(s[1])>>
    BY DEF SecretPart
  <2> HIDE DEF C, s, Secret
  <2>3. s = <<>> \/ \E c \in C : s = <<c>>
    BY <2>1, AtMostOne
  <2>4. CASE s = <<>>
    BY <2>2, <2>4 DEF s
  <2>5. ASSUME NEW c \in C, s = <<c>> PROVE SecretPart(g) = <<Secret(c)>>
    <3>1. s # <<>> /\ s[1] = c
      BY <2>5
    <3> QED BY <2>2, <3>1
  <2> QED BY <2>3, <2>4, <2>5 DEF s
<1>2. SameDer(der, <<"node", 48, <<a, b>> \o x>>, <<"node", 48, <<a, d>> \o y>>)
  BY DEF ContentPart
<1>3. Len(<<a, b>> \o x) = Len(<<a, d>> \o y)
  <2> DEFINE p == <<a, b>> \o x
             q == <<a, d>> \o y
             v == <<"node", 48, p>>
             w == <<"node", 48, q>>
  <2>1. v[1] = "node" /\ v[3] = p /\ w[3] = q
    OBVIOUS
  <2>2. SameDer(der, v, w)
    BY <1>2
  <2> HIDE DEF v, w, p, q
  <2>3. Len(p) = Len(q)
    BY <2>1, <2>2, SameDerHolds
  <2> QED BY <2>3 DEF p, q
<1>4. \A z : Len(<<a, b>>) # Len(<<a, d, z>>) /\ Len(<<a, b, z>>) # Len(<<a, d>>)
  <2> HIDE DEF a, b, d
  <2> QED OBVIOUS
<1>5. SameDer(der, b, d) => e.algorithm = f.algorithm /\ e.iv = f.iv
  <2> SUFFICES ASSUME SameDer(der, b, d) PROVE e.algorithm = f.algorithm /\ e.iv = f.iv
    OBVIOUS
  <2> DEFINE p == <<e.algorithm>>
             q == <<f.algorithm>>
  <2>1. SameDer(der, <<"node", 48, <<<<"atom", 6, p>>, <<"octets", 4, e.iv>>>>>>,
                     <<"node", 48, <<<<"atom", 6, q>>, <<"octets", 4, f.iv>>>>>>)
    BY DEF CipherPart, Oid
  <2> HIDE DEF p, q
  <2>2. SameDer(der, <<"atom", 6, p>>, <<"atom", 6, q>>) /\ SameDer(der, <<"octets", 4, e.iv>>, <<"octets", 4, f.iv>>)
    BY <2>1, TwoHeld
  <2>3. p = q /\ e.iv = f.iv
    BY <2>2, BytesHeld
  <2>4. p[1] = e.algorithm /\ q[1] = f.algorithm
    BY DEF p, q
  <2> QED BY <2>3, <2>4
<1> HIDE DEF x, y, a, b, d, C
<1>6. CASE x = <<>> /\ y = <<>>
  <2>1. e.content = <<>> /\ f.content = <<>>
    <3>1. \A c : <<Secret(c)>> # <<>>
      <4> HIDE DEF Secret
      <4> QED OBVIOUS
    <3> HIDE DEF Secret
    <3> QED BY <1>1, <1>6, <3>1 DEF x, y
  <2>2. <<a, b>> \o x = <<a, b>> /\ <<a, d>> \o y = <<a, d>>
    <3>1. \A z : <<z>> # <<>>
      OBVIOUS
    <3>2. \/ x = <<>> /\ <<a, b>> \o x = <<a, b>>
          \/ \E z : x = <<z>> /\ <<a, b>> \o x = <<a, b, z>>
      <4>1. x = <<>> \/ \E z : x = <<z>>
        BY <1>6
      <4> QED BY <4>1, Appended
    <3>3. \/ y = <<>> /\ <<a, d>> \o y = <<a, d>>
          \/ \E z : y = <<z>> /\ <<a, d>> \o y = <<a, d, z>>
      <4>1. y = <<>> \/ \E z : y = <<z>>
        BY <1>6
      <4> QED BY <4>1, Appended
    <3> QED BY <1>6, <3>1, <3>2, <3>3
  <2>3. SameDer(der, b, d)
    <3>1. SameDer(der, <<"node", 48, <<a, b>>>>, <<"node", 48, <<a, d>>>>)
      BY <1>2, <2>2
    <3> QED BY <3>1, TwoHeld
  <2> QED BY <1>5, <2>1, <2>3
<1>7. ASSUME NEW c \in C, NEW g \in C, e.content = <<c>>, f.content = <<g>>,
             x = <<Secret(c)>>, y = <<Secret(g)>>
      PROVE  SameDer(der, b, d) /\ e.content = f.content
  <2> DEFINE s == Secret(c)
             t == Secret(g)
             k == <<c.cek>> \o c.bytes
             l == <<g.cek>> \o g.bytes
  <2>1. <<a, b>> \o x = <<a, b, s>> /\ <<a, d>> \o y = <<a, d, t>>
    <3> HIDE DEF s, t
    <3>1. x = <<s>> /\ y = <<t>>
      BY <1>7 DEF s, t
    <3>2. \A z : <<z>> # <<>>
      OBVIOUS
    <3>3. \A z, u : <<z>> = <<u>> => z = u
      OBVIOUS
    <3>4. \/ x = <<>> /\ <<a, b>> \o x = <<a, b>>
          \/ \E z : x = <<z>> /\ <<a, b>> \o x = <<a, b, z>>
      <4>1. x = <<>> \/ \E z : x = <<z>>
        BY <3>1
      <4> QED BY <4>1, Appended
    <3>5. \/ y = <<>> /\ <<a, d>> \o y = <<a, d>>
          \/ \E z : y = <<z>> /\ <<a, d>> \o y = <<a, d, z>>
      <4>1. y = <<>> \/ \E z : y = <<z>>
        BY <3>1
      <4> QED BY <4>1, Appended
    <3>6. <<a, b>> \o x = <<a, b, s>>
      BY <3>1, <3>2, <3>3, <3>4
    <3>7. <<a, d>> \o y = <<a, d, t>>
      BY <3>1, <3>2, <3>3, <3>5
    <3> QED BY <3>6, <3>7
  <2>2. SameDer(der, b, d) /\ SameDer(der, s, t)
    <3> HIDE DEF s, t
    <3>1. SameDer(der, <<"node", 48, <<a, b, s>>>>, <<"node", 48, <<a, d, t>>>>)
      BY <1>2, <2>1
    <3> QED BY <3>1, ThreeHeld
  <2>3. k = l
    <3>1. SameDer(der, <<"octets", 128, k>>, <<"octets", 128, l>>)
      BY <2>2
    <3> HIDE DEF k, l
    <3> QED BY <3>1, BytesHeld
  <2>4. c.cek \in 0..255 /\ g.cek \in 0..255 /\ c.bytes \in Octets /\ g.bytes \in Octets
    BY DEF C
  <2>5. \A p, q \in 0..255, u, w \in Octets : <<p>> \o u = <<q>> \o w => p = q /\ u = w
    <3> HIDE DEF k, l, s, t, C, Secret
    <3> QED BY ByteInFront, ZenonT(60)
  <2>6. c.cek = g.cek /\ c.bytes = g.bytes
    BY <2>3, <2>4, <2>5, ZenonT(60)
  <2>7. c = [cek |-> c.cek, bytes |-> c.bytes] /\ g = [cek |-> g.cek, bytes |-> g.bytes]
    BY DEF C
  <2>8. c = g
    BY <2>6, <2>7, ZenonT(60)
  <2> QED BY <1>7, <2>2, <2>8
<1>8. CASE x # <<>> /\ y # <<>>
  <2> HIDE DEF Secret
  <2>1. PICK c \in C : e.content = <<c>> /\ x = <<Secret(c)>>
    BY <1>1, <1>8 DEF x
  <2>2. PICK g \in C : f.content = <<g>> /\ y = <<Secret(g)>>
    BY <1>1, <1>8 DEF y
  <2>3. SameDer(der, b, d) /\ e.content = f.content
    BY <1>7, <2>1, <2>2
  <2> QED BY <1>5, <2>3
<1>9. (x = <<>>) <=> (y = <<>>)
  <2> HIDE DEF Secret
  <2>1. x = <<>> \/ \E z : x = <<z>>
    BY <1>1 DEF x
  <2>2. y = <<>> \/ \E z : y = <<z>>
    BY <1>1 DEF y
  <2>3. \/ x = <<>> /\ <<a, b>> \o x = <<a, b>>
        \/ \E z : x = <<z>> /\ <<a, b>> \o x = <<a, b, z>>
    BY <2>1, Appended
  <2>4. \/ y = <<>> /\ <<a, d>> \o y = <<a, d>>
        \/ \E z : y = <<z>> /\ <<a, d>> \o y = <<a, d, z>>
    BY <2>2, Appended
  <2>5. \A z : <<z>> # <<>>
    OBVIOUS
  <2>6. CASE x = <<>>
    <3>1. <<a, b>> \o x = <<a, b>>
      BY <2>3, <2>5, <2>6
    <3> QED BY <1>3, <1>4, <2>4, <2>6, <3>1
  <2>7. CASE y = <<>>
    <3>1. <<a, d>> \o y = <<a, d>>
      BY <2>4, <2>5, <2>7
    <3> QED BY <1>3, <1>4, <2>3, <2>7, <3>1
  <2> QED BY <2>6, <2>7
<1> QED BY <1>6, <1>8, <1>9

\* Envelopes of one DER say the same in every field that is read.
LEMMA EnvelopesApart ==
  ASSUME NEW e \in Envelopes, NEW f \in Envelopes, DerOf(EnvelopeValue(e)) = DerOf(EnvelopeValue(f))
  PROVE  EnvelopeRead(e, f)
<1> DEFINE v == EnvelopeValue(e)
           w == EnvelopeValue(f)
           t == <<e.type>>
           u == <<f.type>>
           p == BodyPart(e)
           q == BodyPart(f)
           z == <<"atom", 2, <<0>>>>
<1>1. v \in Tree[BerDepth] /\ w \in Tree[BerDepth] /\ Brief(DerOf(v))
  BY EnvelopesAssumption DEF Modest, Brief
<1>2. PICK der : DerBy(der) /\ SameDer(der, v, w)
  <2> HIDE DEF v, w
  <2>1. DerOf(v) = DerOf(w)
    BY DEF v, w
  <2> QED BY <1>1, <2>1, SameDerBegins
<1>3. SameDer(der, <<"node", 48, <<<<"atom", 6, t>>, <<"node", 160, <<p>>>>>>>>,
                   <<"node", 48, <<<<"atom", 6, u>>, <<"node", 160, <<q>>>>>>>>)
  BY <1>2, EnvelopeParts DEF Oid
<1> HIDE DEF v, w, t, u, p, q, z
<1>4. SameDer(der, <<"atom", 6, t>>, <<"atom", 6, u>>) /\ SameDer(der, <<"node", 160, <<p>>>>, <<"node", 160, <<q>>>>)
  BY <1>2, <1>3, TwoHeld
<1>5. t = u
  BY <1>2, <1>4, BytesHeld
<1>6. e.type = f.type
  <2>1. t[1] = e.type /\ u[1] = f.type
    BY DEF t, u
  <2> QED BY <1>5, <2>1
<1>7. SameDer(der, p, q)
  BY <1>2, <1>4, OneHeld
<1>8. SameDer(der, <<"node", 48, <<z, RecipientsPart(e), ContentPart(e)>>>>,
                   <<"node", 48, <<z, RecipientsPart(f), ContentPart(f)>>>>)
  BY <1>7 DEF p, q, z, BodyPart
<1>9. SameDer(der, RecipientsPart(e), RecipientsPart(f)) /\ SameDer(der, ContentPart(e), ContentPart(f))
  BY <1>2, <1>8, ThreeHeld
<1> QED BY <1>2, <1>6, <1>9, RecipientsApart, ContentsApart DEF EnvelopeRead

\* The bytes of a KMS reply decide the envelope, and so the secret that is taken out of
\* it: whatever the styles of encoding, two envelopes of the same bytes say the same in
\* every field decrypt_enveloped_data reads, and what a reply is opened to is not a
\* matter of which envelope it is taken for.
THEOREM BytesDecide ==
  \A e, f \in Envelopes :
    /\ \A s, t \in Styles : BerOf(EnvelopeValue(e), s) = BerOf(EnvelopeValue(f), t) => EnvelopeRead(e, f)
    /\ \A b : Decrypt(b, e) # <<>> /\ Decrypt(b, f) # <<>> => Decrypt(b, e) = Decrypt(b, f)
<1> SUFFICES ASSUME NEW e \in Envelopes, NEW f \in Envelopes
             PROVE  /\ \A s, t \in Styles : BerOf(EnvelopeValue(e), s) = BerOf(EnvelopeValue(f), t) =>
                                              EnvelopeRead(e, f)
                    /\ \A b : Decrypt(b, e) # <<>> /\ Decrypt(b, f) # <<>> => Decrypt(b, e) = Decrypt(b, f)
  OBVIOUS
<1> DEFINE v == EnvelopeValue(e)
           w == EnvelopeValue(f)
           d == DerOf(v)
           g == DerOf(w)
<1>1. /\ v \in Tree[BerDepth] /\ w \in Tree[BerDepth] /\ Brief(d) /\ Brief(g)
      /\ \A s \in Styles : Brief(BerOf(v, s)) /\ Brief(BerOf(w, s))
  BY EnvelopesAssumption DEF Modest, Brief
<1>2. d = g => EnvelopeRead(e, f)
  BY EnvelopesApart
<1>3. <<d>> = <<g>> => d = g
  <2> HIDE DEF d, g
  <2> QED OBVIOUS
<1> HIDE DEF v, w
<1>4. ASSUME NEW s \in Styles, NEW t \in Styles, BerOf(v, s) = BerOf(w, t) PROVE EnvelopeRead(e, f)
  <2>1. Normalize(BerOf(v, s)) = <<d>> /\ Normalize(BerOf(w, t)) = <<g>>
    BY <1>1, Rewriting
  <2> HIDE DEF d, g
  <2> QED BY <1>2, <1>3, <1>4, <2>1
<1>5. ASSUME NEW b, Decrypt(b, e) # <<>>, Decrypt(b, f) # <<>> PROVE Decrypt(b, e) = Decrypt(b, f)
  <2>1. /\ Normalize(b) = <<d>> /\ Decrypt(b, e) = <<e.content[1].bytes>>
        /\ Normalize(b) = <<g>> /\ Decrypt(b, f) = <<f.content[1].bytes>>
    BY <1>5 DEF Decrypt, v, w
  <2>2. e.content = f.content
    <3> HIDE DEF d, g
    <3> QED BY <1>2, <1>3, <2>1 DEF EnvelopeRead
  <2> QED BY <2>1, <2>2
<1> QED BY <1>4, <1>5 DEF v, w
=============================================================================
