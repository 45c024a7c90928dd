---------------------------- MODULE MCSigningRoutes ----------------------------
(* SigningRoutes for TLC: the requests. *)
EXTENDS SigningRoutes

Upto(S, n) == UNION {[1..k -> S] : k \in 0..n}
W(n) == Reverse(BytesOf(n, WordBytes))
Cat(words) == FlattenSeq([i \in DOMAIN words |-> W(words[i])])

MCTexts == Upto({0, 1, 5, Dot, Other}, 4)

-----------------------------------------------------------------------------
MCAta(owner) == IF owner = "alice" THEN 300 ELSE 301

Tx(chain, to, selector, args) == [chain |-> chain, to |-> to, selector |-> selector, args |-> args]
Asked(intent, tx) == [verified |-> TRUE, intent |-> intent, tx |-> tx]

Transfers ==
  {Asked([action |-> "erc20_transfer", token |-> 20, recipient |-> 30, amount |-> a],
         Tx(Polygon, to, sel, args)) :
     a \in {<<5>>, <<1, Dot, 5>>, <<>>}, to \in {20, 21}, sel \in {"transfer", "approve"},
     args \in {Cat(<<r, n>>) : r \in {30, 31, 94}, n \in {0, 5, 6}} \cup {W(30)}}

Wraps ==
  {Asked([action |-> "pusd_wrap", source_token |-> s, deposit_wallet |-> 31, max_amount |-> a],
         Tx(Polygon, to, "wrap", Cat(<<x, y, n>>))) :
     s \in {30, 31}, a \in {<<5>>, <<Other>>}, to \in {Onramp, 21}, x \in {30, 31}, y \in {30, 31},
     n \in {0, 5, 6}}

\* Index sets at an offset, after a gap or in bounds only for a smaller count.
ArrayArgs(head, statics) ==
  {Cat(Append(head, off)) \o tail :
     off \in {0, Bytes(statics), Bytes(statics) + WordBytes, U64Max - WordBytes + 1, U64Max + 1},
     tail \in {Cat(<<n>> \o s) : n \in 0..3, s \in Upto({0, 2, 3}, 2) \cup {<<2, 0, 2>>, <<0, 0, 2>>, <<0, 2, 3>>}}}

Redeems ==
  {Asked([action |-> "ctf_redeem", condition_id |-> 7, outcome_index |-> 1], Tx(Polygon, Ctf, "redeemPositions4", args)) :
     args \in UNION {ArrayArgs(h, 4) : h \in {<<Pusd, 0, 7>>, <<Pusd, 0, 8>>, <<Pusd, 1, 7>>, <<20, 0, 7>>}}}

NegRisks ==
  {Asked([action |-> "neg_risk_redeem", condition_id |-> 7, outcome_index |-> o, max_amount |-> <<2>>],
         Tx(Polygon, to, "redeemPositions2", args)) :
     o \in {0, 2}, to \in {NegRiskAdapter, Ctf}, args \in ArrayArgs(<<7>>, 2)}

Intents(action) ==
  {[action |-> action, destination |-> "alice", amount_wei |-> <<5, 0>>],
   [action |-> action, solana_destination |-> "bob", amount |-> <<0, Dot, 5>>],
   [action |-> action, destination |-> "alice", amount |-> <<1>>],
   [action |-> action, destination |-> "alice", amount |-> <<0, Dot, 0, 0, 5>>],
   [action |-> action, amount |-> <<1>>]}

Burns ==
  {Asked(i, Tx(c, TokenMessenger, sel, Cat(<<n, d, r, t, 0, 0, f>>))) :
     i \in UNION {Intents(a) : a \in Withdrawals}, c \in {Polygon, Arbitrum, 1},
     <<sel, d, f>> \in {<<"depositForBurn", Solana, Finality>>, <<"wrap", Solana, Finality>>,
                       <<"depositForBurn", 6, Finality>>, <<"depositForBurn", Solana, 1>>,
                       <<"depositForBurn", Solana + ByteBase, Finality + ByteBase>>},
     n \in {5, 50, 51, 101}, r \in {300, 301}, t \in {PolygonUsdc, ArbitrumUsdc}}

MCEvmCalls ==
  Transfers \cup Wraps \cup Redeems \cup NegRisks \cup Burns
  \cup {[t EXCEPT !.verified = FALSE] : t \in Transfers}
  \cup {[t EXCEPT !.intent.action = "approve"] : t \in Transfers}

-----------------------------------------------------------------------------
MCAssetOf == [sol |-> "SOL", btc |-> "BTC"]

Some(disc) ==
  {Borsh(disc, [size |-> 9, collateral |-> 1, side |-> 1, slippage |-> 0, minimum_out |-> Absent,
                entire |-> 1, counter |-> 2])}

Ixs ==
  {[program |-> p, accounts |-> [i \in 1..n |-> IF i = CustodyAccount THEN c ELSE IF i = 9 THEN 4 ELSE 1],
    disc |-> d, args |-> a] :
     p \in {1, 3}, n \in {8, 9}, c \in {4, 5, 6, 7}, d \in {Increase}, a \in Some(Increase) \cup {<<0>>}}
  \cup {[program |-> 3, accounts |-> [i \in 1..9 |-> 5], disc |-> d, args |-> a] :
          d \in {Decrease, "none", "another"}, a \in Some(Decrease)}

Seconds == {x \in Ixs : x.accounts[CustodyAccount] = 5 /\ Len(x.accounts) = 9 /\ x.args # <<0>>}

MCPerpsCalls ==
  [verified : BOOLEAN, asset : {"SOL", "BTC"}, delegate : {"delegate"},
   tx : [keys : {<<"user", "delegate", "perps", "sol", "btc">>, <<"delegate", "user", "perps", "sol", "btc">>},
         loaded : {<<"sol">>}, slots : {1, 2},
         ixs : {<<>>} \cup {<<x>> : x \in Ixs} \cup {<<x, y>> : x \in Ixs, y \in Seconds}]]

MCPerpsData ==
  [disc : {Increase, Decrease},
   args : {<<1, 2, 3, 0>> \o rest : rest \in Upto(0..1, 8) \cup Upto(0..2, 6)} \cup {<<2, 0, 0, 1, 3>> \o rest : rest \in Upto({1}, 8)}]

MCPerpsTrades ==
  [d \in {Increase, Decrease} |->
     [size : {17, 3}, collateral : {17, 3}, side : 0..2, slippage : {0, 8}, minimum_out : {Absent, 0, 9},
      entire : {Absent, 0, 1}, counter : {0, 9}]]

-----------------------------------------------------------------------------
MCRank ==
  [c \in {"0", "1", "2", "5", "-", "a", "b", "e", "p", "null", "\n", Quote, Backslash, ",", ":"} |->
     CASE c = "0" -> 48 [] c = "1" -> 49 [] c = "2" -> 50 [] c = "5" -> 53 [] c = "-" -> 45
       [] c = "a" -> 97 [] c = "b" -> 98 [] c = "e" -> 101 [] c = "p" -> 112 [] c = "null" -> 110 [] c = "\n" -> 10
       [] c = Quote -> 34 [] c = Backslash -> 92 [] c = "," -> 44 [] c = ":" -> 58]

Str(s) == <<"str", s>>
Obj(members) == <<"obj", members>>
Arr(values) == <<"arr", values>>

Strings == {<<>>, <<"a">>, <<"\"">>, <<"\\">>, <<"\\", "\"">>, <<"a", "\"", ",", "\"", "b">>,
            <<"a", "\"", ",", "\"", "b", "\"", ":", "1">>, <<"null">>, <<"\n", "1">>}
Plain == {Str(s) : s \in Strings} \cup {<<"null">>, <<"bool", "true">>, <<"num", <<"1">>>>,
                                          <<"num", <<"1", "2">>>>}
MCJsons ==
  Plain
  \cup {Arr(<<>>), Arr(<<Str(<<"a">>), Str(<<"b">>)>>), Arr(<<Arr(<<Str(<<"a">>)>>), Str(<<"b">>)>>)}
  \cup {Arr(<<v>>) : v \in Plain}
  \cup {Obj(<<>>), Obj(<<<<<<"a", "b">>, Str(<<"b">>)>>, <<<<"a">>, Str(<<"b">>)>>>>),
        Obj(<<<<<<"a">>, Str(<<"b">>)>>, <<<<"a", "b">>, Str(<<"b">>)>>>>)}
  \cup {Obj(<<<<<<"a">>, v>>>>) : v \in Plain}
  \cup {Obj(<<<<<<"a">>, Obj(<<<<<<"b">>, v>>, <<<<"a">>, <<"null">>>>>>)>>>>) : v \in Plain}
  \cup {Obj(<<<<<<"a">>, Obj(<<<<<<"a">>, <<"null">>>>, <<<<"b">>, v>>>>)>>>>) : v \in Plain}

MCKeys == {<<"a">>, <<"b">>}
MCPubkeyField == <<"p">>
MCExpiryField == <<"e">>

Expiries == {<<"num", <<"1", "2">>>>, <<"num", <<"1", "0">>>>, <<"num", <<"-", "1">>>>, Str(<<"1">>)}

Wrote ==
  {Obj(<<<<<<"e">>, e>>, <<<<"p">>, p>>>>) : e \in Expiries, p \in {Str(<<"a">>), Str(<<"b">>), Str(<<>>)}}
  \cup {Obj(<<<<<<"p">>, p>>, <<<<"e">>, e>>>>) : e \in Expiries, p \in {Str(<<"a">>), <<"null">>}}
  \cup {Obj(<<<<<<"p">>, Str(<<"a">>)>>>>), Obj(<<>>), Arr(<<Str(<<"p">>), Str(<<"a">>)>>), Str(<<"a">>)}

MCIntentChecks ==
  {[intent |-> i, override |-> o, enforce |-> x, now |-> t, wrote |-> w,
    sig |-> [by |-> k, over |-> Canonical(w)]] :
     i \in Wrote, w \in Wrote, o \in {<<>>, <<"b">>}, x \in BOOLEAN, t \in {10, 11},
     k \in {<<"a">>, <<"b">>, <<>>}}

-----------------------------------------------------------------------------
MCContracts ==
  [factory |-> 1, implementation |-> 2, exchange |-> 3, neg_risk_exchange |-> 4, neg_risk_adapter |-> 5,
   pusd |-> 6, ctf |-> 7, usdc_arbitrum |-> 8, hl_bridge |-> 9]

MCUsers == {<<1, 1>>, <<1, 2>>, <<2, 1>>, <<3, 3>>}

\* <<1, 2>> needs a second attempt, <<2, 1>> a third, <<3, 3>> has no key.
MCBadScalars == {<<1, 2>>, <<2, 1>>, <<2, 1, 1>>, <<3, 3>>, <<3, 3, 1>>, <<3, 3, 2>>}

WalletOf(user) == DepositWallet(Eoa(UserKey(user)))
AnOrder(user) ==
  [salt |-> 1, maker |-> WalletOf(user), signer |-> WalletOf(user), token |-> 1, maker_amount |-> 2,
   taker_amount |-> 3, side |-> 0, signature_type |-> 3, timestamp |-> 4, metadata |-> 0, builder |-> 0]
ATx == [chain |-> Polygon, nonce |-> 1, max_priority_fee |-> 2, max_fee |-> 3, gas_limit |-> 4, to |-> 5,
        value |-> 0, data |-> <<1>>]
ATwap == [kind |-> "twap", market |-> <<1, 2>>, signed_at |-> 9, nonce |-> 1, price |-> 9, window |-> 1,
          start |-> 0, end |-> 0]

MCStatements ==
  UNION {
    {[kind |-> "order", user |-> u, neg_risk |-> r, order |-> o] :
       r \in BOOLEAN,
       o \in {AnOrder(u), [AnOrder(u) EXCEPT !.side = 1], [AnOrder(u) EXCEPT !.builder = 1],
              [AnOrder(u) EXCEPT !.maker_amount = 3, !.taker_amount = 2],
              [AnOrder(u) EXCEPT !.signature_type = 2]}}
    \cup {[kind |-> "batch", user |-> u, purpose |-> p, wallet |-> w, nonce |-> n, deadline |-> d, calls |-> c] :
            p \in {"bootstrap_approvals"}, w \in {WalletOf(u), WalletOf(<<1, 1>>)},
            n \in {1, 2}, d \in {1, 2}, c \in {<<>>, BootstrapCalls}}
    \cup {[kind |-> "batch", user |-> u, purpose |-> p, wallet |-> WalletOf(u), nonce |-> 1, deadline |-> 1, calls |-> c] :
            p \in {"bootstrap_approvals", "transfer"}, c \in {<<>>, Tail(BootstrapCalls)}}
    \cup {[kind |-> "permit", user |-> u, value |-> v, nonce |-> n, deadline |-> d] :
            v \in {1, 2}, n \in {1, 2}, d \in {1, 2}}
    \cup {[kind |-> "agent", user |-> u, network |-> n, connection |-> c] :
            n \in {"mainnet", "testnet", "devnet"}, c \in {1, 2}}
    \cup {[kind |-> "user_action", user |-> u, chain |-> c, struct |-> h] :
            c \in {1337, Polygon}, h \in {Num(1), Hash(<<Text("Agent"), Text("a"), Num(1)>>), OrderHash(AnOrder(u))}}
    \cup {[kind |-> "clob_auth", user |-> u, timestamp |-> t, nonce |-> n] : t \in {1, 2}, n \in {1, 2}}
    \cup {[kind |-> "link", user |-> u]}
    \cup {[kind |-> "tx", user |-> u, tx |-> t] :
            t \in {ATx, [ATx EXCEPT !.chain = Arbitrum], [ATx EXCEPT !.nonce = 2], [ATx EXCEPT !.value = 1],
                   [ATx EXCEPT !.data = <<1, 1>>]}}
    : u \in {<<1, 1>>, <<1, 2>>, <<3, 3>>}}
  \cup {ATwap, [ATwap EXCEPT !.nonce = 2], [ATwap EXCEPT !.start = 1], [ATwap EXCEPT !.price = 1, !.window = 0]}
  \cup {[kind |-> "resolution", market |-> <<1, 2>>, signed_at |-> 9, nonce |-> 1, outcome_bps |-> b, resolved_at |-> t] :
          b \in {0, 1}, t \in {0, 1, 9}}
  \cup {[kind |-> "liquidation", market |-> <<1, 2>>, signed_at |-> 9, nonce |-> 1, pmlc |-> p, mark |-> m, breach_at |-> t] :
          p \in {<<1, 1, 1, 0, 0, 0, 0, 0>>, <<1, 0, 0, 0, 0, 0, 0, 0>>}, m \in {0, 1}, t \in {-1, 0, 1}}

MCDerivations == {"evm", "jupiter", "session", "dek", "attestor"} \X MCUsers

-----------------------------------------------------------------------------
Content(n) == [i \in 1..n |-> (7 * i) % 3]
MCBerValues ==
  {<<"atom", 2, <<1>>>>, <<"atom", 2, Content(127)>>, <<"atom", 2, Content(128)>>,
   <<"octets", 4, <<0, 0, 1>>>>, <<"octets", 4, Content(200)>>, <<"octets", 128, <<4, 0, 0>>>>}
  \cup {Sequence(v) : v \in {<<>>, <<<<"octets", 4, <<>>>>, <<"octets", 4, <<36, 128, 0, 0>>>>>>,
                             <<Sequence(<<<<"octets", 128, Content(130)>>>>), Oid(3)>>,
                             <<<<"node", 160, <<Sequence(<<Oid(1), <<"octets", 128, <<0, 0>>>>>>)>>>>,
                               Sequence(<<<<"atom", 5, <<>>>>, Sequence(<<>>)>>)>>}}

Recipient(kind, for, cek) == [kind |-> kind, for |-> for, cek |-> cek]
MCEnvelopes ==
  {[type |-> d[1], recipients |-> r, algorithm |-> d[2], iv |-> Content(d[3]), content |-> c] :
     d \in {<<EnvelopedData, Aes256Cbc, 16>>, <<1, Aes256Cbc, 16>>, <<EnvelopedData, 41, 16>>,
            <<EnvelopedData, Aes256Cbc, 15>>},
     r \in {<<Recipient(KeyTrans, Enclave, 5)>>, <<Recipient(161, 2, 5), Recipient(KeyTrans, Enclave, 5)>>,
            <<Recipient(KeyTrans, 2, 5), Recipient(KeyTrans, Enclave, 5)>>, <<Recipient(161, 2, 5)>>},
     c \in {<<>>, <<[cek |-> 5, bytes |-> Content(9)]>>, <<[cek |-> 6, bytes |-> Content(9)]>>}}
=============================================================================
