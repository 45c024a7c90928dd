----------------------------- MODULE PerpsDecode -----------------------------
(***************************************************************************)
(* POST /v1/sign/jupiter-tx: which instruction of a Solana transaction is  *)
(* the trade, what it asks for (core/src/jupiter/decode.rs), and which     *)
(* slot the delegate signs (core/src/jupiter/sign.rs).  The session the    *)
(* trade is then charged to is JupiterSession's subject: a request of this *)
(* module has none.                                                        *)
(*                                                                         *)
(* A transaction is [keys, loaded, slots, ixs]: its static keys, the keys  *)
(* its lookup tables add when it runs, the number of its signature slots,  *)
(* and instructions [program, accounts, disc, args] whose indices count    *)
(* from 1 here.                                                            *)
(***************************************************************************)
EXTENDS ByteCodec

CONSTANTS
  PerpsProgram, DefaultKey,  \* keys
  AssetOf                    \* the asset of each custody key

ASSUME PerpsAssumption ==
  DefaultKey # PerpsProgram /\ DefaultKey \notin DOMAIN AssetOf

Increase == "create_increase_position_market_request"
Decrease == "create_decrease_position_market_request"

Absent == -1

\* Reader: the value of a type at the head of buf and the rest of buf; <<>>
\* where the reader refuses.
ReadU64(buf) ==
  IF Len(buf) < U64Bytes THEN <<>>
  ELSE <<LittleEndian(SubSeq(buf, 1, U64Bytes)), SubSeq(buf, U64Bytes + 1, Len(buf))>>

ReadUpTo(max, buf) ==
  IF buf = <<>> THEN <<>> ELSE IF buf[1] > max THEN <<>> ELSE <<buf[1], Tail(buf)>>

\* tag is read first, value after it.
ReadOption(tag, value) ==
  IF tag = <<>> THEN <<>> ELSE IF tag[1] = 0 THEN <<Absent, tag[2]>> ELSE value

ReadType(type, buf) ==
  CASE type = "u64" -> ReadU64(buf)
    [] type = "side" -> ReadUpTo(2, buf)
    [] type = "option u64" -> ReadOption(ReadUpTo(1, buf), ReadU64(Tail(buf)))
    [] type = "option bool" -> ReadOption(ReadUpTo(1, buf), ReadUpTo(1, Tail(buf)))

\* Mutant of Fields: size and collateral in the same order in both.
FieldsAlike(disc) ==
  IF disc = Increase
  THEN <<<<"size", "u64">>, <<"collateral", "u64">>, <<"side", "side">>,
         <<"slippage", "u64">>, <<"minimum_out", "option u64">>, <<"counter", "u64">>>>
  ELSE <<<<"size", "u64">>, <<"collateral", "u64">>, <<"slippage", "u64">>,
         <<"minimum_out", "option u64">>, <<"entire", "option bool">>, <<"counter", "u64">>>>

\* The fields of a request, in the order they are read.
Fields(disc) ==
  IF disc = Increase
  THEN <<<<"size", "u64">>, <<"collateral", "u64">>, <<"side", "side">>,
         <<"slippage", "u64">>, <<"minimum_out", "option u64">>, <<"counter", "u64">>>>
  ELSE <<<<"collateral", "u64">>, <<"size", "u64">>, <<"slippage", "u64">>,
         <<"minimum_out", "option u64">>, <<"entire", "option bool">>, <<"counter", "u64">>>>

ReadField(sofar, field) ==
  IF sofar = <<>> THEN <<>>
  ELSE LET read == ReadType(field[2], sofar[2])
       IN IF read = <<>> THEN <<>>
          ELSE <<[f \in DOMAIN sofar[1] \cup {field[1]} |->
                    IF f = field[1] THEN read[1] ELSE sofar[1][f]], read[2]>>

\* The arguments by field and what is left of buf; <<>> where refused.
ReadArgs(disc, buf) ==
  LET sofar[n \in 0..Len(Fields(disc))] ==
        IF n = 0 THEN <<[f \in {} |-> 0], buf>> ELSE ReadField(sofar[n - 1], Fields(disc)[n])
  IN sofar[Len(Fields(disc))]

-----------------------------------------------------------------------------
KeyAt(tx, i) == IF i \in DOMAIN tx.keys THEN tx.keys[i] ELSE DefaultKey

AccountsNeeded == 9
CustodyAccount == 8

Matches(ix) == ix.disc \in {Increase, Decrease}

\* A perps instruction without a discriminator or that does not decode.
Malformed(ix) ==
  \/ ix.disc = "none"
  \/ Matches(ix) /\ (ReadArgs(ix.disc, ix.args) = <<>> \/ Len(ix.accounts) < AccountsNeeded)

\* The places of the instructions.
PerpsIxs(tx) == {i \in DOMAIN tx.ixs : KeyAt(tx, tx.ixs[i].program) = PerpsProgram}
TradeIxs(tx) == {i \in PerpsIxs(tx) : Matches(tx.ixs[i])}

\* Mutant of OneTrade: the last match counts.
OneTradeOrMore(tx) == TradeIxs(tx) # {} /\ ~\E i \in PerpsIxs(tx) : Malformed(tx.ixs[i])

OneTrade(tx) ==
  /\ TradeIxs(tx) # {} /\ \A i, j \in TradeIxs(tx) : i = j
  /\ ~\E i \in PerpsIxs(tx) : Malformed(tx.ixs[i])

Trade(tx) == tx.ixs[Max(TradeIxs(tx))]
Custody(tx) == KeyAt(tx, Trade(tx).accounts[CustodyAccount])

\* sign_versioned_transaction: the slot of the delegate's signature, 0 if none.
SlotOf(tx, delegate) ==
  LET i == SelectInSeq(tx.keys, LAMBDA k : k = delegate)
  IN IF i <= tx.slots THEN i ELSE 0

\* The handler, of an intent whose signature has been verified or not.
SignJupiterTx(req) ==
  IF /\ req.verified
     /\ OneTrade(req.tx)
     /\ Custody(req.tx) \in DOMAIN AssetOf
     /\ AssetOf[Custody(req.tx)] = req.asset
     /\ SlotOf(req.tx, req.delegate) # 0
  THEN [signed |-> TRUE, slot |-> SlotOf(req.tx, req.delegate),
        trade |-> ReadArgs(Trade(req.tx).disc, Trade(req.tx).args)[1]]
  ELSE [signed |-> FALSE]

-----------------------------------------------------------------------------
(* What an instruction asks of the program it calls: borsh, written down   *)
(* field by field from its arguments.                                      *)

Option(bytes, v) == IF v = Absent THEN <<0>> ELSE <<1>> \o bytes

Borsh(disc, a) ==
  IF disc = Increase
  THEN U64(a.size) \o U64(a.collateral) \o <<a.side>> \o U64(a.slippage) \o
       Option(U64(a.minimum_out), a.minimum_out) \o U64(a.counter)
  ELSE U64(a.collateral) \o U64(a.size) \o U64(a.slippage) \o
       Option(U64(a.minimum_out), a.minimum_out) \o
       Option(<<a.entire>>, a.entire) \o U64(a.counter)

\* The key an account index means when the transaction runs.
RunKey(tx, i) == LET all == tx.keys \o tx.loaded IN IF i \in DOMAIN all THEN all[i] ELSE DefaultKey

\* The instructions that request a trade when it runs: a program is always one
\* of the static keys.
RunTrades(tx) ==
  {i \in DOMAIN tx.ixs :
     /\ tx.ixs[i].program \in DOMAIN tx.keys
     /\ RunKey(tx, tx.ixs[i].program) = PerpsProgram
     /\ Matches(tx.ixs[i])}
=============================================================================
