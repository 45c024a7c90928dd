------------------------------- MODULE Amounts -------------------------------
(***************************************************************************)
(* The parsers that turn a text amount into an unsigned integer:           *)
(* decimal_usdc_to_base_units and U256::from_str_radix as                  *)
(* routes/sign_evm_tx.rs uses them, parse_integer_string and               *)
(* parse_decimal_to_scaled of core/src/intents.rs.  A text is a sequence   *)
(* of characters: 0..9 for the digits, Dot, and Other for the rest.        *)
(***************************************************************************)
EXTENDS Positional, SequencesExt

CONSTANTS
  Decimals,  \* decimals of USDC: 6
  MaxU256    \* the largest integer of the type

ASSUME AmountsAssumption ==
  Decimals \in Nat /\ MaxU256 \in Nat /\ Power(10, Decimals) <= MaxU256

Dot == 10
Other == 11
Char == 0..Other
Refused == -1

Digits(s) == \A i \in DOMAIN s : s[i] \in 0..9
Number(s) == Horner(10, s)
Zeros(n) == [i \in 1..n |-> 0]
\* Mutant of Fits: no limit.
FitsUnchecked(n) == n

Fits(n) == IF n <= MaxU256 THEN n ELSE Refused

FromStrRadix(s) == IF Digits(s) THEN Fits(Number(s)) ELSE Refused

DotAt(s) == SelectInSeq(s, LAMBDA c : c = Dot)
Whole(s) == IF DotAt(s) = 0 THEN s ELSE SubSeq(s, 1, DotAt(s) - 1)
Fraction(s) == IF DotAt(s) = 0 THEN <<>> ELSE SubSeq(s, DotAt(s) + 1, Len(s))

\* Mutant of BaseUnits: pads by one digit too few.
BaseUnitsShort(s) ==
  IF Len(Fraction(s)) > Decimals THEN Refused
  ELSE FromStrRadix(Whole(s) \o Fraction(s) \o
                    Zeros(IF Fraction(s) = <<>> THEN Decimals ELSE Decimals - Len(Fraction(s)) - 1))

\* decimal_usdc_to_base_units
BaseUnits(s) ==
  IF Len(Fraction(s)) > Decimals THEN Refused
  ELSE FromStrRadix(Whole(s) \o Fraction(s) \o Zeros(Decimals - Len(Fraction(s))))

ParseInteger(s) == IF s = <<>> THEN Refused ELSE FromStrRadix(s)

\* Excess digits of the fraction are dropped.
Padded(s, d) == SubSeq(Fraction(s) \o Zeros(d), 1, d)

ParseScaled(s, d) ==
  IF /\ Whole(s) # <<>> /\ Digits(Whole(s))
     /\ DotAt(s) # 0 => Fraction(s) # <<>> /\ Digits(Fraction(s))
     /\ Power(10, d) <= MaxU256 /\ Number(Whole(s)) * Power(10, d) <= MaxU256
  THEN Fits(Number(Whole(s)) * Power(10, d) + Number(Padded(s, d)))
  ELSE Refused

-----------------------------------------------------------------------------
(* What a text amount means: Numerator(s) / Power(10, Len(Fraction(s))). *)

Numerator(s) == Number(Whole(s) \o Fraction(s))
IsDecimal(s) == Digits(Whole(s) \o Fraction(s))

\* n is s in units of 10^-d, rounded down.
RoundsTo(s, d, n) ==
  /\ n * Power(10, Len(Fraction(s))) <= Numerator(s) * Power(10, d)
  /\ Numerator(s) * Power(10, d) < (n + 1) * Power(10, Len(Fraction(s)))

\* n is s in units of 10^-d.
IsExactly(s, d, n) == n * Power(10, Len(Fraction(s))) = Numerator(s) * Power(10, d)
=============================================================================
