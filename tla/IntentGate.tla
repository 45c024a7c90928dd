------------------------------ MODULE IntentGate ------------------------------
(***************************************************************************)
(* The signed text of an intent (core/src/canonical.rs) and the check of   *)
(* its signature (core/src/intents.rs, solana.rs).                         *)
(*                                                                         *)
(* A JSON value is <<"null">>, <<"bool", literal>>, <<"num", characters>>, *)
(* <<"str", characters>>, <<"arr", values>> or <<"obj", members>>, each    *)
(* member <<key, value>> with a key of its own, in the order it was        *)
(* written.  A text is a sequence of characters, a literal counting as     *)
(* one.  A signature is [by, over]: the key that made it and the text it   *)
(* is of; [by |-> <<>>] stands for one that does not decode.               *)
(***************************************************************************)
EXTENDS Positional, SequencesExt

CONSTANTS
  Rank,     \* the byte of each character
  MaxDepth, \* of a JSON value: 128, the limit of serde_json's parser
  Keys,     \* the texts that decode to a public key
  PubkeyField, ExpiryField  \* the names solana_pubkey and expiry

-----------------------------------------------------------------------------
(* JSON values. *)

JsonChar == DOMAIN Rank
Digit == {c \in JsonChar : Rank[c] \in 48..57}
NumberChar == Digit \cup {c \in JsonChar : Rank[c] \in {43, 45, 46, 101}}  \* + - . e
Quote == "\""
Backslash == "\\"
Literal == {"null", "true", "false"}
Structure == {Quote, Backslash, "[", "]", "{", "}", ",", ":"}

\* A control character is escaped by a letter or by its number: by itself here.
Escaped == {Quote, Backslash} \cup {c \in JsonChar : Rank[c] < 32}

ASSUME GateAssumption ==
  /\ MaxDepth \in Nat
  /\ Rank \in [JsonChar -> Nat] /\ \A c, d \in JsonChar : Rank[c] = Rank[d] => c = d
  /\ NumberChar \cap (Literal \cup Structure) = {}
  /\ <<>> \notin Keys

Scalars ==
  {<<"null">>} \cup ({"bool"} \X {"true", "false"}) \cup
  ({"num"} \X (Seq(NumberChar) \ {<<>>})) \cup ({"str"} \X Seq(JsonChar))

KeysOf(members) == {m[1] : m \in Range(members)}

Members(values) ==
  {ms \in Seq(Seq(JsonChar) \X values) :
     \A i, j \in DOMAIN ms : ms[i][1] = ms[j][1] => i = j}

\* The values of a depth, and those with these inside.
Over(values) == Scalars \cup ({"arr"} \X Seq(values)) \cup ({"obj"} \X Members(values))
Nested[n \in 0..MaxDepth] == IF n = 0 THEN {} ELSE Over(Nested[n - 1])
Json == Nested[MaxDepth]

\* The value of a key.
At(members, key) == LET i == CHOOSE i \in DOMAIN members : members[i][1] = key IN members[i][2]

-----------------------------------------------------------------------------
(* The canonical text. *)

\* Mutant of Quoted: nothing is escaped.
QuotedRaw(s) == <<Quote>> \o s \o <<Quote>>

\* serde_json's text of a string.
Quoted(s) ==
  <<Quote>> \o
  FlattenSeq([i \in DOMAIN s |-> IF s[i] \in Escaped THEN <<Backslash, s[i]>> ELSE <<s[i]>>])
  \o <<Quote>>

\* Bytewise order of two keys.
Before(s, t) ==
  \/ IsStrictPrefix(s, t)
  \/ \E i \in DOMAIN s \cap DOMAIN t :
       Rank[s[i]] < Rank[t[i]] /\ \A j \in 1..(i - 1) : s[j] = t[j]

Separated(texts) ==
  FlattenSeq([i \in DOMAIN texts |-> IF i = 1 THEN texts[i] ELSE <<",">> \o texts[i]])

\* Mutant of ByKey: keys as they were written.
AsWritten(members) == [i \in DOMAIN members |-> members[i][1]]

\* The keys, each behind those that come before it.
ByKey(members) ==
  LET keys == KeysOf(members)
  IN [p \in 1..Cardinality(keys) |->
        CHOOSE k \in keys : Cardinality({l \in keys : Before(l, k)}) = p - 1]

\* write_canonical, with inner for its calls of itself; a number parsed from JSON
\* is finite.
Written(value, inner) ==
  CASE value[1] = "null" -> <<"null">>
    [] value[1] = "bool" -> <<value[2]>>
    [] value[1] = "num" -> value[2]
    [] value[1] = "str" -> Quoted(value[2])
    [] value[1] = "arr" ->
         <<"[">> \o Separated([i \in DOMAIN value[2] |-> inner[value[2][i]]]) \o <<"]">>
    [] value[1] = "obj" ->
         LET keys == ByKey(value[2])
         IN <<"{">> \o
            Separated([p \in DOMAIN keys |->
                         Quoted(keys[p]) \o <<":">> \o inner[At(value[2], keys[p])]]) \o
            <<"}">>

Canonical(value) ==
  LET text[n \in 0..MaxDepth] == [v \in Nested[n] |-> Written(v, text[n - 1])]
  IN text[MaxDepth][value]

-----------------------------------------------------------------------------
(* The check of an intent. *)

Missing == <<>>
FieldOf(intent, name) ==
  IF intent[1] = "obj" /\ name \in KeysOf(intent[2]) THEN At(intent[2], name) ELSE Missing

TextOf(value) == IF value # Missing /\ value[1] = "str" THEN value[2] ELSE <<>>

\* Whose signature is asked for: a text that may be no key.
Expected(req) ==
  IF req.override # <<>> THEN req.override ELSE TextOf(FieldOf(req.intent, PubkeyField))

\* Value::as_u64 of a number: none for one with a sign or a fraction.
IsU64(digits) == digits \in Seq(Digit)
U64Of(digits) == Horner(10, [i \in DOMAIN digits |-> Rank[digits[i]] - 48])

Expired(req) ==
  LET expiry == FieldOf(req.intent, ExpiryField)
  IN /\ req.enforce
     /\ expiry # Missing /\ expiry[1] = "num" /\ IsU64(expiry[2])
     /\ U64Of(expiry[2]) < req.now

\* verify_intent_signature
Verified(req) ==
  /\ Expected(req) \in Keys
  /\ ~Expired(req)
  /\ req.sig.by = Expected(req)
  /\ req.sig.over = Canonical(req.intent)

-----------------------------------------------------------------------------
(* What a JSON value says: the order of an object's members is not part of *)
(* it.                                                                     *)

Said(value, inner) ==
  CASE value[1] = "arr" -> <<"arr", [i \in DOMAIN value[2] |-> inner[value[2][i]]]>>
    [] value[1] = "obj" -> <<"obj", {<<m[1], inner[m[2]]>> : m \in Range(value[2])}>>
    [] OTHER -> value

Meant(value) ==
  LET said[n \in 0..MaxDepth] == [v \in Nested[n] |-> Said(v, said[n - 1])]
  IN said[MaxDepth][value]
=============================================================================
