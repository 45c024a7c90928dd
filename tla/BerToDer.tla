------------------------------- MODULE BerToDer -------------------------------
(***************************************************************************)
(* The reply of a KMS decrypt: BER rewritten as DER                        *)
(* (storage/src/cms_envelope/ber_to_der.rs), then the secret taken out of  *)
(* the envelope (cms_envelope.rs).  Bytes are 0..255.  A result that may   *)
(* be refused is <<>> when it is; where flatten_primitive would run off    *)
(* the end of its input, and the process with it, the result is refused.   *)
(***************************************************************************)
EXTENDS Positional, SequencesExt

CONSTANT BerDepth  \* of a value whose encodings are compared

ASSUME BerAssumption == BerDepth \in Nat

Octets == Seq(0..255)

Constructed(tag) == (tag[1] \div 32) % 2 = 1
Class(tag) == tag[1] \div 64
TagNumber(tag) == tag[1] % 32
Primitive(tag) == IF Constructed(tag) THEN <<tag[1] - 32>> ELSE <<tag[1]>>

Universal == 0
ContextSpecific == 2
BitString == 3
OctetString == 4

After(bytes, n) == SubSeq(bytes, n + 1, Len(bytes))
Starts(bytes, prefix) == IsPrefix(prefix, bytes)
EndOfContents == <<0, 0>>

\* read_tag
TagOf(bytes) ==
  IF bytes = <<>> THEN <<>>
  ELSE IF TagNumber(bytes) # 31 THEN <<bytes[1]>>
  ELSE LET last == SelectInSeq(Tail(bytes), LAMBDA b : b < 128)
       IN IF last = 0 THEN <<>> ELSE SubSeq(bytes, 1, 1 + last)

\* read_length: <<length, size of its encoding>>.
Indefinite == -1
LengthOf(bytes) ==
  IF bytes = <<>> THEN <<>>
  ELSE LET b == bytes[1]
           size == b - 128
       IN CASE b = 128 -> <<Indefinite, 1>>
            [] b < 128 -> <<b, 1>>
            [] OTHER -> IF size > 8 \/ Len(bytes) < 1 + size THEN <<>>
                        ELSE <<Horner(256, SubSeq(bytes, 2, 1 + size)), 1 + size>>

\* write_definite_length
BaseBytes(n) ==
  LET size == CHOOSE s \in 1..8 : Power(256, s - 1) <= n /\ n < Power(256, s)
  IN [i \in 1..size |-> (n \div Power(256, size - i)) % 256]

Definite(n) == IF n < 128 THEN <<n>> ELSE <<128 + Len(BaseBytes(n))>> \o BaseBytes(n)

Tlv(tag, content) == tag \o Definite(Len(content)) \o content

-----------------------------------------------------------------------------
(* The recursion: inner holds what the calls made from here answer.        *)

\* The first value of bytes: <<tag, content, size>>.
Value(bytes, inner) ==
  LET tag == TagOf(bytes)
      length == LengthOf(After(bytes, Len(tag)))
      start == Len(tag) + length[2]
  IN IF tag = <<>> THEN <<>>
     ELSE IF length = <<>> THEN <<>>
     ELSE IF length[1] = Indefinite
     THEN LET extent == inner.extent[After(bytes, start)]
          IN IF extent = 0 THEN <<>>
             ELSE <<tag, SubSeq(bytes, start + 1, start + extent - 2), start + extent>>
     ELSE IF Len(bytes) < start + length[1] THEN <<>>
          ELSE <<tag, SubSeq(bytes, start + 1, start + length[1]), start + length[1]>>

Segmented(tag) == Class(tag) = Universal /\ TagNumber(tag) \in {OctetString, BitString}

\* Mutant of ImplicitOctets: only a universal tag is taken for a segmented string.
ImplicitOctetsMissed(tag, content, inner) == FALSE

ImplicitOctets(tag, content, inner) == Class(tag) = ContextSpecific /\ inner.octets[content]

\* The DER of a value: <<der>>.
Der(tag, content, inner) ==
  LET flat == inner.flat[IF Segmented(tag) THEN TagNumber(tag) ELSE OctetString][content]
      der == inner.der[content]
  IN CASE ~Constructed(tag) -> <<Tlv(tag, content)>>
       [] Constructed(tag) /\ (Segmented(tag) \/ ImplicitOctets(tag, content, inner)) ->
            IF flat = <<>> THEN <<>> ELSE <<Tlv(Primitive(tag), flat[1])>>
       [] OTHER -> IF der = <<>> THEN <<>> ELSE <<Tlv(tag, der[1])>>

\* rewrite_one: <<der, bytes consumed>>.
Rewrite(bytes, inner) ==
  IF Starts(bytes, EndOfContents) THEN << <<>>, 2 >>
  ELSE LET v == Value(bytes, inner)
           der == Der(v[1], v[2], inner)
       IN IF v = <<>> THEN <<>> ELSE IF der = <<>> THEN <<>> ELSE <<der[1], v[3]>>

\* How far the values up to the end of contents reach, itself included; 0 if refused.
Extent(bytes, inner) ==
  IF Starts(bytes, EndOfContents) THEN 2
  ELSE LET first == inner.rewrite[bytes]
           rest == inner.extent[After(bytes, first[2])]
       IN IF first = <<>> THEN 0 ELSE IF rest = 0 THEN 0 ELSE first[2] + rest

\* flatten_primitive: <<the content of the segments>>.
Flatten(number, bytes, inner) ==
  IF bytes = <<>> THEN << <<>> >>
  ELSE LET v == Value(bytes, inner)
           mine == IF Constructed(v[1]) THEN inner.flat[number][v[2]] ELSE <<v[2]>>
           rest == inner.flat[number][After(bytes, v[3])]
       IN IF v = <<>> THEN <<>>
          ELSE IF Class(v[1]) # Universal \/ TagNumber(v[1]) # number THEN <<>>
          ELSE IF mine = <<>> \/ rest = <<>> THEN <<>> ELSE <<mine[1] \o rest[1]>>

\* all_children_are_octet_strings
OctetStrings(bytes, inner) ==
  LET length == LengthOf(After(bytes, 1))
      end == 1 + length[2] + length[1]
  IN /\ bytes # <<>> /\ bytes[1] = OctetString
     /\ length # <<>> /\ length[1] # Indefinite
     /\ Len(bytes) >= end
     /\ Len(bytes) = end \/ inner.octets[After(bytes, end)]

\* The loop of normalize: <<der>>.
Normalized(bytes, inner) ==
  IF bytes = <<>> THEN << <<>> >>
  ELSE LET first == inner.rewrite[bytes]
           rest == inner.der[After(bytes, first[2])]
       IN IF first = <<>> THEN <<>> ELSE IF rest = <<>> THEN <<>> ELSE <<first[1] \o rest[1]>>

\* What the calls answer of which an inner one answers so.
Calls(inner) ==
  [rewrite |-> [b \in Octets |-> Rewrite(b, inner)],
   extent |-> [b \in Octets |-> Extent(b, inner)],
   flat |-> [number \in {BitString, OctetString} |-> [b \in Octets |-> Flatten(number, b, inner)]],
   octets |-> [b \in Octets |-> OctetStrings(b, inner)],
   der |-> [b \in Octets |-> Normalized(b, inner)]]

Exhausted ==
  [rewrite |-> [b \in Octets |-> <<>>], extent |-> [b \in Octets |-> 0],
   flat |-> [number \in {BitString, OctetString} |-> [b \in Octets |-> <<>>]],
   octets |-> [b \in Octets |-> FALSE], der |-> [b \in Octets |-> <<>>]]

\* What they answer where no more than n are nested in one another.
Reading[n \in Nat] == IF n = 0 THEN Exhausted ELSE Calls(Reading[n - 1])

\* normalize: every second call is of fewer bytes than the one it is made from.
Normalize(bytes) == Reading[2 * Len(bytes) + 2].der[bytes]

-----------------------------------------------------------------------------
(* X.690: a value is <<"octets", tag, bytes>>, a string that may come in    *)
(* segments, <<"atom", tag, bytes>> or <<"node", tag, values>>.  A tag is   *)
(* one byte, and not that of the end of contents.                           *)

Tag == {t \in 1..255 : TagNumber(<<t>>) # 31}
AtomTag == {t \in Tag : ~Constructed(<<t>>)}
StringTag == {t \in AtomTag : t = OctetString \/ Class(<<t>>) = ContextSpecific}
NodeTag == {t \in Tag : Constructed(<<t>>) /\ ~Segmented(<<t>>)}

\* A context-specific tag around octet strings alone is read as an implicit one.
Nodes(values) ==
  {v \in {"node"} \X NodeTag \X Seq(values) :
     Class(<<v[2]>>) = ContextSpecific /\ v[3] # <<>> =>
       \E i \in DOMAIN v[3] : v[3][i][2] # OctetString}

Tree[n \in 0..BerDepth] ==
  IF n = 0 THEN {}
  ELSE ({"atom"} \X AtomTag \X Octets) \cup ({"octets"} \X StringTag \X Octets) \cup Nodes(Tree[n - 1])

\* The shortest form of a length below 256^2.
Shortest(n) ==
  IF n < 128 THEN <<n>> ELSE IF n < 256 THEN <<129, n>> ELSE <<130, n \div 256, n % 256>>
Short(tag, content) == <<tag>> \o Shortest(Len(content)) \o content

DerForm(value, der) ==
  Short(value[2], IF value[1] = "node"
                  THEN FlattenSeq([i \in DOMAIN value[3] |-> der[value[3][i]]])
                  ELSE value[3])
DerOf(value) ==
  LET der[n \in 0..BerDepth] == [v \in Tree[n] |-> DerForm(v, der[n - 1])]
  IN der[BerDepth][value]

\* A style is [length, segments]: the form of the lengths, which alternate
\* through three values, and whether strings come whole, in two segments, or in
\* two of which the first is itself segmented.
Forms == {"short", "long", "indefinite"}
Styles == [length : [0..2 -> Forms], segments : {"whole", "two", "nested"}]

Long(n) == <<130, n \div 256, n % 256>>
InForm(form, tag, content) ==
  IF form = "short" THEN Short(tag, content)
  ELSE IF form = "indefinite" /\ Constructed(<<tag>>) THEN <<tag, 128>> \o content \o EndOfContents
  ELSE <<tag>> \o Long(Len(content)) \o content

\* The segments of an implicitly tagged string are not segmented themselves.
InSegments(style, form, tag, bytes) ==
  LET half == Len(bytes) \div 2
      first == InForm(form, OctetString, SubSeq(bytes, 1, half))
      nested == style.segments = "nested" /\ tag = OctetString
  IN InForm(form, tag + 32,
            (IF nested THEN InForm(form, OctetString + 32, first) ELSE first) \o
            Short(OctetString, SubSeq(bytes, half + 1, Len(bytes))))

\* The encoding of a value in a style, of which it uses the k-th length form.
BerForm(value, style, k, ber) ==
  LET form == style.length[k]
  IN CASE value[1] = "node" ->
            InForm(form, value[2],
                   FlattenSeq([i \in DOMAIN value[3] |-> ber[(k + i) % 3][value[3][i]]]))
       [] value[1] = "octets" /\ style.segments # "whole" ->
            InSegments(style, form, value[2], value[3])
       [] OTHER -> InForm(form, value[2], value[3])
BerOf(value, style) ==
  LET ber[n \in 0..BerDepth] ==
        [k \in 0..2 |-> [v \in Tree[n] |-> BerForm(v, style, k, ber[n - 1])]]
  IN ber[BerDepth][0][value]

-----------------------------------------------------------------------------
(* decrypt_enveloped_data.  An envelope is [type, recipients, algorithm,   *)
(* iv, content]: recipients [kind, for, cek], iv and content sequences of  *)
(* which the empty one is missing, content [cek, bytes].                   *)

Enclave == 1
KeyTrans == 48
EnvelopedData == 3
Aes256Cbc == 42
IvBytes == 16

Oid(n) == <<"atom", 6, <<n>>>>
Sequence(values) == <<"node", 48, values>>

\* RFC 5652; a recipient's encrypted key names who can open it, an encrypted
\* content the key it is under.
EnvelopeValue(e) ==
  LET recipient(r) == <<"node", r.kind, <<<<"atom", 2, <<0>>>>, <<"octets", 4, <<r.for, r.cek>>>>>>>>
      content == IF e.content = <<>> THEN <<>>
                 ELSE <<<<"octets", 128, <<e.content[1].cek>> \o e.content[1].bytes>>>>
  IN Sequence(<<Oid(e.type), <<"node", 160, <<Sequence(<<
       <<"atom", 2, <<0>>>>,
       <<"node", 49, [i \in DOMAIN e.recipients |-> recipient(e.recipients[i])]>>,
       Sequence(<<Oid(1), Sequence(<<Oid(e.algorithm), <<"octets", 4, e.iv>>>>)>> \o content)>>)>>>>>>)

\* Mutant of Cek: the first recipient or none.
CekOfFirst(e) ==
  LET first == e.recipients[1]
  IN IF first.kind = KeyTrans /\ first.for = Enclave THEN <<first>> ELSE <<>>

\* The content key of the first key-transport recipient, if it is the enclave's.
Cek(e) ==
  LET ktris == {i \in DOMAIN e.recipients : e.recipients[i].kind = KeyTrans}
      first == e.recipients[CHOOSE i \in ktris : \A j \in ktris : i <= j]
  IN IF ktris # {} /\ first.for = Enclave THEN <<first>> ELSE <<>>

Opens(e) ==
  /\ e.type = EnvelopedData
  /\ Cek(e) # <<>>
  /\ e.algorithm = Aes256Cbc
  /\ Len(e.iv) = IvBytes
  /\ e.content # <<>>
  /\ e.content[1].cek = Cek(e)[1].cek

\* <<the secret>> of an envelope, if its DER is what the bytes become and it opens.
Decrypt(bytes, e) ==
  IF Opens(e) /\ Normalize(bytes) = <<DerOf(EnvelopeValue(e))>> THEN <<e.content[1].bytes>> ELSE <<>>
=============================================================================
