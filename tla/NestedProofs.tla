----------------------------- MODULE NestedProofs -----------------------------
(***************************************************************************)
(* Lemmas about IntentGate and BerToDer, whose values hold values, for     *)
(* every set of characters and every depth: two JSON values have one       *)
(* canonical text exactly if they say the same, and every BER encoding of  *)
(* a value is rewritten as its DER encoding.                               *)
(*                                                                         *)
(* The text of a JSON value is told from that of another in front of an    *)
(* end: a comma, a closing bracket or nothing.  What is told apart at one  *)
(* depth is told apart at the next, by the heads of the texts, by the      *)
(* escapes of strings, by what follows a number, by the commas of lists    *)
(* and by the order of keys.                                               *)
(*                                                                         *)
(* The bytes of a BER value are rewritten with any bytes behind them, by   *)
(* calls nested no deeper than twice their number: at one depth for every  *)
(* form of a length and every segmentation of a string, at the next for    *)
(* values in a row, up to the end of their content.                        *)
(*                                                                         *)
(* The provers see concatenation as Glue and Cons, through a few laws only.*)
(***************************************************************************)
EXTENDS IntentGate, BerToDer, EncodingProofs, FiniteSetTheorems

-----------------------------------------------------------------------------
(* Sequences, one behind the other. *)

\* Sequences are the free monoid over their elements.
LEMMA Joining ==
  ASSUME NEW S
  PROVE  /\ <<>> \in Seq(S)
         /\ \A x \in Seq(S) : <<>> \o x = x /\ x \o <<>> = x
         /\ \A x, y \in Seq(S) : x \o y \in Seq(S)
         /\ \A x, y, z \in Seq(S) : (x \o y) \o z = x \o (y \o z)
<1>1. \A x, y \in Seq(S) : x \o y \in Seq(S)
  BY ConcatProperties
<1>2. \A x, y, z \in Seq(S) : (x \o y) \o z = x \o (y \o z)
  BY ConcatAssociative
<1>3. \A x \in Seq(S) : <<>> \o x = x /\ x \o <<>> = x
  BY ConcatEmptySeq
<1>4. <<>> \in Seq(S)
  OBVIOUS
<1> QED BY <1>1, <1>2, <1>3, <1>4

LEMMA Ahead ==
  ASSUME NEW S
  PROVE  /\ \A a \in S : <<a>> \in Seq(S) /\ <<a>> # <<>>
         /\ \A a \in S, x \in Seq(S) : Cons(a, x) # <<>> /\ Cons(a, x)[1] = a
         /\ \A a, b \in S, x, y \in Seq(S) : Cons(a, x) = Cons(b, y) => a = b /\ x = y
         /\ \A x \in Seq(S) : x # <<>> => x[1] \in S /\ \E r \in Seq(S) : x = Cons(x[1], r)
         /\ \A x, y \in Seq(S) : x # <<>> => x \o y # <<>> /\ (x \o y)[1] = x[1]
<1>1. ASSUME NEW a \in S PROVE <<a>> \in Seq(S) /\ <<a>> # <<>>
  OBVIOUS
<1>2. ASSUME NEW a \in S, NEW x \in Seq(S)
      PROVE  Cons(a, x) # <<>> /\ Cons(a, x)[1] = a /\ Tail(Cons(a, x)) = x
  BY First DEF Cons
<1>3. ASSUME NEW a \in S, NEW b \in S, NEW x \in Seq(S), NEW y \in Seq(S), Cons(a, x) = Cons(b, y)
      PROVE  a = b /\ x = y
  <2>1. Cons(a, x)[1] = a /\ Tail(Cons(a, x)) = x
    BY <1>2
  <2>2. Cons(b, y)[1] = b /\ Tail(Cons(b, y)) = y
    BY <1>2
  <2> QED BY <1>3, <2>1, <2>2
<1>4. ASSUME NEW x \in Seq(S), x # <<>> PROVE x[1] \in S /\ \E r \in Seq(S) : x = Cons(x[1], r)
  <2>1. Len(x) \in Nat \ {0} /\ 1 \in 0..Len(x) /\ x[1] \in S
    BY <1>4
  <2> DEFINE a == SubSeq(x, 1, 1)
             b == SubSeq(x, 2, Len(x))
  <2>2. a \in Seq(S) /\ b \in Seq(S) /\ Len(a) = 1 /\ x = a \o b
    BY <2>1, SplitAt
  <2> HIDE DEF b
  <2>3. a = <<x[1]>>
    <3>1. a[1] = x[1]
      BY <2>1
    <3> HIDE DEF a
    <3> QED BY <2>2, <3>1
  <2> HIDE DEF a
  <2> QED BY <2>1, <2>2, <2>3 DEF Cons
<1>5. ASSUME NEW x \in Seq(S), NEW y \in Seq(S), x # <<>> PROVE x \o y # <<>> /\ (x \o y)[1] = x[1]
  <2>1. PICK r \in Seq(S) : x = Cons(x[1], r)
    BY <1>4, <1>5
  <2>2. x[1] \in S /\ <<x[1]>> \in Seq(S)
    BY <1>1, <1>4, <1>5
  <2>3. x \o y = <<x[1]>> \o (r \o y) /\ r \o y \in Seq(S)
    <3>1. Cons(x[1], r) \o y = <<x[1]>> \o (r \o y) /\ r \o y \in Seq(S)
      BY <2>2, Joining DEF Cons
    <3> QED BY <2>1, <3>1
  <2> QED BY <1>2, <2>2, <2>3 DEF Cons
<1> QED BY <1>1, <1>2, <1>3, <1>4, <1>5

\* A sequence has its first element in front of the rest.
LEMMA FirstApart ==
  ASSUME NEW S, NEW s \in Seq(S), s # <<>>
  PROVE  \E d \in S, r \in Seq(S) : s = Cons(d, r) /\ Len(s) = Len(r) + 1
<1> DEFINE a == SubSeq(s, 1, 1)
           b == SubSeq(s, 1 + 1, Len(s))
           N == Len(s)
<1>1. N \in Nat \ {0} /\ 1 \in 0..N /\ s[1] \in S
  OBVIOUS
<1>2. a \in Seq(S) /\ b \in Seq(S) /\ Len(a) = 1 /\ Len(b) = N - 1 /\ s = a \o b
  BY <1>1, SplitAt, Zenon
<1>3. a[1] = s[1]
  BY <1>1
<1> HIDE DEF a, b
<1>4. a = <<s[1]>>
  BY <1>2, <1>3
<1>5. s = <<s[1]>> \o b
  BY <1>2, <1>4
<1> HIDE DEF N
<1>6. N = Len(b) + 1
  BY <1>1, <1>2
<1> QED BY <1>1, <1>2, <1>5, <1>6 DEF N, Cons

LEMMA Places ==
  ASSUME NEW S, NEW d \in S, NEW r \in Seq(S)
  PROVE  /\ Cons(d, r) \in Seq(S) /\ Len(Cons(d, r)) = Len(r) + 1 /\ Cons(d, r)[1] = d
         /\ \A i \in 1..Len(r) : Cons(d, r)[i + 1] = r[i]
<1> DEFINE e == <<d>>
           s == e \o r
           N == Len(r)
<1>1. e \in Seq(S) /\ Len(e) = 1 /\ e[1] = d /\ N \in Nat
  OBVIOUS
<1> HIDE DEF e
<1>2. s \in Seq(S) /\ Len(s) = 1 + N /\ \A j \in 1..(1 + N) : s[j] = IF j <= 1 THEN e[j] ELSE r[j - 1]
  <2>1. /\ s \in Seq(S) /\ Len(s) = Len(e) + Len(r)
        /\ \A j \in 1..(Len(e) + Len(r)) : s[j] = IF j <= Len(e) THEN e[j] ELSE r[j - Len(e)]
    BY <1>1, ConcatProperties, Zenon
  <2> QED BY <1>1, <2>1
<1> HIDE DEF s, N
<1>3. s[1] = d
  BY <1>1, <1>2
<1>4. ASSUME NEW i \in 1..N PROVE s[i + 1] = r[i]
  <2>1. i + 1 \in 1..(1 + N) /\ ~(i + 1 <= 1) /\ (i + 1) - 1 = i
    BY <1>1
  <2> QED BY <1>2, <2>1
<1> QED BY <1>1, <1>2, <1>3, <1>4 DEF s, e, N, Cons

LEMMA ConsTable ==
  ASSUME NEW S, NEW d \in S, NEW r \in Seq(S)
  PROVE  Cons(d, r) = [i \in 1..(Len(r) + 1) |-> IF i = 1 THEN d ELSE r[i - 1]]
<1> DEFINE s == Cons(d, r)
           N == Len(r)
<1>1. s \in Seq(S) /\ Len(s) = N + 1 /\ s[1] = d /\ N \in Nat
  <2>1. N \in Nat
    OBVIOUS
  <2> QED BY <2>1, Places
<1>2. \A i \in 1..N : s[i + 1] = r[i]
  BY Places
<1> HIDE DEF s, N
<1>3. s = [i \in 1..(N + 1) |-> s[i]]
  <2>1. s = [i \in 1..Len(s) |-> s[i]]
    BY <1>1
  <2> QED BY <1>1, <2>1
<1>4. ASSUME NEW i \in 1..(N + 1) PROVE s[i] = IF i = 1 THEN d ELSE r[i - 1]
  <2>1. CASE i = 1
    BY <1>1, <2>1
  <2>2. CASE i # 1
    <3>1. i - 1 \in 1..N /\ (i - 1) + 1 = i
      BY <1>1, <2>2
    <3> QED BY <1>2, <2>2, <3>1
  <2> QED BY <2>1, <2>2
<1>5. s = [i \in 1..(N + 1) |-> IF i = 1 THEN d ELSE r[i - 1]]
  BY <1>3, <1>4
<1> QED BY <1>5 DEF s, N

\* FlattenSeq goes over its table: a sequence, and the next behind it.
LEMMA RowTable ==
  ASSUME NEW S
  PROVE  \A A \in Seq(Seq(S)) : A # <<>> =>
           \E g : /\ \A i \in 1..Len(A) : g[i] \in Seq(S)
                  /\ g[1] = A[1] /\ \A i \in 1..(Len(A) - 1) : g[i + 1] = g[i] \o A[i + 1]
                  /\ FlattenSeq(A) = g[Len(A)]
<1>0. SUFFICES ASSUME NEW A, A \in Seq(Seq(S)) /\ A # <<>>
              PROVE \E g : /\ \A i \in 1..Len(A) : g[i] \in Seq(S)
                           /\ g[1] = A[1] /\ \A i \in 1..(Len(A) - 1) : g[i + 1] = g[i] \o A[i + 1]
                           /\ FlattenSeq(A) = g[Len(A)]
  OBVIOUS
<1> DEFINE N == Len(A)
           M == N - 1
           step == [k \in 1..M |-> [t \in Seq(S) |-> t \o A[k + 1]]]
<1>1. N \in Nat \ {0} /\ \A i \in 1..N : A[i] \in Seq(S)
  BY <1>0
<1> HIDE DEF N
<1>2. M \in Nat /\ A[1] \in Seq(S) /\ N = M + 1
  BY <1>1
<1>3. step \in [1..M -> [Seq(S) -> Seq(S)]]
  <2>1. ASSUME NEW k \in 1..M, NEW t \in Seq(S) PROVE t \o A[k + 1] \in Seq(S)
    <3>1. k + 1 \in 1..N
      BY <1>1
    <3>2. A[k + 1] \in Seq(S)
      BY <1>1, <3>1
    <3> QED BY <3>2, Joining
  <2> HIDE DEF M
  <2> QED BY <2>1
<1>4. \A k \in 1..M, t \in Seq(S) : step[k][t] = t \o A[k + 1]
  OBVIOUS
<1> DEFINE first == A[1]
<1> HIDE DEF step, M, first
<1>a. M \in Nat /\ first \in Seq(S)
  BY <1>2 DEF first
<1>5. PICK h \in [0..M -> Seq(S)] : h[0] = first /\ \A k \in 1..M : h[k] = step[k][h[k - 1]]
  <2> DEFINE Q == Seq(S)
  <2>1. M \in Nat /\ first \in Q /\ step \in [1..M -> [Q -> Q]]
    BY <1>3, <1>a
  <2> HIDE DEF Q
  <2>2. \E g \in [0..M -> Q] : g[0] = first /\ \A k \in 1..M : g[k] = step[k][g[k - 1]]
    BY <2>1, TableExists
  <2> QED BY <2>2 DEF Q
<1>6. ASSUME NEW k \in 1..M PROVE h[k] = h[k - 1] \o A[k + 1]
  <2>1. k - 1 \in 0..M
    BY <1>2
  <2>2. h[k - 1] \in Seq(S)
    BY <1>5, <2>1
  <2> QED BY <1>4, <1>5, <2>2
<1> USE DEF first
<1> DEFINE g == [i \in 1..N |-> h[i - 1]]
           F == [i \in 1..N |-> IF i = 1 THEN A[i] ELSE g[i - 1] \o A[i]]
<1>7. ASSUME NEW i \in 1..N PROVE g[i] = F[i]
  <2>1. CASE i = 1
    BY <1>5, <2>1
  <2>2. CASE i # 1
    <3>1. i - 1 \in 1..M /\ i - 1 \in 1..N /\ (i - 1) + 1 = i
      BY <1>2, <2>2
    <3>2. h[i - 1] = h[(i - 1) - 1] \o A[i]
      BY <1>6, <3>1
    <3>3. g[i] = h[i - 1] /\ g[i - 1] = h[(i - 1) - 1]
      BY <3>1
    <3>4. F[i] = g[i - 1] \o A[i]
      BY <2>2
    <3> QED BY <3>2, <3>3, <3>4
  <2> QED BY <2>1, <2>2
<1>8. g = F
  BY <1>7
<1> DEFINE E(f) == f = [i \in 1..N |-> IF i = 1 THEN A[i] ELSE f[i - 1] \o A[i]]
           flatten == CHOOSE f : E(f)
<1>9. E(flatten)
  <2>1. E(g)
    BY <1>8
  <2> HIDE DEF g, E
  <2> QED BY <2>1
<1>10. FlattenSeq(A) = flatten[N]
  <2>1. N # 0
    BY <1>1
  <2> QED BY <2>1 DEF FlattenSeq, N
<1> HIDE DEF flatten
<1>11. \A i \in 1..N : flatten[i] = IF i = 1 THEN A[i] ELSE flatten[i - 1] \o A[i]
  BY <1>9
<1> HIDE DEF g
<1>12. flatten[1] = A[1]
  BY <1>1, <1>11
<1>13. ASSUME NEW i \in 1..(N - 1) PROVE flatten[i + 1] = flatten[i] \o A[i + 1]
  <2>1. i + 1 \in 1..N /\ i + 1 # 1 /\ (i + 1) - 1 = i
    BY <1>1
  <2> QED BY <1>11, <2>1
<1> DEFINE U == {n \in 0..M : flatten[n + 1] \in Seq(S)}
<1>14. 0..M \subseteq U
  <2>1. 0 \in U
    BY <1>2, <1>12
  <2>2. ASSUME NEW n \in 0..(M - 1), n \in U PROVE n + 1 \in U
    <3>1. n + 1 \in 1..(N - 1) /\ n + 1 \in 0..M /\ (n + 1) + 1 \in 1..N
      BY <1>2
    <3>2. flatten[(n + 1) + 1] = flatten[n + 1] \o A[(n + 1) + 1]
      BY <1>13, <3>1
    <3>3. A[(n + 1) + 1] \in Seq(S) /\ flatten[n + 1] \in Seq(S)
      BY <1>1, <2>2, <3>1
    <3>4. flatten[n + 1] \o A[(n + 1) + 1] \in Seq(S)
      BY <3>3, Joining
    <3> QED BY <3>1, <3>2, <3>4
  <2> HIDE DEF U
  <2> QED BY <1>2, <2>1, <2>2, InductionUpTo
<1>15. ASSUME NEW i \in 1..N PROVE flatten[i] \in Seq(S)
  <2>1. i - 1 \in 0..M /\ (i - 1) + 1 = i
    BY <1>2
  <2> QED BY <1>14, <2>1
<1> QED BY <1>10, <1>12, <1>13, <1>15 DEF N

LEMMA RowType ==
  ASSUME NEW S
  PROVE  \A A \in Seq(Seq(S)) : FlattenSeq(A) \in Seq(S)
<1> SUFFICES ASSUME NEW A \in Seq(Seq(S)) PROVE FlattenSeq(A) \in Seq(S)
  OBVIOUS
<1>1. CASE A = <<>>
  <2>1. FlattenSeq(A) = <<>>
    BY <1>1 DEF FlattenSeq
  <2> QED BY <2>1, Joining
<1>2. CASE A # <<>>
  <2>1. PICK g : (\A i \in 1..Len(A) : g[i] \in Seq(S)) /\ FlattenSeq(A) = g[Len(A)]
    BY <1>2, RowTable
  <2>2. Len(A) \in 1..Len(A)
    BY <1>2
  <2> QED BY <2>1, <2>2
<1> QED BY <1>1, <1>2

LEMMA FlatNil == FlattenSeq(<<>>) = <<>>
BY DEF FlattenSeq

LEMMA RowFirst ==
  ASSUME NEW S
  PROVE  \A a \in Seq(S), A \in Seq(Seq(S)) : FlattenSeq(Cons(a, A)) = a \o FlattenSeq(A)
<1>0. SUFFICES ASSUME NEW a \in Seq(S), NEW A, A \in Seq(Seq(S))
              PROVE FlattenSeq(Cons(a, A)) = a \o FlattenSeq(A)
  OBVIOUS
<1> DEFINE B == Cons(a, A)
           N == Len(A)
<1>1. /\ B \in Seq(Seq(S)) /\ Len(B) = N + 1 /\ B[1] = a
      /\ \A i \in 1..N : B[i + 1] = A[i] /\ A[i] \in Seq(S)
      /\ N \in Nat
  <2>1. N \in Nat /\ \A i \in 1..N : A[i] \in Seq(S)
    BY <1>0
  <2>2. B \in Seq(Seq(S)) /\ Len(B) = N + 1 /\ B[1] = a
    BY <1>0, Places
  <2>3. \A i \in 1..N : B[i + 1] = A[i]
    BY <1>0, Places
  <2> HIDE DEF N, B
  <2> QED BY <2>1, <2>2, <2>3
<1> HIDE DEF B, N
<1>2. B # <<>>
  BY <1>1
<1>3. PICK h : /\ h[1] = B[1] /\ \A i \in 1..(Len(B) - 1) : h[i + 1] = h[i] \o B[i + 1]
               /\ FlattenSeq(B) = h[Len(B)]
  BY <1>1, <1>2, RowTable
<1>4. h[1] = a /\ FlattenSeq(B) = h[N + 1] /\ \A i \in 1..N : h[i + 1] = h[i] \o A[i]
  <2>1. 1..(Len(B) - 1) = 1..N
    BY <1>1
  <2> QED BY <1>1, <1>3, <2>1
<1>5. CASE A = <<>>
  <2>1. N = 0
    BY <1>5 DEF N
  <2>2. FlattenSeq(B) = a
    BY <1>4, <2>1
  <2>3. a \o FlattenSeq(A) = a
    BY <1>5, FlatNil, Joining
  <2> QED BY <2>2, <2>3 DEF B
<1>6. CASE A # <<>>
  <2>1. PICK g : /\ \A i \in 1..Len(A) : g[i] \in Seq(S)
                 /\ g[1] = A[1] /\ \A i \in 1..(Len(A) - 1) : g[i + 1] = g[i] \o A[i + 1]
                 /\ FlattenSeq(A) = g[Len(A)]
    BY <1>0, <1>6, RowTable
  <2>2. N \in Nat \ {0}
    BY <1>0, <1>6 DEF N
  <2> DEFINE M == N - 1
             T == {n \in 0..M : h[n + 2] = a \o g[n + 1]}
  <2>3. M \in Nat /\ N = M + 1
    BY <2>2
  <2>4. 0..M \subseteq T
    <3>1. 0 \in T
      <4>1. h[1 + 1] = h[1] \o A[1] /\ 1 \in 1..N
        <5>1. 1 \in 1..N
          BY <2>2
        <5> HIDE DEF T, M
        <5> QED BY <1>4, <5>1
      <4>2. h[0 + 2] = a \o g[0 + 1]
        BY <1>4, <2>1, <4>1, SMTT(60)
      <4> QED BY <2>3, <4>2
    <3>2. ASSUME NEW n \in 0..(M - 1), n \in T PROVE n + 1 \in T
      <4>1. n + 2 \in 1..N /\ n + 1 \in 1..N /\ n + 1 \in 1..(N - 1) /\ n + 1 \in 0..M
        BY <2>3
      <4>2. h[(n + 2) + 1] = h[n + 2] \o A[n + 2]
        BY <1>4, <4>1
      <4>3. g[(n + 1) + 1] = g[n + 1] \o A[(n + 1) + 1]
        BY <2>1, <4>1 DEF N
      <4>4. g[n + 1] \in Seq(S) /\ A[n + 2] \in Seq(S)
        BY <1>1, <2>1, <4>1 DEF N
      <4>5. (a \o g[n + 1]) \o A[n + 2] = a \o (g[n + 1] \o A[n + 2])
        <5>1. \A x, y, z \in Seq(S) : (x \o y) \o z = x \o (y \o z)
          BY Joining
        <5>2. a \in Seq(S)
          OBVIOUS
        <5> QED BY <4>4, <5>1, <5>2, Zenon
      <4>6. h[n + 2] = a \o g[n + 1]
        BY <3>2
      <4>7. (n + 1) + 1 = n + 2 /\ (n + 2) + 1 = (n + 1) + 2
        OBVIOUS
      <4>8. h[(n + 1) + 2] = a \o g[(n + 1) + 1]
        BY <4>2, <4>3, <4>5, <4>6, <4>7
      <4> QED BY <4>1, <4>8
    <3> HIDE DEF T, M
    <3> QED BY <2>3, <3>1, <3>2, InductionUpTo
  <2>5. h[M + 2] = a \o g[M + 1]
    <3>1. M \in 0..M
      BY <2>3
    <3> HIDE DEF M
    <3> QED BY <2>4, <3>1
  <2>6. h[N + 1] = a \o g[N]
    <3>1. M + 2 = N + 1 /\ M + 1 = N
      BY <2>3
    <3> QED BY <2>5, <3>1
  <2> QED BY <1>4, <2>1, <2>6 DEF B, N
<1> QED BY <1>5, <1>6

\* x \o y: what the provers know of it are these facts.
Glue(x, y) == x \o y

LEMMA Joins ==
  ASSUME NEW S
  PROVE  /\ <<>> \in Seq(S)
         /\ \A x \in Seq(S) : Glue(<<>>, x) = x /\ Glue(x, <<>>) = x
         /\ \A x, y \in Seq(S) : Glue(x, y) \in Seq(S)
         /\ \A x, y, z \in Seq(S) : Glue(Glue(x, y), z) = Glue(x, Glue(y, z))
BY Joining DEF Glue

LEMMA Leads ==
  ASSUME NEW S
  PROVE  /\ \A a \in S : <<a>> \in Seq(S) /\ <<a>> # <<>>
         /\ \A a \in S, x \in Seq(S) : /\ Cons(a, x) \in Seq(S) /\ Cons(a, x) # <<>> /\ Cons(a, x)[1] = a
                                      /\ Glue(<<a>>, x) = Cons(a, x)
         /\ \A a, b \in S, x, y \in Seq(S) : Cons(a, x) = Cons(b, y) => a = b /\ x = y
         /\ \A x \in Seq(S) : x # <<>> => x[1] \in S /\ \E r \in Seq(S) : x = Cons(x[1], r)
         /\ \A x, y \in Seq(S) : x # <<>> => Glue(x, y) # <<>> /\ Glue(x, y)[1] = x[1]
         /\ \A a \in S, x, y \in Seq(S) : Glue(Cons(a, x), y) = Cons(a, Glue(x, y))
<1>1. \A a \in S, x \in Seq(S) : Glue(<<a>>, x) = Cons(a, x) /\ Cons(a, x) \in Seq(S)
  <2> SUFFICES ASSUME NEW a \in S, NEW x \in Seq(S) PROVE Glue(<<a>>, x) = Cons(a, x) /\ Cons(a, x) \in Seq(S)
    OBVIOUS
  <2>1. Glue(<<a>>, x) = Cons(a, x)
    BY DEF Glue, Cons
  <2>2. Glue(<<a>>, x) \in Seq(S)
    BY Ahead, Joins
  <2> QED BY <2>1, <2>2
<1>2. \A a \in S, x, y \in Seq(S) : Glue(Cons(a, x), y) = Cons(a, Glue(x, y))
  <2> SUFFICES ASSUME NEW a \in S, NEW x \in Seq(S), NEW y \in Seq(S)
               PROVE  Glue(Cons(a, x), y) = Cons(a, Glue(x, y))
    OBVIOUS
  <2>1. <<a>> \in Seq(S)
    BY Ahead
  <2>2. Glue(Glue(<<a>>, x), y) = Glue(<<a>>, Glue(x, y)) /\ Glue(x, y) \in Seq(S)
    <3>1. /\ \A v, w \in Seq(S) : Glue(v, w) \in Seq(S)
          /\ \A u, v, w \in Seq(S) : Glue(Glue(u, v), w) = Glue(u, Glue(v, w))
      BY Joins
    <3> QED BY <2>1, <3>1, Zenon
  <2> QED BY <1>1, <2>2
<1> QED BY <1>1, <1>2, Ahead, ZenonT(60) DEF Glue

LEMMA Rows ==
  ASSUME NEW S
  PROVE  /\ FlattenSeq(<<>>) = <<>>
         /\ \A A \in Seq(Seq(S)) : FlattenSeq(A) \in Seq(S)
         /\ \A a \in Seq(S), A \in Seq(Seq(S)) : FlattenSeq(Cons(a, A)) = Glue(a, FlattenSeq(A))
BY FlatNil, RowType, RowFirst DEF Glue

\* Induction from the front.
LEMMA FrontInduction ==
  ASSUME NEW S, NEW T, <<>> \in T,
         \A s \in Seq(S) : s \in T => \A d \in S : Cons(d, s) \in T
  PROVE  Seq(S) \subseteq T
<1> DEFINE N == {n \in Nat : \A s \in Seq(S) : Len(s) = n => s \in T}
<1>1. 0 \in N
  <2> SUFFICES ASSUME NEW s \in Seq(S), Len(s) = 0 PROVE s \in T
    OBVIOUS
  <2>1. s = <<>>
    OBVIOUS
  <2> QED BY <2>1
<1>2. ASSUME NEW n \in Nat, n \in N PROVE n + 1 \in N
  <2>1. ASSUME NEW s, s \in Seq(S), Len(s) = n + 1 PROVE s \in T
    <3>1. s # <<>>
      BY <2>1
    <3>2. PICK d \in S, r \in Seq(S) : s = Cons(d, r) /\ Len(s) = Len(r) + 1
      BY <2>1, <3>1, FirstApart
    <3>3. Len(r) = n
      <4>1. Len(r) \in Nat
        OBVIOUS
      <4> QED BY <2>1, <3>2, <4>1
    <3>4. r \in T
      BY <1>2, <3>3
    <3>5. Cons(d, r) \in T
      BY <3>4
    <3> QED BY <3>2, <3>5
  <2> QED BY <2>1
<1> HIDE DEF N
<1>3. Nat \subseteq N
  BY <1>1, <1>2, InductionOn
<1> QED
  <2> SUFFICES ASSUME NEW s \in Seq(S) PROVE s \in T
    OBVIOUS
  <2>1. Len(s) \in Nat
    OBVIOUS
  <2> QED BY <1>3, <2>1 DEF N

-----------------------------------------------------------------------------
(* Texts. *)

Sym == JsonChar \cup Literal \cup Structure
Txt == Seq(Sym)

LEMMA Monoid ==
  /\ <<>> \in Txt
  /\ \A x \in Txt : Glue(<<>>, x) = x /\ Glue(x, <<>>) = x
  /\ \A x, y \in Txt : Glue(x, y) \in Txt
  /\ \A x, y, z \in Txt : Glue(Glue(x, y), z) = Glue(x, Glue(y, z))
BY Joins DEF Txt

LEMMA Fronts ==
  /\ \A a \in Sym : <<a>> \in Txt /\ <<a>> # <<>>
  /\ \A a \in Sym, x \in Txt : /\ Cons(a, x) \in Txt /\ Cons(a, x) # <<>> /\ Cons(a, x)[1] = a
                               /\ Glue(<<a>>, x) = Cons(a, x)
  /\ \A a, b \in Sym, x, y \in Txt : Cons(a, x) = Cons(b, y) => a = b /\ x = y
  /\ \A x \in Txt : x # <<>> => x[1] \in Sym /\ \E r \in Txt : x = Cons(x[1], r)
  /\ \A x, y \in Txt : x # <<>> => Glue(x, y) # <<>> /\ Glue(x, y)[1] = x[1]
  /\ \A a \in Sym, x, y \in Txt : Glue(Cons(a, x), y) = Cons(a, Glue(x, y))
BY Leads DEF Txt

LEMMA FlatGlue ==
  /\ FlattenSeq(<<>>) = <<>>
  /\ \A A \in Seq(Txt) : FlattenSeq(A) \in Txt
  /\ \A a \in Txt, A \in Seq(Txt) : FlattenSeq(Cons(a, A)) = Glue(a, FlattenSeq(A))
BY Rows DEF Txt

\* Marks of JSON are told apart.
Closing == {",", "]", "}"}

LEMMA Marks ==
  /\ Quote # Backslash
  /\ Quote \notin Closing \cup {":", "[", "{"} /\ Backslash \notin Closing \cup {":", "[", "{"}
  /\ Closing \cap {":", "[", "{", "null", "true", "false"} = {}
  /\ Literal \cap Structure = {}
BY DEF Quote, Backslash, Closing, Literal, Structure

-----------------------------------------------------------------------------
(* Texts in a row. *)

\* Words that are told from each other, and from the mark z, in front of an end.
Delimited(W, E, z) ==
  /\ W \subseteq Txt /\ E \subseteq Txt /\ z \in Sym
  /\ \A w \in W : w # <<>> /\ w[1] # z
  /\ \A w \in W, e \in E : Glue(w, e) \in E
  /\ \A v, w \in W : \A x, y \in E : Glue(v, x) = Glue(w, y) => v = w /\ x = y

LEMMA Parted ==
  ASSUME NEW W, NEW E, NEW z, Delimited(W, E, z), NEW v, v \in W, NEW w, w \in W,
         NEW x, x \in E, NEW y, y \in E, Glue(v, x) = Glue(w, y)
  PROVE  v = w /\ x = y
BY DEF Delimited

LEMMA FlatWords ==
  ASSUME NEW W, NEW E, NEW z, Delimited(W, E, z)
  PROVE  \A A \in Seq(W) : A \in Seq(Txt) /\ FlattenSeq(A) \in Txt
<1>1. ASSUME NEW A, A \in Seq(W) PROVE A \in Seq(Txt) /\ FlattenSeq(A) \in Txt
  <2>1. W \subseteq Txt
    BY DEF Delimited
  <2>2. A \in Seq(Txt)
    BY <1>1, <2>1, SeqMonotonic
  <2> QED BY <2>2, FlatGlue
<1> QED BY <1>1

LEMMA FlatRest ==
  ASSUME NEW W, NEW E, NEW z, Delimited(W, E, z), NEW w, w \in W, NEW A, A \in Seq(W), NEW x, x \in Txt
  PROVE  Glue(FlattenSeq(Cons(w, A)), x) = Glue(w, Glue(FlattenSeq(A), x))
<1>1. w \in Txt
  BY DEF Delimited
<1>2. A \in Seq(Txt) /\ FlattenSeq(A) \in Txt
  BY FlatWords
<1>3. FlattenSeq(Cons(w, A)) = Glue(w, FlattenSeq(A))
  BY <1>1, <1>2, FlatGlue
<1>4. Glue(Glue(w, FlattenSeq(A)), x) = Glue(w, Glue(FlattenSeq(A), x))
  BY <1>1, <1>2, Monoid
<1> QED BY <1>3, <1>4

LEMMA FlatEnds ==
  ASSUME NEW W, NEW E, NEW z, Delimited(W, E, z), NEW u, u \in E
  PROVE  \A A \in Seq(W) : Glue(FlattenSeq(A), u) \in E
<1> DEFINE T == {A \in Seq(W) : Glue(FlattenSeq(A), u) \in E}
<1>0. u \in Txt
  BY DEF Delimited
<1>1. <<>> \in T
  <2>1. Glue(FlattenSeq(<<>>), u) = u
    BY <1>0, FlatGlue, Monoid
  <2>2. <<>> \in Seq(W)
    OBVIOUS
  <2> QED BY <2>1, <2>2
<1>2. ASSUME NEW A, NEW w, A \in Seq(W), A \in T, w \in W PROVE Cons(w, A) \in T
  <2>1. Cons(w, A) \in Seq(W)
    BY <1>2, Places
  <2>2. Glue(FlattenSeq(A), u) \in E
    BY <1>2
  <2>3. Glue(w, Glue(FlattenSeq(A), u)) \in E
    BY <1>2, <2>2 DEF Delimited
  <2>4. Glue(FlattenSeq(Cons(w, A)), u) = Glue(w, Glue(FlattenSeq(A), u))
    <3> HIDE DEF T
    <3> QED BY <1>0, <1>2, FlatRest
  <2> QED BY <2>1, <2>3, <2>4
<1> HIDE DEF T
<1>3. Seq(W) \subseteq T
  BY <1>1, <1>2, FrontInduction
<1> QED BY <1>3 DEF T

LEMMA Lists ==
  ASSUME NEW W, NEW E, NEW z, Delimited(W, E, z),
         NEW x \in Txt, NEW y \in Txt, Cons(z, x) \in E, Cons(z, y) \in E
  PROVE  \A A, B \in Seq(W) :
           Glue(FlattenSeq(A), Cons(z, x)) = Glue(FlattenSeq(B), Cons(z, y)) => A = B /\ x = y
<1> DEFINE u == Cons(z, x)
           v == Cons(z, y)
<1>1. z \in Sym
  BY DEF Delimited
<1>2. /\ u \in Txt /\ v \in Txt /\ u \in E /\ v \in E
      /\ u # <<>> /\ v # <<>> /\ u[1] = z /\ v[1] = z
      /\ u = v => x = y
  <2>1. u \in Txt /\ v \in Txt
    BY DEF Delimited
  <2>2. u # <<>> /\ v # <<>> /\ u[1] = z /\ v[1] = z
    BY <1>1, Fronts
  <2>3. u = v => x = y
    BY <1>1, Fronts
  <2> QED BY <2>1, <2>2, <2>3
<1> HIDE DEF u, v
<1>3. ASSUME NEW t, t \in E, NEW w, NEW A, w \in W, A \in Seq(W)
      PROVE  /\ Glue(FlattenSeq(Cons(w, A)), t) = Glue(w, Glue(FlattenSeq(A), t))
             /\ Glue(FlattenSeq(A), t) \in E
             /\ Glue(FlattenSeq(Cons(w, A)), t)[1] # z
  <2>1. t \in Txt /\ w \in Txt /\ w # <<>> /\ w[1] # z
    BY <1>3 DEF Delimited
  <2>2. Glue(FlattenSeq(Cons(w, A)), t) = Glue(w, Glue(FlattenSeq(A), t))
    BY <1>3, <2>1, FlatRest
  <2>3. Glue(FlattenSeq(A), t) \in E
    BY <1>3, FlatEnds
  <2>4. Glue(FlattenSeq(A), t) \in Txt
    BY <2>3 DEF Delimited
  <2>5. (Glue(w, Glue(FlattenSeq(A), t)))[1] = w[1]
    BY <2>1, <2>4, Fronts
  <2> QED BY <2>1, <2>2, <2>3, <2>5
<1>4. Glue(FlattenSeq(<<>>), u) = u /\ Glue(FlattenSeq(<<>>), v) = v
  BY <1>2, FlatGlue, Monoid
<1> DEFINE T == {A \in Seq(W) : \A B \in Seq(W) : Glue(FlattenSeq(A), u) = Glue(FlattenSeq(B), v) => A = B /\ x = y}
<1>5. <<>> \in T
  <2>1. ASSUME NEW B, B \in Seq(W), Glue(FlattenSeq(<<>>), u) = Glue(FlattenSeq(B), v) PROVE <<>> = B /\ x = y
    <3>1. CASE B = <<>>
      BY <1>2, <1>4, <2>1, <3>1
    <3>2. CASE B # <<>>
      <4>1. PICK w \in W, R \in Seq(W) : B = Cons(w, R)
        BY <2>1, <3>2, FirstApart
      <4>2. (Glue(FlattenSeq(B), v))[1] # z
        BY <1>2, <1>3, <4>1
      <4> QED BY <1>2, <1>4, <2>1, <4>2
    <3> QED BY <3>1, <3>2
  <2>2. <<>> \in Seq(W)
    OBVIOUS
  <2> QED BY <2>1, <2>2
<1>6. ASSUME NEW A, NEW a, A \in Seq(W), A \in T, a \in W PROVE Cons(a, A) \in T
  <2> DEFINE C == Cons(a, A)
  <2>1. C \in Seq(W)
    BY <1>6, Places
  <2>2. /\ Glue(FlattenSeq(C), u) = Glue(a, Glue(FlattenSeq(A), u)) /\ Glue(FlattenSeq(A), u) \in E
        /\ (Glue(FlattenSeq(C), u))[1] # z
    BY <1>2, <1>3, <1>6
  <2>3. ASSUME NEW B, B \in Seq(W), Glue(FlattenSeq(C), u) = Glue(FlattenSeq(B), v) PROVE C = B /\ x = y
    <3> HIDE DEF C
    <3>1. CASE B = <<>>
      BY <1>2, <1>4, <2>2, <2>3, <3>1
    <3>2. CASE B # <<>>
      <4>1. PICK w \in W, R \in Seq(W) : B = Cons(w, R)
        BY <2>3, <3>2, FirstApart
      <4>2. Glue(FlattenSeq(B), v) = Glue(w, Glue(FlattenSeq(R), v)) /\ Glue(FlattenSeq(R), v) \in E
        BY <1>2, <1>3, <4>1
      <4> DEFINE P == Glue(FlattenSeq(A), u)
                 Q == Glue(FlattenSeq(R), v)
      <4>a. a \in W /\ P \in E /\ Q \in E /\ Glue(a, P) = Glue(w, Q)
        BY <1>6, <2>2, <2>3, <4>2
      <4> HIDE DEF P, Q
      <4>b. a = w /\ P = Q
        BY <4>a, Parted
      <4>3. a = w /\ Glue(FlattenSeq(A), u) = Glue(FlattenSeq(R), v)
        BY <4>b DEF P, Q
      <4>4. A = R /\ x = y
        BY <1>6, <4>3
      <4> QED BY <4>1, <4>3, <4>4 DEF C
    <3> QED BY <3>1, <3>2
  <2> HIDE DEF C
  <2>4. C \in T
    BY <2>1, <2>3
  <2> QED BY <2>4 DEF C
<1> HIDE DEF T
<1>7. Seq(W) \subseteq T
  BY <1>5, <1>6, FrontInduction
<1> QED BY <1>7 DEF T, u, v

-----------------------------------------------------------------------------
(* Strings: no character of one passes for its end. *)

Spelled(c) == IF c \in Escaped THEN <<Backslash, c>> ELSE <<c>>
SpelledOut(s) == [i \in DOMAIN s |-> Spelled(s[i])]
Spellings == {Spelled(c) : c \in JsonChar}

LEMMA SpelledForm ==
  ASSUME NEW c \in JsonChar
  PROVE  /\ c \in Sym /\ Backslash \in Sym /\ Quote \in Sym
         /\ Spelled(c) \in Txt /\ Spelled(c) # <<>>
         /\ c \in Escaped => /\ Spelled(c)[1] = Backslash
                             /\ \A x \in Txt : Glue(Spelled(c), x) = Cons(Backslash, Cons(c, x))
         /\ c \notin Escaped => /\ Spelled(c)[1] = c /\ c # Backslash /\ c # Quote
                                /\ \A x \in Txt : Glue(Spelled(c), x) = Cons(c, x)
<1>1. c \in Sym /\ Backslash \in Sym /\ Quote \in Sym
  BY DEF Sym, Structure
<1>2. <<c>> \in Txt /\ <<Backslash>> \in Txt
  BY <1>1, Fronts
<1>3. CASE c \in Escaped
  <2> DEFINE w == <<Backslash, c>>
  <2>1. Spelled(c) = w
    BY <1>3 DEF Spelled
  <2>2. w = Cons(Backslash, <<c>>)
    BY DEF Cons
  <2> HIDE DEF w
  <2>3. w \in Txt /\ w # <<>> /\ w[1] = Backslash
    BY <1>1, <1>2, <2>2, Fronts
  <2>4. ASSUME NEW x \in Txt PROVE Glue(w, x) = Cons(Backslash, Cons(c, x))
    <3>1. Glue(w, x) = Cons(Backslash, Glue(<<c>>, x))
      BY <1>1, <1>2, <2>2, Fronts
    <3>2. Glue(<<c>>, x) = Cons(c, x)
      BY <1>1, Fronts
    <3> QED BY <3>1, <3>2
  <2> QED BY <1>1, <1>3, <2>1, <2>3, <2>4
<1>4. CASE c \notin Escaped
  <2>1. Spelled(c) = <<c>> /\ <<c>>[1] = c
    BY <1>4 DEF Spelled
  <2>2. c # Backslash /\ c # Quote
    BY <1>4 DEF Escaped
  <2>3. <<c>> # <<>> /\ \A x \in Txt : Glue(<<c>>, x) = Cons(c, x)
    BY <1>1, Fronts
  <2> QED BY <1>1, <1>2, <1>4, <2>1, <2>2, <2>3
<1> QED BY <1>3, <1>4

LEMMA SpellingsApart ==
  /\ Delimited(Spellings, Txt, Quote)
  /\ \A c, d \in JsonChar : Spelled(c) = Spelled(d) => c = d
<1>1. ASSUME NEW c \in JsonChar, NEW d \in JsonChar, NEW x \in Txt, NEW y \in Txt,
             Glue(Spelled(c), x) = Glue(Spelled(d), y)
      PROVE  c = d /\ x = y
  <2>1. CASE c \in Escaped /\ d \in Escaped
    <3>1. Cons(Backslash, Cons(c, x)) = Cons(Backslash, Cons(d, y))
      BY <1>1, <2>1, SpelledForm
    <3>2. Cons(c, x) \in Txt /\ Cons(d, y) \in Txt /\ Backslash \in Sym /\ c \in Sym /\ d \in Sym
      BY SpelledForm, Fronts
    <3> QED BY <3>1, <3>2, Fronts
  <2>2. CASE c \notin Escaped /\ d \notin Escaped
    <3>1. Cons(c, x) = Cons(d, y) /\ c \in Sym /\ d \in Sym
      BY <1>1, <2>2, SpelledForm
    <3> QED BY <3>1, Fronts
  <2>3. CASE c \in Escaped /\ d \notin Escaped
    <3>1. Cons(Backslash, Cons(c, x)) = Cons(d, y) /\ d \in Sym /\ d # Backslash /\ c \in Sym /\ Backslash \in Sym
      BY <1>1, <2>3, SpelledForm
    <3>2. Cons(c, x) \in Txt
      BY <3>1, Fronts
    <3> QED BY <3>1, <3>2, Fronts
  <2>4. CASE c \notin Escaped /\ d \in Escaped
    <3>1. Cons(Backslash, Cons(d, y)) = Cons(c, x) /\ c \in Sym /\ c # Backslash /\ d \in Sym /\ Backslash \in Sym
      BY <1>1, <2>4, SpelledForm
    <3>2. Cons(d, y) \in Txt
      BY <3>1, Fronts
    <3> QED BY <3>1, <3>2, Fronts
  <2> QED BY <2>1, <2>2, <2>3, <2>4
<1>2. \A c \in JsonChar : Spelled(c) \in Txt /\ Spelled(c) # <<>> /\ Spelled(c)[1] # Quote
  BY SpelledForm, Marks
<1>3. Quote \in Sym
  BY DEF Sym, Structure
<1>4. ASSUME NEW v \in Spellings, NEW w \in Spellings, NEW x \in Txt, NEW y \in Txt, Glue(v, x) = Glue(w, y)
      PROVE  v = w /\ x = y
  <2>1. PICK c \in JsonChar : v = Spelled(c)
    BY DEF Spellings
  <2>2. PICK d \in JsonChar : w = Spelled(d)
    BY DEF Spellings
  <2>3. c = d /\ x = y
    BY <1>1, <1>4, <2>1, <2>2
  <2> QED BY <2>1, <2>2, <2>3
<1>5. \A w \in Spellings : w \in Txt /\ w # <<>> /\ w[1] # Quote
  BY <1>2 DEF Spellings
<1>6. \A w \in Spellings, e \in Txt : Glue(w, e) \in Txt
  BY <1>5, Monoid
<1>7. Delimited(Spellings, Txt, Quote)
  BY <1>3, <1>4, <1>5, <1>6 DEF Delimited
<1>8. \A c, d \in JsonChar : Spelled(c) = Spelled(d) => c = d
  <2>1. <<>> \in Txt
    BY Monoid
  <2> QED BY <1>1, <2>1
<1> QED BY <1>7, <1>8

LEMMA StringSpelled ==
  /\ \A s \in Seq(JsonChar) : SpelledOut(s) \in Seq(Spellings)
  /\ \A s, t \in Seq(JsonChar) : SpelledOut(s) = SpelledOut(t) => s = t
<1>1. ASSUME NEW s, s \in Seq(JsonChar)
      PROVE  /\ SpelledOut(s) \in Seq(Spellings) /\ DOMAIN SpelledOut(s) = 1..Len(s) /\ Len(s) \in Nat
             /\ \A i \in 1..Len(s) : s[i] \in JsonChar /\ SpelledOut(s)[i] = Spelled(s[i])
  <2> DEFINE N == Len(s)
  <2>1. N \in Nat /\ DOMAIN s = 1..N /\ \A i \in 1..N : s[i] \in JsonChar
    BY <1>1
  <2> HIDE DEF N
  <2>2. SpelledOut(s) = [i \in 1..N |-> Spelled(s[i])]
    BY <2>1 DEF SpelledOut
  <2>3. \A i \in 1..N : Spelled(s[i]) \in Spellings
    BY <2>1 DEF Spellings
  <2>4. SpelledOut(s) \in Seq(Spellings)
    BY <2>1, <2>2, <2>3
  <2> QED BY <2>1, <2>2, <2>4 DEF N
<1>2. ASSUME NEW s, NEW t, s \in Seq(JsonChar), t \in Seq(JsonChar), SpelledOut(s) = SpelledOut(t) PROVE s = t
  <2>1. 1..Len(s) = 1..Len(t) /\ Len(s) \in Nat /\ Len(t) \in Nat
    BY <1>1, <1>2
  <2>2. Len(s) = Len(t)
    BY <2>1
  <2>3. ASSUME NEW i \in 1..Len(s) PROVE s[i] = t[i]
    <3>1. Spelled(s[i]) = Spelled(t[i]) /\ s[i] \in JsonChar /\ t[i] \in JsonChar
      BY <1>1, <1>2, <2>2
    <3> QED BY <3>1, SpellingsApart
  <2> QED BY <1>2, <2>2, <2>3, SeqEqual
<1> QED BY <1>1, <1>2

LEMMA QuotedForm ==
  ASSUME NEW s, s \in Seq(JsonChar)
  PROVE  /\ Quoted(s) \in Txt /\ Quoted(s) # <<>> /\ Quoted(s)[1] = Quote
         /\ SpelledOut(s) \in Seq(Spellings)
         /\ \A x \in Txt : Glue(Quoted(s), x) = Cons(Quote, Glue(FlattenSeq(SpelledOut(s)), Cons(Quote, x)))
<1> DEFINE F == FlattenSeq(SpelledOut(s))
           q == <<Quote>>
<1>1. SpelledOut(s) \in Seq(Spellings)
  BY StringSpelled
<1>2. F \in Txt
  BY <1>1, SpellingsApart, FlatWords
<1>3. Quoted(s) = q \o F \o q
  BY DEF Quoted, SpelledOut, Spelled
<1>4. Quote \in Sym
  BY DEF Sym, Structure
<1>5. q \in Txt /\ q # <<>> /\ q[1] = Quote
  BY <1>4, Fronts
<1> HIDE DEF F
<1>6. Quoted(s) = Glue(Cons(Quote, F), q)
  <2>1. Quoted(s) = Glue(Glue(q, F), q)
    BY <1>3 DEF Glue
  <2>2. Glue(q, F) = Cons(Quote, F)
    BY <1>2, <1>4, Fronts
  <2> QED BY <2>1, <2>2
<1>7. Cons(Quote, F) \in Txt /\ Cons(Quote, F) # <<>> /\ Cons(Quote, F)[1] = Quote
  BY <1>2, <1>4, Fronts
<1>8. Quoted(s) \in Txt /\ Quoted(s) # <<>> /\ Quoted(s)[1] = Quote
  <2> DEFINE c == Cons(Quote, F)
  <2>1. Quoted(s) = Glue(c, q) /\ c \in Txt /\ c # <<>> /\ c[1] = Quote
    BY <1>6, <1>7
  <2> HIDE DEF q, c
  <2>2. Glue(c, q) \in Txt
    BY <1>5, <2>1, Monoid
  <2>3. Glue(c, q) # <<>> /\ Glue(c, q)[1] = c[1]
    BY <1>5, <2>1, Fronts
  <2> QED BY <2>1, <2>2, <2>3
<1>9. ASSUME NEW x \in Txt PROVE Glue(Quoted(s), x) = Cons(Quote, Glue(F, Cons(Quote, x)))
  <2>1. Glue(Quoted(s), x) = Glue(Cons(Quote, F), Glue(q, x))
    BY <1>5, <1>6, <1>7, Monoid
  <2>2. Glue(q, x) = Cons(Quote, x) /\ Cons(Quote, x) \in Txt
    BY <1>4, Fronts
  <2>3. Glue(Cons(Quote, F), Cons(Quote, x)) = Cons(Quote, Glue(F, Cons(Quote, x)))
    BY <1>2, <1>4, <2>2, Fronts
  <2> QED BY <2>1, <2>2, <2>3
<1> QED BY <1>1, <1>8, <1>9 DEF F

LEMMA QuotedApart ==
  ASSUME NEW s, s \in Seq(JsonChar), NEW t, t \in Seq(JsonChar), NEW x, x \in Txt, NEW y, y \in Txt,
         Glue(Quoted(s), x) = Glue(Quoted(t), y)
  PROVE  s = t /\ x = y
<1> DEFINE A == SpelledOut(s)
           B == SpelledOut(t)
           u == Cons(Quote, x)
           v == Cons(Quote, y)
<1>1. Quote \in Sym
  BY DEF Sym, Structure
<1>2. u \in Txt /\ v \in Txt
  BY <1>1, Fronts
<1>3. Cons(Quote, Glue(FlattenSeq(A), u)) = Cons(Quote, Glue(FlattenSeq(B), v))
  BY QuotedForm
<1>4. A \in Seq(Spellings) /\ B \in Seq(Spellings)
  BY StringSpelled
<1>5. FlattenSeq(A) \in Txt /\ FlattenSeq(B) \in Txt
  BY <1>4, SpellingsApart, FlatWords
<1> HIDE DEF A, B
<1>6. Glue(FlattenSeq(A), u) = Glue(FlattenSeq(B), v)
  <2> HIDE DEF u, v
  <2>1. Glue(FlattenSeq(A), u) \in Txt /\ Glue(FlattenSeq(B), v) \in Txt
    BY <1>2, <1>5, Monoid
  <2> QED BY <1>1, <1>3, <2>1, Fronts
<1>7. A = B /\ x = y
  BY <1>2, <1>4, <1>6, SpellingsApart, Lists
<1> QED BY <1>7, StringSpelled DEF A, B

-----------------------------------------------------------------------------
(* Values in a list: none passes for two. *)

Comma == ","
Ends == {x \in Txt : x = <<>> \/ x[1] \in Closing}

\* Texts that are told from each other in front of an end, which none starts with.
Items(I) ==
  /\ I \subseteq Txt
  /\ \A a \in I : a # <<>> /\ a[1] \notin Closing
  /\ \A a, b \in I : \A x, y \in Ends : Glue(a, x) = Glue(b, y) => a = b /\ x = y

Commas(A) == [i \in DOMAIN A |-> Cons(Comma, A[i])]
AfterComma(I) == {Cons(Comma, a) : a \in I}

LEMMA EndSymbols ==
  /\ Comma \in Closing /\ Comma \in Sym
  /\ "]" \in Closing /\ "}" \in Closing /\ Comma # "]" /\ Comma # "}"
  /\ ":" \in Sym /\ "[" \in Sym /\ "{" \in Sym
BY DEF Closing, Comma, Sym, Structure

LEMMA EndMarks ==
  /\ Comma \in Closing /\ Comma \in Sym
  /\ <<>> \in Ends /\ Ends \subseteq Txt
  /\ \A z \in Closing : z \in Sym /\ \A x \in Txt : Cons(z, x) \in Ends
<1>1. Closing \subseteq Sym
  BY DEF Closing, Sym, Structure
<1>2. <<>> \in Ends /\ Ends \subseteq Txt
  BY Monoid DEF Ends
<1>3. ASSUME NEW z \in Closing, NEW x \in Txt PROVE Cons(z, x) \in Ends
  <2>1. z \in Sym
    BY <1>1
  <2>2. Cons(z, x) \in Txt /\ Cons(z, x)[1] = z
    BY <2>1, Fronts
  <2> QED BY <2>2 DEF Ends
<1>4. Comma \in Closing
  BY EndSymbols
<1> QED BY <1>1, <1>2, <1>3, <1>4

LEMMA ItemsApart ==
  ASSUME NEW I, Items(I), NEW a, a \in I, NEW b, b \in I, NEW x, x \in Ends, NEW y, y \in Ends,
         Glue(a, x) = Glue(b, y)
  PROVE  a = b /\ x = y
BY DEF Items

LEMMA ItemsDelimited ==
  ASSUME NEW I, Items(I), NEW z, z \in Closing, z # Comma
  PROVE  Delimited(AfterComma(I), Ends, z)
<1>1. z \in Sym /\ Comma \in Sym
  BY EndMarks
<1>2. ASSUME NEW a \in I
      PROVE  /\ a \in Txt /\ Cons(Comma, a) \in Txt /\ Cons(Comma, a) # <<>> /\ Cons(Comma, a)[1] = Comma
             /\ \A x \in Ends : Glue(Cons(Comma, a), x) = Cons(Comma, Glue(a, x)) /\ Glue(a, x) \in Txt
  <2>1. a \in Txt
    BY DEF Items
  <2>2. Cons(Comma, a) \in Txt /\ Cons(Comma, a) # <<>> /\ Cons(Comma, a)[1] = Comma
    BY <1>1, <2>1, Fronts
  <2>3. ASSUME NEW x \in Ends PROVE Glue(Cons(Comma, a), x) = Cons(Comma, Glue(a, x)) /\ Glue(a, x) \in Txt
    <3>1. x \in Txt
      BY EndMarks
    <3> QED BY <1>1, <2>1, <3>1, Fronts, Monoid
  <2> QED BY <2>1, <2>2, <2>3
<1>3. \A w \in AfterComma(I) : w \in Txt /\ w # <<>> /\ w[1] # z
  <2> SUFFICES ASSUME NEW w \in AfterComma(I) PROVE w \in Txt /\ w # <<>> /\ w[1] # z
    OBVIOUS
  <2>1. PICK a \in I : w = Cons(Comma, a)
    BY DEF AfterComma
  <2> QED BY <1>2, <2>1
<1>4. \A w \in AfterComma(I), e \in Ends : Glue(w, e) \in Ends
  <2> SUFFICES ASSUME NEW w \in AfterComma(I), NEW e \in Ends PROVE Glue(w, e) \in Ends
    OBVIOUS
  <2>1. PICK a \in I : w = Cons(Comma, a)
    BY DEF AfterComma
  <2>2. Glue(w, e) = Cons(Comma, Glue(a, e)) /\ Glue(a, e) \in Txt
    BY <1>2, <2>1
  <2> QED BY <2>2, EndMarks
<1>5. ASSUME NEW v \in AfterComma(I), NEW w \in AfterComma(I), NEW x \in Ends, NEW y \in Ends,
             Glue(v, x) = Glue(w, y)
      PROVE  v = w /\ x = y
  <2>1. PICK a \in I : v = Cons(Comma, a)
    BY DEF AfterComma
  <2>2. PICK b \in I : w = Cons(Comma, b)
    BY DEF AfterComma
  <2>3. Cons(Comma, Glue(a, x)) = Cons(Comma, Glue(b, y)) /\ Glue(a, x) \in Txt /\ Glue(b, y) \in Txt
    BY <1>2, <1>5, <2>1, <2>2
  <2>4. Glue(a, x) = Glue(b, y)
    BY <1>1, <2>3, Fronts
  <2>5. a = b /\ x = y
    BY <2>4, ItemsApart
  <2> QED BY <2>1, <2>2, <2>5
<1> QED BY <1>1, <1>3, <1>4, <1>5, EndMarks DEF Delimited

LEMMA CommasForm ==
  ASSUME NEW I, I \subseteq Txt
  PROVE  /\ \A A \in Seq(I) : Commas(A) \in Seq(AfterComma(I)) /\ Commas(A) \in Seq(Txt)
         /\ \A A, B \in Seq(I) : Commas(A) = Commas(B) => A = B
<1>0. AfterComma(I) \subseteq Txt
  <2> SUFFICES ASSUME NEW w \in AfterComma(I) PROVE w \in Txt
    OBVIOUS
  <2>1. PICK a \in I : w = Cons(Comma, a)
    BY DEF AfterComma
  <2> QED BY <2>1, EndMarks, Fronts
<1>1. ASSUME NEW s, s \in Seq(I)
      PROVE  /\ Commas(s) \in Seq(AfterComma(I)) /\ DOMAIN Commas(s) = 1..Len(s) /\ Len(s) \in Nat
             /\ \A i \in 1..Len(s) : s[i] \in I /\ Commas(s)[i] = Cons(Comma, s[i])
  <2> DEFINE N == Len(s)
  <2>1. N \in Nat /\ DOMAIN s = 1..N /\ \A i \in 1..N : s[i] \in I
    BY <1>1
  <2> HIDE DEF N
  <2>2. Commas(s) = [i \in 1..N |-> Cons(Comma, s[i])]
    BY <2>1 DEF Commas
  <2>3. \A i \in 1..N : Cons(Comma, s[i]) \in AfterComma(I)
    BY <2>1 DEF AfterComma
  <2>4. Commas(s) \in Seq(AfterComma(I))
    BY <2>1, <2>2, <2>3
  <2> QED BY <2>1, <2>2, <2>4 DEF N
<1>2. ASSUME NEW s, NEW t, s \in Seq(I), t \in Seq(I), Commas(s) = Commas(t) PROVE s = t
  <2>1. 1..Len(s) = 1..Len(t) /\ Len(s) \in Nat /\ Len(t) \in Nat
    BY <1>1, <1>2
  <2>2. Len(s) = Len(t)
    BY <2>1
  <2>3. ASSUME NEW i \in 1..Len(s) PROVE s[i] = t[i]
    <3>1. Cons(Comma, s[i]) = Cons(Comma, t[i]) /\ s[i] \in I /\ t[i] \in I
      BY <1>1, <1>2, <2>2
    <3>2. s[i] \in Txt /\ t[i] \in Txt
      BY <3>1
    <3>3. Comma \in Sym
      BY EndMarks
    <3> QED BY <3>1, <3>2, <3>3, Fronts
  <2> QED BY <1>2, <2>2, <2>3, SeqEqual
<1>3. ASSUME NEW s, s \in Seq(I) PROVE Commas(s) \in Seq(Txt)
  BY <1>0, <1>1, <1>3, SeqMonotonic
<1> QED BY <1>1, <1>2, <1>3

LEMMA SeparatedForm ==
  ASSUME NEW I, I \subseteq Txt
  PROVE  /\ Separated(<<>>) = <<>> /\ FlattenSeq(Commas(<<>>)) = <<>>
         /\ \A A \in Seq(I) : Separated(A) \in Txt
         /\ \A A \in Seq(I) : A # <<>> =>
              /\ FlattenSeq(Commas(A)) = Cons(Comma, Separated(A))
              /\ \E a \in I, r \in Txt : Separated(A) = Glue(a, r)
<1>1. Separated(<<>>) = <<>> /\ FlattenSeq(Commas(<<>>)) = <<>>
  <2>1. [i \in DOMAIN <<>> |-> IF i = 1 THEN <<>>[i] ELSE <<",">> \o <<>>[i]] = <<>>
    OBVIOUS
  <2>2. Commas(<<>>) = <<>>
    BY DEF Commas
  <2> QED BY <2>1, <2>2, FlatGlue DEF Separated
<1>2. ASSUME NEW A, A \in Seq(I), A # <<>>
      PROVE  /\ FlattenSeq(Commas(A)) = Cons(Comma, Separated(A)) /\ Separated(A) \in Txt
             /\ \E a \in I, r \in Txt : Separated(A) = Glue(a, r)
  <2>1. PICK a \in I, R \in Seq(I) : A = Cons(a, R) /\ Len(A) = Len(R) + 1
    BY <1>2, FirstApart
  <2> DEFINE N == Len(R)
             F == FlattenSeq(Commas(R))
  <2>2. N \in Nat /\ DOMAIN R = 1..N
    OBVIOUS
  <2>3. A = [i \in 1..(N + 1) |-> IF i = 1 THEN a ELSE R[i - 1]]
    BY <2>1, ConsTable
  <2>4. /\ Commas(R) \in Seq(Txt) /\ Len(Commas(R)) = N
        /\ \A i \in 1..N : Commas(R)[i] = Cons(Comma, R[i])
    <3> HIDE DEF N
    <3>1. Commas(R) \in Seq(Txt)
      BY CommasForm
    <3>2. DOMAIN Commas(R) = 1..N /\ \A i \in 1..N : Commas(R)[i] = Cons(Comma, R[i])
      BY <2>2 DEF Commas
    <3>3. Len(Commas(R)) = N
      <4>1. Len(Commas(R)) \in Nat /\ DOMAIN Commas(R) = 1..Len(Commas(R))
        BY <3>1
      <4> QED BY <2>2, <3>2, <4>1
    <3> QED BY <3>1, <3>2, <3>3
  <2>5. a \in Txt /\ Cons(Comma, a) \in Txt /\ F \in Txt
    <3>1. a \in Txt
      OBVIOUS
    <3>2. F \in Txt
      BY <2>4, FlatGlue
    <3> QED BY <3>1, <3>2, EndMarks, Fronts
  <2> DEFINE Q == Commas(R)
             C == Cons(a, Q)
             D == Cons(Cons(Comma, a), Q)
  <2>6. /\ C = [i \in 1..(Len(Q) + 1) |-> IF i = 1 THEN a ELSE Q[i - 1]]
        /\ D = [i \in 1..(Len(Q) + 1) |-> IF i = 1 THEN Cons(Comma, a) ELSE Q[i - 1]]
    <3>1. Q \in Seq(Txt)
      BY <2>4
    <3> HIDE DEF Q
    <3>2. C = [i \in 1..(Len(Q) + 1) |-> IF i = 1 THEN a ELSE Q[i - 1]]
      BY <2>5, <3>1, ConsTable
    <3> DEFINE c == Cons(Comma, a)
    <3> HIDE DEF c
    <3>3. Cons(c, Q) = [i \in 1..(Len(Q) + 1) |-> IF i = 1 THEN c ELSE Q[i - 1]]
      BY <2>5, <3>1, ConsTable DEF c
    <3> QED BY <3>2, <3>3 DEF c
  <2>0. Len(Q) = N /\ \A i \in 1..N : Q[i] = Cons(Comma, R[i])
    BY <2>4
  <2> HIDE DEF N, Q
  <2>a. ASSUME NEW i \in 1..(N + 1), i # 1 PROVE A[i] = R[i - 1] /\ Q[i - 1] = Cons(Comma, A[i])
    <3>1. i - 1 \in 1..N
      BY <2>2, <2>a
    <3>2. A[i] = R[i - 1]
      BY <2>3, <2>a
    <3> QED BY <2>0, <3>1, <3>2
  <2>b. A[1] = a /\ DOMAIN A = 1..(N + 1)
    BY <2>2, <2>3
  <2>7. [i \in DOMAIN A |-> IF i = 1 THEN A[i] ELSE <<",">> \o A[i]] = C
    <3> DEFINE S == [i \in 1..(N + 1) |-> IF i = 1 THEN A[i] ELSE Cons(Comma, A[i])]
    <3>1. ASSUME NEW i \in 1..(N + 1) PROVE S[i] = IF i = 1 THEN a ELSE Q[i - 1]
      <4>1. CASE i = 1
        BY <2>b, <4>1
      <4>2. CASE i # 1
        <5>1. S[i] = Cons(Comma, A[i])
          BY <4>2
        <5> QED BY <2>a, <4>2, <5>1
      <4> QED BY <4>1, <4>2
    <3>2. S = C
      BY <2>0, <2>6, <3>1
    <3>3. S = [i \in DOMAIN A |-> IF i = 1 THEN A[i] ELSE <<",">> \o A[i]]
      BY <2>b DEF Cons, Comma
    <3> QED BY <3>2, <3>3
  <2>8. Commas(A) = D
    <3> DEFINE S == [i \in 1..(N + 1) |-> Cons(Comma, A[i])]
    <3>1. ASSUME NEW i \in 1..(N + 1) PROVE S[i] = IF i = 1 THEN Cons(Comma, a) ELSE Q[i - 1]
      <4>1. CASE i = 1
        BY <2>b, <4>1
      <4>2. CASE i # 1
        BY <2>a, <4>2
      <4> QED BY <4>1, <4>2
    <3>2. S = D
      BY <2>0, <2>6, <3>1
    <3>3. Commas(A) = S
      BY <2>b DEF Commas
    <3> QED BY <3>2, <3>3
  <2> USE DEF Q
  <2>9. Separated(A) = Glue(a, F) /\ Glue(a, F) \in Txt
    <3>1. Separated(A) = FlattenSeq(C)
      BY <2>7 DEF Separated
    <3>2. FlattenSeq(C) = Glue(a, F)
      BY <2>4, <2>5, FlatGlue
    <3>3. Glue(a, F) \in Txt
      <4> HIDE DEF F
      <4> QED BY <2>5, Monoid
    <3> QED BY <3>1, <3>2, <3>3
  <2>10. FlattenSeq(Commas(A)) = Cons(Comma, Separated(A))
    <3>1. FlattenSeq(D) = Glue(Cons(Comma, a), F)
      BY <2>4, <2>5, FlatGlue
    <3>2. Glue(Cons(Comma, a), F) = Cons(Comma, Glue(a, F))
      <4> HIDE DEF F
      <4> QED BY <2>5, EndMarks, Fronts
    <3> QED BY <2>8, <2>9, <3>1, <3>2
  <2> QED BY <2>5, <2>9, <2>10
<1>3. \A A \in Seq(I) : Separated(A) \in Txt
  BY <1>1, <1>2, Monoid
<1> QED BY <1>1, <1>2, <1>3

\* Two lists that agree up to their ends are of the same values.
LEMMA SeparatedApart ==
  ASSUME NEW I, Items(I), NEW z, z \in Closing, z # Comma,
         NEW A, A \in Seq(I), NEW B, B \in Seq(I), NEW x, x \in Ends, NEW y, y \in Ends,
         Glue(Separated(A), Cons(z, x)) = Glue(Separated(B), Cons(z, y))
  PROVE  A = B /\ x = y
<1> DEFINE u == Cons(z, x)
           v == Cons(z, y)
<1>1. I \subseteq Txt /\ z \in Sym /\ Comma \in Sym /\ x \in Txt /\ y \in Txt
  BY EndMarks DEF Items
<1>2. u \in Txt /\ v \in Txt /\ u \in Ends /\ v \in Ends /\ u[1] = z /\ v[1] = z /\ (u = v => x = y)
  <2>1. u \in Ends /\ v \in Ends
    BY <1>1, EndMarks
  <2>2. u \in Txt /\ u[1] = z
    BY <1>1, Fronts
  <2>3. v \in Txt /\ v[1] = z
    BY <1>1, Fronts
  <2>4. u = v => x = y
    BY <1>1, Fronts
  <2> QED BY <2>1, <2>2, <2>3, <2>4
<1>3. Glue(Separated(A), u) = Glue(Separated(B), v)
  OBVIOUS
<1> HIDE DEF u, v
<1>4. ASSUME NEW C, C \in Seq(I), NEW t, t \in Txt
      PROVE  /\ Separated(C) \in Txt /\ Glue(Separated(C), t) \in Txt
             /\ C = <<>> => Glue(Separated(C), t) = t
             /\ C # <<>> => /\ Glue(Separated(C), t)[1] # z
                            /\ Glue(FlattenSeq(Commas(C)), t) = Cons(Comma, Glue(Separated(C), t))
  <2>1. Separated(C) \in Txt
    BY <1>1, <1>4, SeparatedForm
  <2>2. Glue(Separated(C), t) \in Txt
    BY <1>4, <2>1, Monoid
  <2>3. CASE C = <<>>
    BY <1>1, <1>4, <2>1, <2>2, <2>3, SeparatedForm, Monoid
  <2>4. CASE C # <<>>
    <3>1. PICK a \in I, r \in Txt : Separated(C) = Glue(a, r)
      BY <1>1, <1>4, <2>4, SeparatedForm
    <3>2. a \in Txt /\ a # <<>> /\ a[1] \notin Closing
      BY DEF Items
    <3>3. Glue(a, r) # <<>> /\ Glue(a, r)[1] = a[1]
      BY <3>2, Fronts
    <3>4. Glue(Separated(C), t)[1] = a[1]
      BY <1>4, <2>1, <3>1, <3>3, Fronts
    <3>5. FlattenSeq(Commas(C)) = Cons(Comma, Separated(C))
      BY <1>1, <1>4, <2>4, SeparatedForm
    <3>6. Glue(Cons(Comma, Separated(C)), t) = Cons(Comma, Glue(Separated(C), t))
      BY <1>1, <1>4, <2>1, Fronts
    <3> QED BY <2>1, <2>2, <2>4, <3>2, <3>4, <3>5, <3>6
  <2> QED BY <2>3, <2>4
<1>5. CASE A = <<>> /\ B = <<>>
  BY <1>2, <1>3, <1>4, <1>5, ZenonT(60)
<1>6. CASE A = <<>> /\ B # <<>>
  <2>1. Glue(Separated(A), u) = u
    BY <1>2, <1>4, <1>6
  <2>2. Glue(Separated(B), v)[1] # z
    BY <1>2, <1>4, <1>6
  <2> QED BY <1>2, <1>3, <2>1, <2>2
<1>7. CASE A # <<>> /\ B = <<>>
  <2>1. Glue(Separated(B), v) = v
    BY <1>2, <1>4, <1>7
  <2>2. Glue(Separated(A), u)[1] # z
    BY <1>2, <1>4, <1>7
  <2> QED BY <1>2, <1>3, <2>1, <2>2
<1>8. CASE A # <<>> /\ B # <<>>
  <2>1. Glue(FlattenSeq(Commas(A)), u) = Glue(FlattenSeq(Commas(B)), v)
    BY <1>2, <1>3, <1>4, <1>8
  <2>2. Commas(A) \in Seq(AfterComma(I)) /\ Commas(B) \in Seq(AfterComma(I))
    BY <1>1, CommasForm
  <2>3. Delimited(AfterComma(I), Ends, z)
    BY ItemsDelimited
  <2>4. Commas(A) = Commas(B) /\ x = y
    BY <1>1, <1>2, <2>1, <2>2, <2>3, Lists DEF u, v
  <2> QED BY <1>1, <2>4, CommasForm
<1> QED BY <1>5, <1>6, <1>7, <1>8

-----------------------------------------------------------------------------
(* Keys in order: all of them, in an order that is theirs alone. *)

\* The place of a character among the bytes, behind the end of the text.
RankAt(s, i) == IF i <= Len(s) THEN Rank[s[i]] + 1 ELSE 0

FirstLess(s, t, i) == RankAt(s, i) < RankAt(t, i) /\ \A j \in 1..(i - 1) : RankAt(s, j) = RankAt(t, j)

LEMMA RankType ==
  ASSUME NEW s, s \in Seq(JsonChar)
  PROVE  /\ Len(s) \in Nat /\ \A i \in Nat \ {0} : RankAt(s, i) \in Nat
         /\ \A i \in Nat \ {0} : i <= Len(s) <=> RankAt(s, i) > 0
<1>1. Len(s) \in Nat /\ \A i \in 1..Len(s) : s[i] \in JsonChar
  OBVIOUS
<1>2. \A i \in 1..Len(s) : Rank[s[i]] \in Nat
  BY <1>1, GateAssumption
<1> DEFINE N == Len(s)
<1> HIDE DEF N
<1>3. ASSUME NEW i \in Nat \ {0} PROVE RankAt(s, i) \in Nat /\ (i <= N <=> RankAt(s, i) > 0)
  <2>1. CASE i <= N
    <3>1. Rank[s[i]] \in Nat /\ RankAt(s, i) = Rank[s[i]] + 1
      BY <1>1, <1>2, <2>1 DEF RankAt, N
    <3> QED BY <2>1, <3>1
  <2>2. CASE ~(i <= N)
    <3>1. RankAt(s, i) = 0
      BY <2>2 DEF RankAt, N
    <3> QED BY <2>2, <3>1
  <2> QED BY <2>1, <2>2
<1> QED BY <1>1, <1>3 DEF N

LEMMA RankSame ==
  ASSUME NEW s, s \in Seq(JsonChar), NEW t, t \in Seq(JsonChar), NEW i \in Nat \ {0},
         i <= Len(s), RankAt(s, i) = RankAt(t, i)
  PROVE  i <= Len(t) /\ s[i] = t[i]
<1>1. i <= Len(t)
  BY RankType
<1>2. Len(s) \in Nat /\ Len(t) \in Nat /\ i \in 1..Len(s) /\ i \in 1..Len(t)
  BY <1>1, RankType
<1>3. s[i] \in JsonChar /\ t[i] \in JsonChar
  BY <1>2
<1>4. Rank[s[i]] \in Nat /\ Rank[t[i]] \in Nat
  BY <1>3, GateAssumption
<1>5. Rank[s[i]] + 1 = Rank[t[i]] + 1
  BY <1>1 DEF RankAt
<1>6. Rank[s[i]] = Rank[t[i]]
  BY <1>4, <1>5
<1> QED BY <1>1, <1>3, <1>6, GateAssumption

LEMMA TextsSame ==
  ASSUME NEW s, s \in Seq(JsonChar), NEW t, t \in Seq(JsonChar),
         \A i \in Nat \ {0} : RankAt(s, i) = RankAt(t, i)
  PROVE  s = t
<1> DEFINE M == Len(s)
           N == Len(t)
<1>1. M \in Nat /\ N \in Nat
  OBVIOUS
<1>2. \A i \in Nat \ {0} : (i <= M <=> RankAt(s, i) > 0) /\ (i <= N <=> RankAt(t, i) > 0)
  BY RankType
<1> HIDE DEF M, N
<1>3. M = N
  <2>1. M > 0 => M <= N
    BY <1>1, <1>2
  <2>2. N > 0 => N <= M
    BY <1>1, <1>2
  <2> QED BY <1>1, <2>1, <2>2
<1>4. \A i \in 1..M : s[i] = t[i]
  <2> SUFFICES ASSUME NEW i \in 1..M PROVE s[i] = t[i]
    OBVIOUS
  <2>1. i \in Nat \ {0} /\ i <= Len(s)
    BY <1>1 DEF M
  <2> QED BY <2>1, RankSame
<1> QED BY <1>3, <1>4, SeqEqual DEF M, N

\* Bytewise order in one clause.
LEMMA BeforeFirst ==
  ASSUME NEW s, s \in Seq(JsonChar), NEW t, t \in Seq(JsonChar)
  PROVE  Before(s, t) <=> \E i \in Nat \ {0} : FirstLess(s, t, i)
<1> DEFINE M == Len(s)
           N == Len(t)
<1>1. M \in Nat /\ N \in Nat /\ DOMAIN s = 1..M /\ DOMAIN t = 1..N
  OBVIOUS
<1>2. /\ \A i \in 1..M : s[i] \in JsonChar /\ Rank[s[i]] \in Nat /\ RankAt(s, i) = Rank[s[i]] + 1
      /\ \A i \in 1..N : t[i] \in JsonChar /\ Rank[t[i]] \in Nat /\ RankAt(t, i) = Rank[t[i]] + 1
  <2>1. \A i \in 1..M : s[i] \in JsonChar /\ i <= Len(s)
    OBVIOUS
  <2>2. \A i \in 1..N : t[i] \in JsonChar /\ i <= Len(t)
    OBVIOUS
  <2> HIDE DEF M, N
  <2> QED BY <2>1, <2>2, GateAssumption DEF RankAt
<1>3. ASSUME IsStrictPrefix(s, t) PROVE \E i \in Nat \ {0} : FirstLess(s, t, i)
  <2>1. M <= N /\ SubSeq(s, 1, M) = SubSeq(t, 1, M) /\ s # t
    BY <1>3 DEF IsStrictPrefix, IsPrefix
  <2>2. \A j \in 1..M : s[j] = t[j]
    <3> DEFINE a == SubSeq(s, 1, M)
               b == SubSeq(t, 1, M)
    <3>1. \A j \in 1..M : a[j] = s[j]
      BY <1>1
    <3>2. \A j \in 1..M : b[j] = t[j]
      BY <1>1, <2>1
    <3>3. a = b
      BY <2>1
    <3> HIDE DEF a, b, M
    <3> QED BY <3>1, <3>2, <3>3
  <2>3. M # N
    <3>1. M = N => s = t
      BY <2>2, SeqEqual
    <3> QED BY <2>1, <3>1
  <2> HIDE DEF M, N
  <2>4. M + 1 \in 1..N /\ M + 1 \in Nat \ {0}
    BY <1>1, <2>1, <2>3
  <2>5. RankAt(s, M + 1) = 0
    BY <1>1 DEF RankAt, M
  <2>6. RankAt(t, M + 1) > 0
    BY <1>2, <2>4
  <2>7. \A j \in 1..((M + 1) - 1) : RankAt(s, j) = RankAt(t, j)
    <3> SUFFICES ASSUME NEW j \in 1..((M + 1) - 1) PROVE RankAt(s, j) = RankAt(t, j)
      OBVIOUS
    <3>1. j \in 1..M /\ j \in 1..N
      BY <1>1, <2>1
    <3> QED BY <1>2, <2>2, <3>1
  <2> QED BY <2>4, <2>5, <2>6, <2>7 DEF FirstLess
<1>4. ASSUME NEW i \in DOMAIN s \cap DOMAIN t, Rank[s[i]] < Rank[t[i]], \A j \in 1..(i - 1) : s[j] = t[j]
      PROVE  FirstLess(s, t, i) /\ i \in Nat \ {0}
  <2> HIDE DEF M, N
  <2>1. i \in 1..M /\ i \in 1..N /\ i \in Nat \ {0}
    BY <1>1, <1>4
  <2>2. RankAt(s, i) < RankAt(t, i)
    BY <1>2, <1>4, <2>1
  <2>3. \A j \in 1..(i - 1) : RankAt(s, j) = RankAt(t, j)
    <3> SUFFICES ASSUME NEW j \in 1..(i - 1) PROVE RankAt(s, j) = RankAt(t, j)
      OBVIOUS
    <3>1. j \in 1..M /\ j \in 1..N
      BY <1>1, <2>1
    <3> QED BY <1>2, <1>4, <3>1
  <2> QED BY <2>1, <2>2, <2>3 DEF FirstLess
<1>5. ASSUME NEW i \in Nat \ {0}, FirstLess(s, t, i) PROVE Before(s, t)
  <2> HIDE DEF M, N
  <2>1. RankAt(s, i) < RankAt(t, i) /\ RankAt(s, i) \in Nat /\ RankAt(t, i) \in Nat
    BY <1>5, RankType DEF FirstLess
  <2>2. i <= N
    BY <2>1, RankType DEF N
  <2>3. ASSUME NEW j \in 1..(i - 1) PROVE j \in 1..M /\ s[j] = t[j]
    <3>1. RankAt(s, j) = RankAt(t, j) /\ j \in Nat \ {0} /\ j <= N
      BY <1>1, <1>5, <2>2 DEF FirstLess
    <3>2. j <= M /\ t[j] = s[j]
      BY <3>1, RankSame DEF M, N
    <3> QED BY <1>1, <3>1, <3>2
  <2>4. CASE i <= M
    <3>1. i \in DOMAIN s \cap DOMAIN t /\ i \in 1..M /\ i \in 1..N
      BY <1>1, <2>2, <2>4
    <3>2. Rank[s[i]] < Rank[t[i]]
      BY <1>2, <2>1, <3>1
    <3> QED BY <2>3, <3>1, <3>2 DEF Before
  <2>5. CASE ~(i <= M)
    <3>1. i = M + 1
      <4>1. CASE i = 1
        BY <1>1, <2>5, <4>1
      <4>2. CASE i # 1
        <5>1. i - 1 \in 1..(i - 1)
          BY <4>2
        <5>2. i - 1 <= M
          BY <1>1, <2>3, <5>1
        <5> QED BY <1>1, <2>5, <5>2
      <4> QED BY <4>1, <4>2
    <3>2. M < N /\ \A j \in 1..M : s[j] = t[j]
      BY <1>1, <2>2, <2>3, <3>1
    <3>3. SubSeq(s, 1, M) = SubSeq(t, 1, M)
      <4>1. \A j \in 1..M : s[j] \in JsonChar /\ t[j] \in JsonChar
        BY <1>1, <1>2, <3>2
      <4>2. /\ SubSeq(s, 1, M) \in Seq(JsonChar) /\ Len(SubSeq(s, 1, M)) = M
            /\ \A j \in 1..M : SubSeq(s, 1, M)[j] = s[j]
        <5>1. /\ SubSeq(s, 1, M) \in Seq(JsonChar)
              /\ Len(SubSeq(s, 1, M)) = IF 1 <= M THEN M - 1 + 1 ELSE 0
              /\ \A j \in 1..(M - 1 + 1) : SubSeq(s, 1, M)[j] = s[1 + j - 1]
          BY <1>1, <4>1, SubSeqProperties
        <5> QED BY <1>1, <5>1
      <4>3. /\ SubSeq(t, 1, M) \in Seq(JsonChar) /\ Len(SubSeq(t, 1, M)) = M
            /\ \A j \in 1..M : SubSeq(t, 1, M)[j] = t[j]
        <5>1. /\ SubSeq(t, 1, M) \in Seq(JsonChar)
              /\ Len(SubSeq(t, 1, M)) = IF 1 <= M THEN M - 1 + 1 ELSE 0
              /\ \A j \in 1..(M - 1 + 1) : SubSeq(t, 1, M)[j] = t[1 + j - 1]
          BY <1>1, <4>1, SubSeqProperties
        <5> QED BY <1>1, <5>1
      <4> DEFINE a == SubSeq(s, 1, M)
                 b == SubSeq(t, 1, M)
      <4>4. a \in Seq(JsonChar) /\ b \in Seq(JsonChar) /\ Len(a) = Len(b) /\ \A j \in 1..Len(a) : a[j] = b[j]
        BY <3>2, <4>2, <4>3
      <4> HIDE DEF a, b
      <4>5. a = b
        BY <4>4, SeqEqual
      <4> QED BY <4>5 DEF a, b
    <3>4. s # t
      BY <1>1, <3>2 DEF M, N
    <3>5. IsStrictPrefix(s, t)
      BY <1>1, <3>2, <3>3, <3>4 DEF IsStrictPrefix, IsPrefix, M, N
    <3> QED BY <3>5 DEF Before
  <2> QED BY <2>4, <2>5
<1> QED
  <2>1. Before(s, t) => \E i \in Nat \ {0} : FirstLess(s, t, i)
    BY <1>3, <1>4 DEF Before
  <2> QED BY <1>5, <2>1

LEMMA BeforeStrict ==
  ASSUME NEW s, s \in Seq(JsonChar)
  PROVE  ~Before(s, s)
<1>1. ASSUME NEW i \in Nat \ {0}, FirstLess(s, s, i) PROVE FALSE
  <2>1. RankAt(s, i) \in Nat /\ RankAt(s, i) < RankAt(s, i)
    BY <1>1, RankType DEF FirstLess
  <2> QED BY <2>1
<1> QED BY <1>1, BeforeFirst

LEMMA BeforeTransitive ==
  ASSUME NEW s, s \in Seq(JsonChar), NEW t, t \in Seq(JsonChar), NEW u, u \in Seq(JsonChar),
         Before(s, t), Before(t, u)
  PROVE  Before(s, u)
<1>1. PICK i \in Nat \ {0} : FirstLess(s, t, i)
  BY BeforeFirst
<1>2. PICK j \in Nat \ {0} : FirstLess(t, u, j)
  BY BeforeFirst
<1>3. \A k \in Nat \ {0} : RankAt(s, k) \in Nat /\ RankAt(t, k) \in Nat /\ RankAt(u, k) \in Nat
  BY RankType
<1>4. CASE i <= j
  <2>1. RankAt(t, i) <= RankAt(u, i)
    <3>1. CASE i = j
      BY <1>2, <1>3, <3>1 DEF FirstLess
    <3>2. CASE i # j
      <4>1. i \in 1..(j - 1)
        BY <1>4, <3>2
      <4> QED BY <1>2, <1>3, <4>1 DEF FirstLess
    <3> QED BY <3>1, <3>2
  <2>2. RankAt(s, i) < RankAt(u, i)
    BY <1>1, <1>3, <2>1 DEF FirstLess
  <2>3. \A k \in 1..(i - 1) : k \in 1..(j - 1)
    BY <1>4
  <2>4. FirstLess(s, u, i)
    BY <1>1, <1>2, <2>2, <2>3 DEF FirstLess
  <2> QED BY <2>4, BeforeFirst
<1>5. CASE ~(i <= j)
  <2>1. j \in 1..(i - 1)
    BY <1>5
  <2>2. RankAt(s, j) < RankAt(u, j)
    BY <1>1, <1>2, <2>1 DEF FirstLess
  <2>3. \A k \in 1..(j - 1) : k \in 1..(i - 1)
    BY <1>5
  <2>4. FirstLess(s, u, j)
    BY <1>1, <1>2, <2>2, <2>3 DEF FirstLess
  <2> QED BY <2>4, BeforeFirst
<1> QED BY <1>4, <1>5

LEMMA BeforeTotal ==
  ASSUME NEW s, s \in Seq(JsonChar), NEW t, t \in Seq(JsonChar), s # t
  PROVE  Before(s, t) \/ Before(t, s)
<1> DEFINE T == {i \in Nat \ {0} : RankAt(s, i) # RankAt(t, i)}
<1>1. T \in SUBSET Nat /\ T # {}
  BY TextsSame
<1>2. PICK i \in T : \A j \in T : i <= j
  <2> HIDE DEF T
  <2> QED BY <1>1, LeastElement
<1>3. i \in Nat \ {0} /\ RankAt(s, i) # RankAt(t, i)
  OBVIOUS
<1>4. \A j \in 1..(i - 1) : RankAt(s, j) = RankAt(t, j)
  <2> SUFFICES ASSUME NEW j \in 1..(i - 1) PROVE RankAt(s, j) = RankAt(t, j)
    OBVIOUS
  <2>1. j \in Nat \ {0} /\ ~(i <= j)
    BY <1>3
  <2> QED BY <1>2, <2>1
<1>5. RankAt(s, i) \in Nat /\ RankAt(t, i) \in Nat
  BY <1>3, RankType
<1> HIDE DEF T
<1>6. CASE RankAt(s, i) < RankAt(t, i)
  <2>1. FirstLess(s, t, i)
    BY <1>4, <1>6 DEF FirstLess
  <2> QED BY <1>3, <2>1, BeforeFirst
<1>7. CASE RankAt(t, i) < RankAt(s, i)
  <2>1. FirstLess(t, s, i)
    BY <1>4, <1>7 DEF FirstLess
  <2> QED BY <1>3, <2>1, BeforeFirst
<1> QED BY <1>3, <1>5, <1>6, <1>7

\* As many keys come before a key as its place says.
Earlier(K, k) == {l \in K : Before(l, k)}
InOrder(K) == [p \in 1..Cardinality(K) |-> CHOOSE k \in K : Cardinality(Earlier(K, k)) = p - 1]

LEMMA EarlierFewer ==
  ASSUME NEW K, K \subseteq Seq(JsonChar), IsFiniteSet(K), NEW k, k \in K
  PROVE  /\ Cardinality(Earlier(K, k)) \in 0..(Cardinality(K) - 1)
         /\ \A l \in K : Before(l, k) => Cardinality(Earlier(K, l)) < Cardinality(Earlier(K, k))
<1>1. ASSUME NEW m, m \in K
      PROVE  /\ IsFiniteSet(Earlier(K, m)) /\ Cardinality(Earlier(K, m)) \in Nat
             /\ m \notin Earlier(K, m) /\ Earlier(K, m) \subseteq K
  <2>1. Earlier(K, m) \subseteq K
    BY DEF Earlier
  <2>2. m \in Seq(JsonChar)
    BY <1>1
  <2>3. m \notin Earlier(K, m)
    BY <2>2, BeforeStrict DEF Earlier
  <2>4. IsFiniteSet(Earlier(K, m))
    BY <2>1, FS_Subset
  <2> QED BY <2>1, <2>3, <2>4, FS_CardinalityType
<1>2. Cardinality(K) \in Nat
  BY FS_CardinalityType
<1>3. Cardinality(Earlier(K, k)) \in 0..(Cardinality(K) - 1)
  <2>1. Earlier(K, k) \subseteq K \ {k}
    BY <1>1
  <2>2. IsFiniteSet(K \ {k}) /\ Cardinality(K \ {k}) = Cardinality(K) - 1
    BY FS_RemoveElement
  <2>3. Cardinality(Earlier(K, k)) <= Cardinality(K \ {k})
    BY <2>1, <2>2, FS_Subset
  <2>4. Cardinality(Earlier(K, k)) \in Nat
    BY <1>1
  <2> QED BY <1>2, <2>2, <2>3, <2>4
<1>4. ASSUME NEW l, l \in K, Before(l, k) PROVE Cardinality(Earlier(K, l)) < Cardinality(Earlier(K, k))
  <2> DEFINE E == Earlier(K, k)
             F == Earlier(K, l)
  <2>1. l \in E
    BY <1>4 DEF Earlier
  <2>2. F \subseteq E \ {l}
    <3>1. l \notin F /\ F \subseteq K
      BY <1>1, <1>4
    <3>2. ASSUME NEW m, m \in F PROVE m \in E
      <4>1. m \in K /\ Before(m, l)
        BY <3>2 DEF Earlier
      <4>2. m \in Seq(JsonChar) /\ l \in Seq(JsonChar) /\ k \in Seq(JsonChar)
        BY <1>4, <4>1
      <4>3. Before(m, k)
        BY <1>4, <4>1, <4>2, BeforeTransitive
      <4> QED BY <4>1, <4>3 DEF Earlier
    <3> QED BY <3>1, <3>2
  <2>3. IsFiniteSet(E) /\ Cardinality(E) \in Nat /\ Cardinality(F) \in Nat
    BY <1>1, <1>4
  <2> HIDE DEF E, F
  <2>4. IsFiniteSet(E \ {l}) /\ Cardinality(E \ {l}) = Cardinality(E) - 1
    BY <2>1, <2>3, FS_RemoveElement
  <2>5. Cardinality(F) <= Cardinality(E \ {l})
    BY <2>2, <2>4, FS_Subset
  <2>6. Cardinality(F) < Cardinality(E)
    BY <2>3, <2>4, <2>5
  <2> QED BY <2>6 DEF E, F
<1> QED BY <1>3, <1>4

LEMMA OrderComplete ==
  ASSUME NEW K, K \subseteq Seq(JsonChar), IsFiniteSet(K)
  PROVE  /\ Cardinality(K) \in Nat
         /\ \A p \in 1..Cardinality(K) : InOrder(K)[p] \in K
         /\ \A k \in K : \E p \in 1..Cardinality(K) : InOrder(K)[p] = k
<1> DEFINE N == Cardinality(K)
           place == [k \in K |-> Cardinality(Earlier(K, k))]
           Places0 == 0..(N - 1)
<1>1. N \in Nat
  BY FS_CardinalityType
<1>2. place \in [K -> Places0]
  BY EarlierFewer
<1>3. ASSUME NEW k \in K, NEW l \in K, place[k] = place[l] PROVE k = l
  <2>1. k \in Seq(JsonChar) /\ l \in Seq(JsonChar)
    OBVIOUS
  <2>2. ASSUME NEW m \in K PROVE place[m] \in Nat
    BY EarlierFewer
  <2>3. ~Before(k, l)
    <3>1. ASSUME Before(k, l) PROVE place[k] < place[l]
      BY <3>1, EarlierFewer
    <3> HIDE DEF place
    <3> QED BY <1>3, <2>2, <3>1
  <2>4. ~Before(l, k)
    <3>1. ASSUME Before(l, k) PROVE place[l] < place[k]
      BY <3>1, EarlierFewer
    <3> HIDE DEF place
    <3> QED BY <1>3, <2>2, <3>1
  <2> QED BY <2>1, <2>3, <2>4, BeforeTotal
<1>4. IsFiniteSet(Places0) /\ Cardinality(Places0) = N
  <2>1. IsFiniteSet(0..(N - 1)) /\ Cardinality(0..(N - 1)) = IF 0 > N - 1 THEN 0 ELSE (N - 1) - 0 + 1
    <3> DEFINE z == 0
               m == N - 1
    <3>1. z \in Int /\ m \in Int
      BY <1>1
    <3> HIDE DEF z, m
    <3>2. IsFiniteSet(z..m) /\ Cardinality(z..m) = IF z > m THEN 0 ELSE m - z + 1
      BY <3>1, FS_Interval
    <3> QED BY <3>2 DEF z, m
  <2> HIDE DEF N
  <2> QED BY <1>1, <2>1
<1> HIDE DEF Places0
<1>5. place \in Injection(K, Places0)
  <2> HIDE DEF place
  <2>1. DOMAIN place = K
    BY <1>2
  <2> QED BY <1>2, <1>3, <2>1 DEF Injection, IsInjective
<1>6. place \in Surjection(K, Places0)
  <2> HIDE DEF place
  <2> QED BY <1>4, <1>5, FS_Injection DEF N
<1>7. \A q \in Places0 : \E k \in K : place[k] = q
  <2> HIDE DEF place
  <2> QED BY <1>6 DEF Surjection
<1>8. ASSUME NEW p \in 1..N PROVE InOrder(K)[p] \in K /\ place[InOrder(K)[p]] = p - 1
  <2>1. p - 1 \in Places0
    BY <1>1 DEF Places0
  <2>2. PICK k \in K : place[k] = p - 1
    BY <1>7, <2>1
  <2> DEFINE c == CHOOSE k0 \in K : Cardinality(Earlier(K, k0)) = p - 1
  <2>3. c \in K /\ Cardinality(Earlier(K, c)) = p - 1
    BY <2>2
  <2>4. InOrder(K)[p] = c
    BY DEF InOrder
  <2> HIDE DEF c
  <2> QED BY <2>3, <2>4
<1>9. ASSUME NEW k \in K PROVE \E p \in 1..N : InOrder(K)[p] = k
  <2>1. place[k] \in Places0
    BY <1>2
  <2> DEFINE p == place[k] + 1
  <2>2. p \in 1..N /\ p - 1 = place[k]
    BY <1>1, <2>1 DEF Places0
  <2> HIDE DEF p, place, N
  <2>3. InOrder(K)[p] \in K /\ place[InOrder(K)[p]] = place[k]
    BY <1>8, <2>2
  <2> QED BY <1>3, <2>2, <2>3
<1> QED BY <1>1, <1>8, <1>9

\* The keys of an object, each once.
LEMMA KeysSorted ==
  ASSUME NEW V, NEW ms, ms \in Members(V)
  PROVE  /\ KeysOf(ms) \subseteq Seq(JsonChar) /\ Cardinality(KeysOf(ms)) \in Nat
         /\ ByKey(ms) = InOrder(KeysOf(ms))
         /\ \A p \in 1..Cardinality(KeysOf(ms)) : ByKey(ms)[p] \in KeysOf(ms)
         /\ \A k \in KeysOf(ms) : \E p \in 1..Cardinality(KeysOf(ms)) : ByKey(ms)[p] = k
<1> DEFINE K == KeysOf(ms)
           N == Len(ms)
           f == [i \in 1..N |-> ms[i][1]]
<1>1. ms \in Seq(Seq(JsonChar) \X V)
  BY DEF Members
<1>2. N \in Nat /\ DOMAIN ms = 1..N /\ \A i \in 1..N : ms[i] \in Seq(JsonChar) \X V
  BY <1>1
<1> HIDE DEF N
<1>3. \A i \in 1..N : ms[i][1] \in Seq(JsonChar)
  BY <1>2
<1>4. K = {ms[i][1] : i \in 1..N}
  <2>1. Range(ms) = {ms[i] : i \in 1..N}
    BY <1>2 DEF Range
  <2> QED BY <2>1 DEF KeysOf
<1>5. K \subseteq Seq(JsonChar)
  BY <1>3, <1>4
<1>6. f \in Surjection(1..N, K)
  BY <1>4 DEF Surjection
<1>7. IsFiniteSet(K)
  <2>1. IsFiniteSet(1..N)
    BY <1>2, FS_Interval
  <2> HIDE DEF f, K
  <2> QED BY <1>6, <2>1, FS_Surjection
<1>8. ByKey(ms) = InOrder(K)
  BY DEF ByKey, InOrder, Earlier
<1> HIDE DEF K
<1>9. /\ Cardinality(K) \in Nat
      /\ \A p \in 1..Cardinality(K) : InOrder(K)[p] \in K
      /\ \A k \in K : \E p \in 1..Cardinality(K) : InOrder(K)[p] = k
  BY <1>5, <1>7, OrderComplete
<1> QED BY <1>5, <1>8, <1>9 DEF K

-----------------------------------------------------------------------------
(* Values by their depth. *)

LEMMA NestedTable ==
  /\ Nested[0] = {}
  /\ \A n \in 1..MaxDepth : Nested[n] = Over(Nested[n - 1])
<1> DEFINE Filled(g, n) == g = [k \in 0..n |-> IF k = 0 THEN {} ELSE Over(g[k - 1])]
           T == {n \in 0..MaxDepth : \E g : Filled(g, n)}
<1>1. 0 \in T
  <2> DEFINE g == [k \in 0..0 |-> {}]
  <2>1. Filled(g, 0)
    OBVIOUS
  <2> HIDE DEF g
  <2> QED BY <2>1, GateAssumption
<1>2. ASSUME NEW n \in 0..(MaxDepth - 1), n \in T PROVE n + 1 \in T
  <2>1. PICK g : Filled(g, n)
    BY <1>2
  <2> DEFINE h == [k \in 0..(n + 1) |-> IF k = 0 THEN {} ELSE Over(g[k - 1])]
             H == [k \in 0..(n + 1) |-> IF k = 0 THEN {} ELSE Over(h[k - 1])]
  <2>2. ASSUME NEW k \in 0..(n + 1) PROVE h[k] = H[k]
    <3>1. CASE k = 0
      BY <3>1
    <3>2. CASE k # 0
      <4>1. k - 1 \in 0..n /\ k - 1 \in 0..(n + 1)
        BY <3>2
      <4>2. g[k - 1] = h[k - 1]
        BY <2>1, <4>1
      <4>3. h[k] = Over(g[k - 1]) /\ H[k] = Over(h[k - 1])
        BY <3>2
      <4> QED BY <4>2, <4>3
    <3> QED BY <3>1, <3>2
  <2>3. h = H
    BY <2>2
  <2>4. Filled(h, n + 1)
    BY <2>3
  <2>5. n + 1 \in 0..MaxDepth
    BY GateAssumption
  <2> HIDE DEF h, Filled
  <2> QED BY <2>4, <2>5
<1>3. MaxDepth \in T
  <2>1. MaxDepth \in Nat
    BY GateAssumption
  <2> HIDE DEF T
  <2>2. 0..MaxDepth \subseteq T
    BY <1>1, <1>2, <2>1, InductionUpTo
  <2> QED BY <2>1, <2>2
<1>4. Filled(Nested, MaxDepth)
  <2>1. \E g : Filled(g, MaxDepth)
    BY <1>3
  <2> QED BY <2>1 DEF Nested
<1>5. \A n \in 0..MaxDepth : Nested[n] = IF n = 0 THEN {} ELSE Over(Nested[n - 1])
  BY <1>4
<1>6. 0 \in 0..MaxDepth
  BY GateAssumption
<1>7. \A n \in 1..MaxDepth : n \in 0..MaxDepth /\ n # 0
  OBVIOUS
<1> QED BY <1>5, <1>6, <1>7

LEMMA CanonicalTable ==
  \E text : /\ \A n \in 1..MaxDepth : text[n] = [v \in Nested[n] |-> Written(v, text[n - 1])]
            /\ \A v \in Json : Canonical(v) = text[MaxDepth][v]
<1> DEFINE Filled(g, n) == g = [k \in 0..n |-> [v \in Nested[k] |-> Written(v, g[k - 1])]]
           T == {n \in 0..MaxDepth : \E g : Filled(g, n)}
<1>0. Nested[0] = {} /\ MaxDepth \in Nat
  BY NestedTable, GateAssumption
<1>1. 0 \in T
  <2> DEFINE g == [k \in 0..0 |-> [v \in {} |-> {}]]
             G == [k \in 0..0 |-> [v \in Nested[k] |-> Written(v, g[k - 1])]]
  <2>1. ASSUME NEW k \in 0..0 PROVE g[k] = G[k]
    <3>1. k = 0
      OBVIOUS
    <3> QED BY <1>0, <3>1
  <2>2. g = G
    BY <2>1
  <2>3. Filled(g, 0)
    BY <2>2
  <2> HIDE DEF g, Filled
  <2> QED BY <1>0, <2>3
<1>2. ASSUME NEW n \in 0..(MaxDepth - 1), n \in T PROVE n + 1 \in T
  <2>1. PICK g : Filled(g, n)
    BY <1>2
  <2> DEFINE h == [k \in 0..(n + 1) |-> [v \in Nested[k] |-> Written(v, g[k - 1])]]
             H == [k \in 0..(n + 1) |-> [v \in Nested[k] |-> Written(v, h[k - 1])]]
  <2>2. ASSUME NEW k \in 0..(n + 1) PROVE h[k] = H[k]
    <3>1. CASE k = 0
      BY <1>0, <3>1
    <3>2. CASE k # 0
      <4>1. k - 1 \in 0..n /\ k - 1 \in 0..(n + 1)
        BY <3>2
      <4>2. g[k - 1] = h[k - 1]
        BY <2>1, <4>1
      <4>3. h[k] = [v \in Nested[k] |-> Written(v, g[k - 1])] /\ H[k] = [v \in Nested[k] |-> Written(v, h[k - 1])]
        OBVIOUS
      <4> QED BY <4>2, <4>3
    <3> QED BY <3>1, <3>2
  <2>3. h = H
    BY <2>2
  <2>4. Filled(h, n + 1)
    BY <2>3
  <2>5. n + 1 \in 0..MaxDepth
    BY GateAssumption
  <2> HIDE DEF h, Filled
  <2> QED BY <2>4, <2>5
<1>3. MaxDepth \in T
  <2> HIDE DEF T
  <2>1. 0..MaxDepth \subseteq T
    BY <1>0, <1>1, <1>2, InductionUpTo
  <2> QED BY <1>0, <2>1
<1> DEFINE c == CHOOSE g : Filled(g, MaxDepth)
<1>4. Filled(c, MaxDepth)
  <2>1. \E g : Filled(g, MaxDepth)
    BY <1>3
  <2> HIDE DEF Filled
  <2> QED BY <2>1
<1>5. \A v \in Json : Canonical(v) = c[MaxDepth][v]
  BY DEF Canonical
<1> HIDE DEF c
<1>6. ASSUME NEW n \in 1..MaxDepth PROVE c[n] = [v \in Nested[n] |-> Written(v, c[n - 1])]
  <2>1. n \in 0..MaxDepth
    OBVIOUS
  <2> QED BY <1>4, <2>1
<1> QED BY <1>5, <1>6

LEMMA MeantTable ==
  \E said : /\ \A n \in 1..MaxDepth : said[n] = [v \in Nested[n] |-> Said(v, said[n - 1])]
            /\ \A v \in Json : Meant(v) = said[MaxDepth][v]
<1> DEFINE Filled(g, n) == g = [k \in 0..n |-> [v \in Nested[k] |-> Said(v, g[k - 1])]]
           T == {n \in 0..MaxDepth : \E g : Filled(g, n)}
<1>0. Nested[0] = {} /\ MaxDepth \in Nat
  BY NestedTable, GateAssumption
<1>1. 0 \in T
  <2> DEFINE g == [k \in 0..0 |-> [v \in {} |-> {}]]
             G == [k \in 0..0 |-> [v \in Nested[k] |-> Said(v, g[k - 1])]]
  <2>1. ASSUME NEW k \in 0..0 PROVE g[k] = G[k]
    <3>1. k = 0
      OBVIOUS
    <3> QED BY <1>0, <3>1
  <2>2. g = G
    BY <2>1
  <2>3. Filled(g, 0)
    BY <2>2
  <2> HIDE DEF g, Filled
  <2> QED BY <1>0, <2>3
<1>2. ASSUME NEW n \in 0..(MaxDepth - 1), n \in T PROVE n + 1 \in T
  <2>1. PICK g : Filled(g, n)
    BY <1>2
  <2> DEFINE h == [k \in 0..(n + 1) |-> [v \in Nested[k] |-> Said(v, g[k - 1])]]
             H == [k \in 0..(n + 1) |-> [v \in Nested[k] |-> Said(v, h[k - 1])]]
  <2>2. ASSUME NEW k \in 0..(n + 1) PROVE h[k] = H[k]
    <3>1. CASE k = 0
      BY <1>0, <3>1
    <3>2. CASE k # 0
      <4>1. k - 1 \in 0..n /\ k - 1 \in 0..(n + 1)
        BY <3>2
      <4>2. g[k - 1] = h[k - 1]
        BY <2>1, <4>1
      <4>3. h[k] = [v \in Nested[k] |-> Said(v, g[k - 1])] /\ H[k] = [v \in Nested[k] |-> Said(v, h[k - 1])]
        OBVIOUS
      <4> QED BY <4>2, <4>3
    <3> QED BY <3>1, <3>2
  <2>3. h = H
    BY <2>2
  <2>4. Filled(h, n + 1)
    BY <2>3
  <2>5. n + 1 \in 0..MaxDepth
    BY GateAssumption
  <2> HIDE DEF h, Filled
  <2> QED BY <2>4, <2>5
<1>3. MaxDepth \in T
  <2> HIDE DEF T
  <2>1. 0..MaxDepth \subseteq T
    BY <1>0, <1>1, <1>2, InductionUpTo
  <2> QED BY <1>0, <2>1
<1> DEFINE c == CHOOSE g : Filled(g, MaxDepth)
<1>4. Filled(c, MaxDepth)
  <2>1. \E g : Filled(g, MaxDepth)
    BY <1>3
  <2> HIDE DEF Filled
  <2> QED BY <2>1
<1>5. \A v \in Json : Meant(v) = c[MaxDepth][v]
  BY DEF Meant
<1> HIDE DEF c
<1>6. ASSUME NEW n \in 1..MaxDepth PROVE c[n] = [v \in Nested[n] |-> Said(v, c[n - 1])]
  <2>1. n \in 0..MaxDepth
    OBVIOUS
  <2> QED BY <1>4, <2>1
<1> QED BY <1>5, <1>6

-----------------------------------------------------------------------------
(* Numbers: one ends where something else than its characters follows. *)

LEMMA NumberMarks ==
  /\ NumberChar \subseteq Sym /\ Seq(NumberChar) \subseteq Txt
  /\ NumberChar \cap Closing = {} /\ NumberChar \cap Literal = {} /\ NumberChar \cap Structure = {}
<1>1. NumberChar \subseteq JsonChar
  BY DEF NumberChar, Digit
<1>2. Closing \subseteq Structure
  BY DEF Closing, Structure
<1>3. NumberChar \subseteq Sym
  BY <1>1 DEF Sym
<1>4. Seq(NumberChar) \subseteq Txt
  BY <1>3, SeqMonotonic DEF Txt
<1> QED BY <1>2, <1>3, <1>4, GateAssumption

LEMMA NumbersApart ==
  \A a, b \in Seq(NumberChar), x, y \in Ends : Glue(a, x) = Glue(b, y) => a = b /\ x = y
<1> DEFINE D == NumberChar
           T == {a \in Seq(D) : \A b \in Seq(D), x, y \in Ends : Glue(a, x) = Glue(b, y) => a = b /\ x = y}
<1>1. Ends \subseteq Txt /\ Seq(D) \subseteq Txt /\ D \subseteq Sym
  BY EndMarks, NumberMarks
<1>2. ASSUME NEW d, d \in D, NEW r, r \in Seq(D), NEW x, x \in Ends
      PROVE  /\ Glue(Cons(d, r), x) = Cons(d, Glue(r, x)) /\ Glue(r, x) \in Txt
             /\ Cons(d, Glue(r, x)) \notin Ends
  <2>1. r \in Txt /\ x \in Txt /\ d \in Sym
    BY <1>1, <1>2
  <2>2. Glue(r, x) \in Txt
    BY <2>1, Monoid
  <2>3. Glue(Cons(d, r), x) = Cons(d, Glue(r, x))
    BY <2>1, Fronts
  <2>4. Cons(d, Glue(r, x)) # <<>> /\ Cons(d, Glue(r, x))[1] = d
    BY <2>1, <2>2, Fronts
  <2>5. d \notin Closing
    BY <1>2, NumberMarks
  <2> QED BY <2>2, <2>3, <2>4, <2>5 DEF Ends
<1>3. \A x \in Ends : Glue(<<>>, x) = x
  BY <1>1, Monoid
<1>4. ASSUME NEW b, b \in Seq(D), b # <<>>
      PROVE  \E d \in D, r \in Seq(D) : b = Cons(d, r)
  <2> HIDE DEF D
  <2> QED BY <1>4, FirstApart
<1>5. <<>> \in T
  <2>1. ASSUME NEW b, b \in Seq(D), NEW x, x \in Ends, NEW y, y \in Ends, Glue(<<>>, x) = Glue(b, y)
        PROVE  <<>> = b /\ x = y
    <3>1. CASE b = <<>>
      BY <1>3, <2>1, <3>1
    <3>2. CASE b # <<>>
      <4>1. PICK d \in D, r \in Seq(D) : b = Cons(d, r)
        BY <1>4, <2>1, <3>2
      <4>2. x = Cons(d, Glue(r, y))
        BY <1>2, <1>3, <2>1, <4>1
      <4> QED BY <1>2, <2>1, <4>1, <4>2
    <3> QED BY <3>1, <3>2
  <2>2. <<>> \in Seq(D)
    OBVIOUS
  <2> QED BY <2>1, <2>2
<1>6. ASSUME NEW a, a \in Seq(D), a \in T, NEW c, c \in D PROVE Cons(c, a) \in T
  <2> DEFINE e == Cons(c, a)
  <2>1. e \in Seq(D)
    <3> HIDE DEF D
    <3> QED BY <1>6, Places
  <2>2. ASSUME NEW b, b \in Seq(D), NEW x, x \in Ends, NEW y, y \in Ends, Glue(e, x) = Glue(b, y)
        PROVE  e = b /\ x = y
    <3>1. Glue(e, x) = Cons(c, Glue(a, x)) /\ Glue(a, x) \in Txt /\ Cons(c, Glue(a, x)) \notin Ends
      BY <1>2, <1>6, <2>2
    <3>2. CASE b = <<>>
      BY <1>3, <2>2, <3>1, <3>2
    <3>3. CASE b # <<>>
      <4>1. PICK d \in D, r \in Seq(D) : b = Cons(d, r)
        BY <1>4, <2>2, <3>3
      <4>2. Glue(b, y) = Cons(d, Glue(r, y)) /\ Glue(r, y) \in Txt
        BY <1>2, <2>2, <4>1
      <4>3. c \in Sym /\ d \in Sym
        BY <1>1, <1>6, <4>1
      <4>4. c = d /\ Glue(a, x) = Glue(r, y)
        <5> DEFINE P == Glue(a, x)
                   Q == Glue(r, y)
        <5>1. Cons(c, P) = Cons(d, Q) /\ P \in Txt /\ Q \in Txt
          BY <2>2, <3>1, <4>2
        <5> HIDE DEF P, Q, e, T
        <5>2. c = d /\ P = Q
          BY <4>3, <5>1, Fronts
        <5> QED BY <5>2 DEF P, Q
      <4>5. a = r /\ x = y
        BY <1>6, <2>2, <4>1, <4>4
      <4> QED BY <4>1, <4>4, <4>5
    <3> QED BY <3>2, <3>3
  <2> HIDE DEF e
  <2>3. e \in T
    BY <2>1, <2>2
  <2> QED BY <2>3 DEF e
<1> HIDE DEF T, D
<1>7. Seq(D) \subseteq T
  BY <1>5, <1>6, FrontInduction
<1> QED BY <1>7 DEF T, D

-----------------------------------------------------------------------------
(* Arrays and objects of values whose texts are told apart. *)

\* f gives the texts of the values of V, g what they say.
Unambiguous(V, f, g) ==
  /\ \A v \in V : f[v] \in Txt /\ f[v] # <<>> /\ f[v][1] \notin Closing
  /\ \A v, w \in V : \A x, y \in Ends : Glue(f[v], x) = Glue(f[w], y) => g[v] = g[w] /\ x = y
  /\ \A v, w \in V : g[v] = g[w] => f[v] = f[w]

LEMMA UnambiguousParts ==
  ASSUME NEW V, NEW f, NEW g, Unambiguous(V, f, g)
  PROVE  /\ \A v \in V : f[v] \in Txt /\ f[v] # <<>> /\ f[v][1] \notin Closing
         /\ \A v, w \in V : f[v] = f[w] <=> g[v] = g[w]
         /\ \A v, w \in V : \A x, y \in Ends : Glue(f[v], x) = Glue(f[w], y) => f[v] = f[w] /\ x = y
<1>1. \A v \in V : f[v] \in Txt /\ f[v] # <<>> /\ f[v][1] \notin Closing
  BY DEF Unambiguous
<1>2. \A v, w \in V : \A x, y \in Ends : Glue(f[v], x) = Glue(f[w], y) => g[v] = g[w] /\ x = y
  BY DEF Unambiguous
<1>3. \A v, w \in V : g[v] = g[w] => f[v] = f[w]
  BY DEF Unambiguous
<1>4. <<>> \in Ends
  BY EndMarks
<1>5. \A v, w \in V : f[v] = f[w] <=> g[v] = g[w]
  BY <1>2, <1>3, <1>4
<1>6. \A v, w \in V : \A x, y \in Ends : Glue(f[v], x) = Glue(f[w], y) => f[v] = f[w] /\ x = y
  BY <1>2, <1>3
<1> QED BY <1>1, <1>5, <1>6

LEMMA ValuesItems ==
  ASSUME NEW V, NEW f, NEW g, Unambiguous(V, f, g)
  PROVE  Items({f[v] : v \in V})
<1>1. \A v \in V : f[v] \in Txt /\ f[v] # <<>> /\ f[v][1] \notin Closing
  BY UnambiguousParts
<1>2. \A v, w \in V : \A x, y \in Ends : Glue(f[v], x) = Glue(f[w], y) => f[v] = f[w] /\ x = y
  BY UnambiguousParts
<1> QED BY <1>1, <1>2 DEF Items

Surrounded(o, b, c) == <<o>> \o b \o <<c>>

LEMMA SurroundedForm ==
  ASSUME NEW o \in Sym, NEW b, b \in Txt, NEW c \in Sym
  PROVE  /\ Surrounded(o, b, c) \in Txt /\ Surrounded(o, b, c) # <<>> /\ Surrounded(o, b, c)[1] = o
         /\ \A x \in Txt : Glue(Surrounded(o, b, c), x) = Cons(o, Glue(b, Cons(c, x)))
<1> DEFINE p == <<o>>
           q == <<c>>
           d == Cons(o, b)
<1>1. p \in Txt /\ q \in Txt /\ Glue(p, b) = d
  BY Fronts
<1>2. Surrounded(o, b, c) = Glue(Glue(p, b), q)
  BY DEF Surrounded, Glue
<1>3. d \in Txt /\ d # <<>> /\ d[1] = o
  BY Fronts
<1> DEFINE s == Surrounded(o, b, c)
<1>4. s = Glue(d, q)
  BY <1>1, <1>2
<1>5. ASSUME NEW x \in Txt PROVE Glue(Glue(d, q), x) = Cons(o, Glue(b, Cons(c, x)))
  <2>1. Glue(q, x) = Cons(c, x) /\ Cons(c, x) \in Txt
    BY Fronts
  <2>2. Glue(Glue(d, q), x) = Glue(d, Glue(q, x))
    <3> HIDE DEF d, q
    <3> QED BY <1>1, <1>3, Monoid
  <2>3. Glue(d, Cons(c, x)) = Cons(o, Glue(b, Cons(c, x)))
    BY <2>1, Fronts
  <2> QED BY <2>1, <2>2, <2>3
<1> HIDE DEF d, q, s
<1>6. s \in Txt
  BY <1>1, <1>3, <1>4, Monoid
<1>7. s # <<>> /\ s[1] = o
  BY <1>1, <1>3, <1>4, Fronts
<1> QED BY <1>4, <1>5, <1>6, <1>7 DEF s

Each(f, s) == [i \in DOMAIN s |-> f[s[i]]]

LEMMA EachTable ==
  ASSUME NEW V, NEW s, s \in Seq(V)
  PROVE  /\ Len(s) \in Nat /\ \A i \in 1..Len(s) : s[i] \in V
         /\ \A f : Each(f, s) = [i \in 1..Len(s) |-> f[s[i]]]
<1>1. Len(s) \in Nat /\ DOMAIN s = 1..Len(s) /\ \A i \in 1..Len(s) : s[i] \in V
  OBVIOUS
<1> QED BY <1>1 DEF Each

LEMMA EachForm ==
  ASSUME NEW V, NEW f, NEW s, s \in Seq(V)
  PROVE  Each(f, s) \in Seq({f[v] : v \in V})
<1> DEFINE N == Len(s)
<1>1. N \in Nat /\ (\A i \in 1..N : s[i] \in V) /\ Each(f, s) = [i \in 1..N |-> f[s[i]]]
  BY EachTable
<1> HIDE DEF N
<1>2. \A i \in 1..N : f[s[i]] \in {f[v] : v \in V}
  BY <1>1
<1> QED BY <1>1, <1>2

LEMMA EachAlike ==
  ASSUME NEW V, NEW f, NEW g, \A v, w \in V : f[v] = f[w] => g[v] = g[w],
         NEW s, s \in Seq(V), NEW t, t \in Seq(V), Each(f, s) = Each(f, t)
  PROVE  Each(g, s) = Each(g, t)
<1> DEFINE M == Len(s)
           N == Len(t)
<1>1. /\ \A i \in 1..M : s[i] \in V
      /\ Each(f, s) = [i \in 1..M |-> f[s[i]]] /\ Each(g, s) = [i \in 1..M |-> g[s[i]]]
  BY EachTable
<1>2. /\ \A i \in 1..N : t[i] \in V
      /\ Each(f, t) = [i \in 1..N |-> f[t[i]]] /\ Each(g, t) = [i \in 1..N |-> g[t[i]]]
  BY EachTable
<1> HIDE DEF M, N
<1>3. [i \in 1..M |-> f[s[i]]] = [i \in 1..N |-> f[t[i]]]
  BY <1>1, <1>2
<1>4. 1..M = 1..N /\ \A i \in 1..M : f[s[i]] = f[t[i]]
  BY <1>3
<1>5. \A i \in 1..M : g[s[i]] = g[t[i]]
  BY <1>1, <1>2, <1>4
<1>6. [i \in 1..M |-> g[s[i]]] = [i \in 1..N |-> g[t[i]]]
  BY <1>4, <1>5
<1> QED BY <1>1, <1>2, <1>6

\* The text of an array.
OpenList == "["
CloseList == "]"
ListText(f, s) == Surrounded(OpenList, Separated(Each(f, s)), CloseList)

LEMMA ListsApart ==
  ASSUME NEW V, NEW f, NEW g, Unambiguous(V, f, g), NEW s, s \in Seq(V)
  PROVE  /\ ListText(f, s) \in Txt /\ ListText(f, s) # <<>> /\ ListText(f, s)[1] = OpenList
         /\ \A t \in Seq(V), x, y \in Ends :
              Glue(ListText(f, s), x) = Glue(ListText(f, t), y) => Each(g, s) = Each(g, t) /\ x = y
         /\ \A t \in Seq(V) : Each(g, s) = Each(g, t) => ListText(f, s) = ListText(f, t)
<1> DEFINE I == {f[v] : v \in V}
<1>1. Items(I) /\ I \subseteq Txt
  BY ValuesItems, UnambiguousParts
<1>2. OpenList \in Sym /\ CloseList \in Sym /\ CloseList \in Closing /\ CloseList # Comma
  BY EndSymbols, EndMarks DEF OpenList, CloseList
<1>3. ASSUME NEW t, t \in Seq(V)
      PROVE  /\ Each(f, t) \in Seq(I)
             /\ Separated(Each(f, t)) \in Txt
             /\ ListText(f, t) \in Txt /\ ListText(f, t) # <<>> /\ ListText(f, t)[1] = OpenList
             /\ \A x \in Txt : /\ Glue(ListText(f, t), x) = Cons(OpenList, Glue(Separated(Each(f, t)), Cons(CloseList, x)))
                               /\ Glue(Separated(Each(f, t)), Cons(CloseList, x)) \in Txt
  <2>1. Each(f, t) \in Seq(I)
    BY <1>3, EachForm
  <2> HIDE DEF I
  <2>2. Separated(Each(f, t)) \in Txt
    BY <1>1, <2>1, SeparatedForm
  <2>3. /\ ListText(f, t) \in Txt /\ ListText(f, t) # <<>> /\ ListText(f, t)[1] = OpenList
        /\ \A x \in Txt : Glue(ListText(f, t), x) = Cons(OpenList, Glue(Separated(Each(f, t)), Cons(CloseList, x)))
    BY <1>2, <2>2, SurroundedForm DEF ListText
  <2>4. \A x \in Txt : Glue(Separated(Each(f, t)), Cons(CloseList, x)) \in Txt
    <3> SUFFICES ASSUME NEW x \in Txt PROVE Glue(Separated(Each(f, t)), Cons(CloseList, x)) \in Txt
      OBVIOUS
    <3>1. Cons(CloseList, x) \in Txt
      BY <1>2, Fronts
    <3> QED BY <2>2, <3>1, Monoid
  <2> QED BY <2>1, <2>2, <2>3, <2>4
<1>4. ASSUME NEW t, t \in Seq(V), NEW x, x \in Ends, NEW y, y \in Ends,
             Glue(ListText(f, s), x) = Glue(ListText(f, t), y)
      PROVE  Each(g, s) = Each(g, t) /\ x = y
  <2> DEFINE A == Each(f, s)
             B == Each(f, t)
             P == Glue(Separated(A), Cons(CloseList, x))
             Q == Glue(Separated(B), Cons(CloseList, y))
  <2>1. x \in Txt /\ y \in Txt
    BY <1>4, EndMarks
  <2>2. A \in Seq(I) /\ B \in Seq(I)
    BY <1>3, <1>4
  <2>3. Cons(OpenList, P) = Cons(OpenList, Q) /\ P \in Txt /\ Q \in Txt
    <3>1. Glue(ListText(f, s), x) = Cons(OpenList, P) /\ P \in Txt
      BY <1>3, <2>1
    <3>2. Glue(ListText(f, t), y) = Cons(OpenList, Q) /\ Q \in Txt
      BY <1>3, <1>4, <2>1
    <3> QED BY <1>4, <3>1, <3>2
  <2> HIDE DEF I
  <2>4. P = Q
    <3> HIDE DEF P, Q
    <3> QED BY <1>2, <2>3, Fronts
  <2> HIDE DEF A, B
  <2>5. A = B /\ x = y
    BY <1>1, <1>2, <1>4, <2>2, <2>4, SeparatedApart
  <2>6. \A v, w \in V : f[v] = f[w] => g[v] = g[w]
    BY UnambiguousParts
  <2>7. Each(f, s) = Each(f, t)
    BY <2>5 DEF A, B
  <2>8. Each(g, s) = Each(g, t)
    BY <1>4, <2>6, <2>7, EachAlike
  <2> QED BY <2>5, <2>8
<1>5. ASSUME NEW t, t \in Seq(V), Each(g, s) = Each(g, t) PROVE ListText(f, s) = ListText(f, t)
  <2>1. \A v, w \in V : g[v] = g[w] => f[v] = f[w]
    BY UnambiguousParts
  <2>2. Each(f, s) = Each(f, t)
    BY <1>5, <2>1, EachAlike
  <2> QED BY <2>2 DEF ListText
<1> QED BY <1>3, <1>4, <1>5

\* A member of an object.
Colon == ":"
Entry(k, t) == Quoted(k) \o <<Colon>> \o t
Entries(V, f) == {Entry(e[1], f[e[2]]) : e \in Seq(JsonChar) \X V}

LEMMA EntryForm ==
  ASSUME NEW k, k \in Seq(JsonChar), NEW t, t \in Txt
  PROVE  /\ Entry(k, t) \in Txt /\ Entry(k, t) # <<>> /\ Entry(k, t)[1] = Quote
         /\ \A x \in Txt : /\ Glue(Entry(k, t), x) = Glue(Quoted(k), Cons(Colon, Glue(t, x)))
                           /\ Cons(Colon, Glue(t, x)) \in Txt /\ Glue(t, x) \in Txt
<1> DEFINE q == Quoted(k)
           c == <<Colon>>
           e == Entry(k, t)
           r == Cons(Colon, t)
<1>1. q \in Txt /\ q # <<>> /\ q[1] = Quote
  BY QuotedForm
<1>2. Colon \in Sym
  BY EndSymbols DEF Colon
<1>3. c \in Txt /\ Glue(c, t) = r /\ r \in Txt
  BY <1>2, Fronts
<1>4. e = Glue(Glue(q, c), t)
  BY DEF Entry, Glue
<1> HIDE DEF q, c, e
<1>5. e = Glue(q, r)
  BY <1>1, <1>3, <1>4, Monoid
<1>6. ASSUME NEW x \in Txt
      PROVE  Glue(Glue(q, r), x) = Glue(q, Cons(Colon, Glue(t, x))) /\ Cons(Colon, Glue(t, x)) \in Txt /\ Glue(t, x) \in Txt
  <2>1. Glue(r, x) = Cons(Colon, Glue(t, x))
    BY <1>2, Fronts
  <2>2. Glue(t, x) \in Txt
    BY Monoid
  <2>3. Cons(Colon, Glue(t, x)) \in Txt
    BY <1>2, <2>2, Fronts
  <2>4. Glue(Glue(q, r), x) = Glue(q, Glue(r, x))
    <3> HIDE DEF r
    <3> QED BY <1>1, <1>3, Monoid
  <2> QED BY <2>1, <2>2, <2>3, <2>4
<1> HIDE DEF r
<1>7. e \in Txt
  BY <1>1, <1>3, <1>5, Monoid
<1>8. e # <<>> /\ e[1] = Quote
  BY <1>1, <1>3, <1>5, Fronts
<1> QED BY <1>5, <1>6, <1>7, <1>8 DEF q, e

LEMMA EntryApart ==
  ASSUME NEW V, NEW f, NEW g, Unambiguous(V, f, g),
         NEW k, k \in Seq(JsonChar), NEW l, l \in Seq(JsonChar), NEW v, v \in V, NEW w, w \in V,
         NEW x, x \in Ends, NEW y, y \in Ends, Glue(Entry(k, f[v]), x) = Glue(Entry(l, f[w]), y)
  PROVE  k = l /\ f[v] = f[w] /\ x = y
<1> DEFINE s == f[v]
           t == f[w]
           P == Glue(s, x)
           Q == Glue(t, y)
<1>1. s \in Txt /\ t \in Txt /\ x \in Txt /\ y \in Txt
  BY UnambiguousParts, EndMarks
<1>2. P = Q => f[v] = f[w] /\ x = y
  BY UnambiguousParts
<1> HIDE DEF s, t
<1>3. /\ Glue(Entry(k, s), x) = Glue(Quoted(k), Cons(Colon, P))
      /\ Cons(Colon, P) \in Txt /\ P \in Txt
  BY <1>1, EntryForm
<1>4. /\ Glue(Entry(l, t), y) = Glue(Quoted(l), Cons(Colon, Q))
      /\ Cons(Colon, Q) \in Txt /\ Q \in Txt
  BY <1>1, EntryForm
<1> HIDE DEF P, Q
<1>5. Glue(Quoted(k), Cons(Colon, P)) = Glue(Quoted(l), Cons(Colon, Q))
  BY <1>3, <1>4 DEF s, t
<1>6. k = l /\ Cons(Colon, P) = Cons(Colon, Q)
  <2> DEFINE a == Cons(Colon, P)
             b == Cons(Colon, Q)
  <2>1. a \in Txt /\ b \in Txt /\ Glue(Quoted(k), a) = Glue(Quoted(l), b)
    BY <1>3, <1>4, <1>5
  <2> HIDE DEF a, b
  <2>2. k = l /\ a = b
    BY <2>1, QuotedApart
  <2> QED BY <2>2 DEF a, b
<1>7. Colon \in Sym
  BY EndSymbols DEF Colon
<1>8. P = Q
  BY <1>3, <1>4, <1>6, <1>7, Fronts
<1> QED BY <1>2, <1>6, <1>8

LEMMA EntriesItems ==
  ASSUME NEW V, NEW f, NEW g, Unambiguous(V, f, g)
  PROVE  Items(Entries(V, f))
<1>1. ASSUME NEW a, a \in Entries(V, f)
      PROVE  /\ a \in Txt /\ a # <<>> /\ a[1] \notin Closing
             /\ \E k \in Seq(JsonChar), v \in V : a = Entry(k, f[v])
  <2>1. PICK e \in Seq(JsonChar) \X V : a = Entry(e[1], f[e[2]])
    BY <1>1 DEF Entries
  <2> DEFINE k == e[1]
             v == e[2]
  <2>2. k \in Seq(JsonChar) /\ v \in V /\ a = Entry(k, f[v])
    BY <2>1
  <2> HIDE DEF k, v
  <2>3. f[v] \in Txt
    BY <2>2, UnambiguousParts
  <2>4. a \in Txt /\ a # <<>> /\ a[1] = Quote
    BY <2>2, <2>3, EntryForm
  <2>5. Quote \notin Closing
    BY Marks
  <2> QED BY <2>2, <2>4, <2>5
<1>2. ASSUME NEW a, a \in Entries(V, f), NEW b, b \in Entries(V, f), NEW x, x \in Ends, NEW y, y \in Ends,
             Glue(a, x) = Glue(b, y)
      PROVE  a = b /\ x = y
  <2>1. PICK k, v : k \in Seq(JsonChar) /\ v \in V /\ a = Entry(k, f[v])
    BY <1>1, <1>2
  <2>2. PICK l, w : l \in Seq(JsonChar) /\ w \in V /\ b = Entry(l, f[w])
    BY <1>1, <1>2
  <2>3. k = l /\ f[v] = f[w] /\ x = y
    BY <1>2, <2>1, <2>2, EntryApart
  <2> QED BY <2>1, <2>2, <2>3
<1> QED BY <1>1, <1>2 DEF Items

\* The value of a key is the one beside it.
LEMMA ValueOfKey ==
  ASSUME NEW V, NEW ms, ms \in Members(V)
  PROVE  /\ \A k \in KeysOf(ms) : k \in Seq(JsonChar) /\ At(ms, k) \in V /\ <<k, At(ms, k)>> \in Range(ms)
         /\ \A m \in Range(ms) : m[1] \in KeysOf(ms) /\ m = <<m[1], m[2]>> /\ m[2] = At(ms, m[1])
<1> DEFINE N == Len(ms)
<1>1. /\ ms \in Seq(Seq(JsonChar) \X V)
      /\ \A i, j \in DOMAIN ms : ms[i][1] = ms[j][1] => i = j
  BY DEF Members
<1>2. N \in Nat /\ DOMAIN ms = 1..N /\ \A i \in 1..N : ms[i] \in Seq(JsonChar) \X V
  BY <1>1
<1> HIDE DEF N
<1>3. Range(ms) = {ms[i] : i \in 1..N}
  BY <1>2 DEF Range
<1>4. \A i \in 1..N : ms[i][1] \in Seq(JsonChar) /\ ms[i][2] \in V /\ ms[i] = <<ms[i][1], ms[i][2]>>
  BY <1>2
<1>5. ASSUME NEW i \in 1..N PROVE At(ms, ms[i][1]) = ms[i][2]
  <2> DEFINE k == ms[i][1]
             c == CHOOSE j \in DOMAIN ms : ms[j][1] = k
  <2>1. c \in DOMAIN ms /\ ms[c][1] = k
    BY <1>2
  <2>2. c = i
    <3> HIDE DEF c
    <3> QED BY <1>1, <1>2, <2>1
  <2> QED BY <2>2 DEF At
<1>6. KeysOf(ms) = {ms[i][1] : i \in 1..N}
  BY <1>3 DEF KeysOf
<1>7. ASSUME NEW k, k \in KeysOf(ms)
      PROVE  k \in Seq(JsonChar) /\ At(ms, k) \in V /\ <<k, At(ms, k)>> \in Range(ms)
  <2>1. PICK i \in 1..N : k = ms[i][1]
    BY <1>6, <1>7
  <2>2. At(ms, k) = ms[i][2]
    BY <1>5, <2>1
  <2> QED BY <1>3, <1>4, <2>1, <2>2
<1>8. ASSUME NEW m, m \in Range(ms)
      PROVE  m[1] \in KeysOf(ms) /\ m = <<m[1], m[2]>> /\ m[2] = At(ms, m[1])
  <2>1. PICK i \in 1..N : m = ms[i]
    BY <1>3, <1>8
  <2> QED BY <1>4, <1>5, <1>6, <2>1
<1> QED BY <1>7, <1>8

\* Two objects with the same keys, and values that f makes the same.
SameMembers(f, ms, ns) ==
  KeysOf(ms) = KeysOf(ns) /\ \A k \in KeysOf(ms) : f[At(ms, k)] = f[At(ns, k)]

MembersSaid(g, ms) == {<<m[1], g[m[2]]>> : m \in Range(ms)}
EntryList(f, ms) == [p \in DOMAIN ByKey(ms) |-> Entry(ByKey(ms)[p], f[At(ms, ByKey(ms)[p])])]

LEMMA MembersSaidSame ==
  ASSUME NEW V, NEW g, NEW ms, ms \in Members(V), NEW ns, ns \in Members(V)
  PROVE  MembersSaid(g, ms) = MembersSaid(g, ns) <=> SameMembers(g, ms, ns)
<1>1. ASSUME NEW l, l \in Members(V) PROVE MembersSaid(g, l) = {<<k, g[At(l, k)]>> : k \in KeysOf(l)}
  <2> DEFINE R == Range(l)
             K == KeysOf(l)
  <2>1. \A k \in K : <<k, At(l, k)>> \in R
    BY <1>1, ValueOfKey
  <2>2. \A m \in R : m[1] \in K /\ m[2] = At(l, m[1])
    BY <1>1, ValueOfKey
  <2>3. MembersSaid(g, l) = {<<m[1], g[m[2]]>> : m \in R}
    BY DEF MembersSaid
  <2> HIDE DEF R, K
  <2>4. ASSUME NEW m \in R PROVE <<m[1], g[m[2]]>> \in {<<k, g[At(l, k)]>> : k \in K}
    BY <2>2
  <2>5. ASSUME NEW k \in K PROVE <<k, g[At(l, k)]>> \in {<<m[1], g[m[2]]>> : m \in R}
    <3> DEFINE m == <<k, At(l, k)>>
    <3>1. m \in R /\ m[1] = k /\ m[2] = At(l, k)
      BY <2>1
    <3> HIDE DEF m
    <3> QED BY <3>1
  <2> QED BY <2>3, <2>4, <2>5 DEF K
<1> DEFINE K == KeysOf(ms)
           L == KeysOf(ns)
           a == [k \in K |-> g[At(ms, k)]]
           b == [k \in L |-> g[At(ns, k)]]
           A == {<<k, a[k]>> : k \in K}
           B == {<<k, b[k]>> : k \in L}
<1>2. MembersSaid(g, ms) = A /\ MembersSaid(g, ns) = B
  BY <1>1
<1>3. SameMembers(g, ms, ns) <=> K = L /\ \A k \in K : a[k] = b[k]
  BY DEF SameMembers
<1> HIDE DEF K, L, a, b
<1>4. A = B => K = L /\ \A k \in K : a[k] = b[k]
  <2> SUFFICES ASSUME A = B PROVE K = L /\ \A k \in K : a[k] = b[k]
    OBVIOUS
  <2>1. ASSUME NEW k \in K PROVE k \in L /\ a[k] = b[k]
    <3>1. <<k, a[k]>> \in B
      OBVIOUS
    <3> QED BY <3>1
  <2>2. ASSUME NEW k \in L PROVE k \in K
    <3>1. <<k, b[k]>> \in A
      OBVIOUS
    <3> QED BY <3>1
  <2> QED BY <2>1, <2>2
<1>5. K = L /\ (\A k \in K : a[k] = b[k]) => A = B
  OBVIOUS
<1> QED BY <1>2, <1>3, <1>4, <1>5

LEMMA EntryPlaces ==
  ASSUME NEW V, NEW ms, ms \in Members(V)
  PROVE  /\ Cardinality(KeysOf(ms)) \in Nat
         /\ \A p \in 1..Cardinality(KeysOf(ms)) :
              /\ ByKey(ms)[p] \in KeysOf(ms) /\ ByKey(ms)[p] \in Seq(JsonChar) /\ At(ms, ByKey(ms)[p]) \in V
         /\ \A k \in KeysOf(ms) : \E p \in 1..Cardinality(KeysOf(ms)) : ByKey(ms)[p] = k
         /\ \A f : EntryList(f, ms) = [p \in 1..Cardinality(KeysOf(ms)) |-> Entry(ByKey(ms)[p], f[At(ms, ByKey(ms)[p])])]
<1> DEFINE K == KeysOf(ms)
           N == Cardinality(K)
<1>1. /\ N \in Nat
      /\ \A p \in 1..N : ByKey(ms)[p] \in K
      /\ \A k \in K : \E p \in 1..N : ByKey(ms)[p] = k
  BY KeysSorted
<1>2. DOMAIN ByKey(ms) = 1..N
  BY DEF ByKey
<1>3. \A k \in K : k \in Seq(JsonChar) /\ At(ms, k) \in V
  BY ValueOfKey
<1> HIDE DEF K, N
<1>4. \A f : EntryList(f, ms) = [p \in 1..N |-> Entry(ByKey(ms)[p], f[At(ms, ByKey(ms)[p])])]
  BY <1>2 DEF EntryList
<1>5. \A p \in 1..N : ByKey(ms)[p] \in K /\ ByKey(ms)[p] \in Seq(JsonChar) /\ At(ms, ByKey(ms)[p]) \in V
  BY <1>1, <1>3
<1> QED BY <1>1, <1>4, <1>5 DEF K, N

LEMMA EntryListForm ==
  ASSUME NEW V, NEW f, NEW ms, ms \in Members(V)
  PROVE  EntryList(f, ms) \in Seq(Entries(V, f))
<1> DEFINE N == Cardinality(KeysOf(ms))
           k == ByKey(ms)
<1>1. N \in Nat /\ \A p \in 1..N : k[p] \in Seq(JsonChar) /\ At(ms, k[p]) \in V
  BY EntryPlaces
<1>2. EntryList(f, ms) = [p \in 1..N |-> Entry(k[p], f[At(ms, k[p])])]
  BY EntryPlaces
<1> HIDE DEF N, k
<1>3. ASSUME NEW p \in 1..N PROVE Entry(k[p], f[At(ms, k[p])]) \in Entries(V, f)
  <2> DEFINE c == k[p]
             e == <<c, At(ms, c)>>
  <2>1. e \in Seq(JsonChar) \X V /\ e[1] = c /\ e[2] = At(ms, c)
    BY <1>1
  <2> HIDE DEF c, e
  <2>2. Entry(e[1], f[e[2]]) \in Entries(V, f)
    BY <2>1 DEF Entries
  <2> QED BY <2>1, <2>2 DEF c
<1> QED BY <1>1, <1>2, <1>3

LEMMA EntryListSame ==
  ASSUME NEW V, NEW f, NEW g, Unambiguous(V, f, g),
         NEW ms, ms \in Members(V), NEW ns, ns \in Members(V)
  PROVE  EntryList(f, ms) = EntryList(f, ns) <=> SameMembers(f, ms, ns)
<1> DEFINE K == KeysOf(ms)
           L == KeysOf(ns)
           M == Cardinality(K)
           N == Cardinality(L)
           k == ByKey(ms)
           l == ByKey(ns)
           A == EntryList(f, ms)
           B == EntryList(f, ns)
<1>1. /\ A = [p \in 1..M |-> Entry(k[p], f[At(ms, k[p])])]
      /\ M \in Nat
      /\ \A p \in 1..M : k[p] \in K /\ k[p] \in Seq(JsonChar) /\ At(ms, k[p]) \in V
      /\ \A c \in K : \E p \in 1..M : k[p] = c
  BY EntryPlaces
<1>2. /\ B = [p \in 1..N |-> Entry(l[p], f[At(ns, l[p])])]
      /\ N \in Nat
      /\ \A p \in 1..N : l[p] \in L /\ l[p] \in Seq(JsonChar) /\ At(ns, l[p]) \in V
      /\ \A c \in L : \E p \in 1..N : l[p] = c
  BY EntryPlaces
<1>3. K = L => M = N /\ k = l
  BY KeysSorted
<1> HIDE DEF M, N, k, l, A, B
<1>4. ASSUME A = B PROVE SameMembers(f, ms, ns)
  <2>1. 1..M = 1..N
    BY <1>1, <1>2, <1>4
  <2>2. ASSUME NEW p \in 1..M PROVE k[p] = l[p] /\ f[At(ms, k[p])] = f[At(ns, l[p])]
    <3> DEFINE v == At(ms, k[p])
               w == At(ns, l[p])
               a == k[p]
               b == l[p]
               n == <<>>
    <3>1. Entry(a, f[v]) = Entry(b, f[w])
      BY <1>1, <1>2, <1>4, <2>1
    <3>2. a \in Seq(JsonChar) /\ b \in Seq(JsonChar) /\ v \in V /\ w \in V
      BY <1>1, <1>2, <2>1
    <3>3. n \in Ends
      BY EndMarks
    <3> HIDE DEF v, w, a, b, n
    <3>4. Glue(Entry(a, f[v]), n) = Glue(Entry(b, f[w]), n)
      BY <3>1
    <3>5. a = b /\ f[v] = f[w]
      BY <3>2, <3>3, <3>4, EntryApart
    <3> QED BY <3>5 DEF v, w, a, b
  <2> HIDE DEF K, L
  <2>3. K = L
    <3>1. ASSUME NEW c \in K PROVE c \in L
      BY <1>1, <1>2, <2>1, <2>2
    <3>2. ASSUME NEW c \in L PROVE c \in K
      BY <1>1, <1>2, <2>1, <2>2
    <3> QED BY <3>1, <3>2
  <2>4. \A c \in K : f[At(ms, c)] = f[At(ns, c)]
    BY <1>1, <2>2
  <2> QED BY <2>3, <2>4 DEF SameMembers, K, L
<1>5. ASSUME SameMembers(f, ms, ns) PROVE A = B
  <2>1. K = L /\ \A c \in K : f[At(ms, c)] = f[At(ns, c)]
    BY <1>5 DEF SameMembers
  <2> HIDE DEF K, L
  <2>2. \A p \in 1..M : Entry(k[p], f[At(ms, k[p])]) = Entry(k[p], f[At(ns, k[p])])
    BY <1>1, <2>1
  <2> QED BY <1>1, <1>2, <1>3, <2>1, <2>2
<1> QED BY <1>4, <1>5 DEF A, B

\* The text of an object.
OpenObject == "{"
CloseObject == "}"
ObjectText(f, ms) == Surrounded(OpenObject, Separated(EntryList(f, ms)), CloseObject)

LEMMA ObjectsApart ==
  ASSUME NEW V, NEW f, NEW g, Unambiguous(V, f, g), NEW ms, ms \in Members(V)
  PROVE  /\ ObjectText(f, ms) \in Txt /\ ObjectText(f, ms) # <<>> /\ ObjectText(f, ms)[1] = OpenObject
         /\ \A ns \in Members(V), x, y \in Ends :
              Glue(ObjectText(f, ms), x) = Glue(ObjectText(f, ns), y) =>
                MembersSaid(g, ms) = MembersSaid(g, ns) /\ x = y
         /\ \A ns \in Members(V) :
              MembersSaid(g, ms) = MembersSaid(g, ns) => ObjectText(f, ms) = ObjectText(f, ns)
<1> DEFINE I == Entries(V, f)
<1>1. Items(I) /\ I \subseteq Txt
  BY EntriesItems DEF Items
<1>2. OpenObject \in Sym /\ CloseObject \in Sym /\ CloseObject \in Closing /\ CloseObject # Comma
  BY EndSymbols, EndMarks DEF OpenObject, CloseObject
<1> HIDE DEF I
<1>3. ASSUME NEW l, l \in Members(V)
      PROVE  /\ EntryList(f, l) \in Seq(I)
             /\ ObjectText(f, l) \in Txt /\ ObjectText(f, l) # <<>> /\ ObjectText(f, l)[1] = OpenObject
             /\ \A x \in Txt : /\ Glue(ObjectText(f, l), x) = Cons(OpenObject, Glue(Separated(EntryList(f, l)), Cons(CloseObject, x)))
                               /\ Glue(Separated(EntryList(f, l)), Cons(CloseObject, x)) \in Txt
  <2>1. EntryList(f, l) \in Seq(I)
    BY <1>3, EntryListForm DEF I
  <2>2. Separated(EntryList(f, l)) \in Txt
    BY <1>1, <2>1, SeparatedForm
  <2>3. /\ ObjectText(f, l) \in Txt /\ ObjectText(f, l) # <<>> /\ ObjectText(f, l)[1] = OpenObject
        /\ \A x \in Txt : Glue(ObjectText(f, l), x) = Cons(OpenObject, Glue(Separated(EntryList(f, l)), Cons(CloseObject, x)))
    BY <1>2, <2>2, SurroundedForm DEF ObjectText
  <2>4. \A x \in Txt : Glue(Separated(EntryList(f, l)), Cons(CloseObject, x)) \in Txt
    <3> SUFFICES ASSUME NEW x \in Txt PROVE Glue(Separated(EntryList(f, l)), Cons(CloseObject, x)) \in Txt
      OBVIOUS
    <3>1. Cons(CloseObject, x) \in Txt
      BY <1>2, Fronts
    <3> QED BY <2>2, <3>1, Monoid
  <2> QED BY <2>1, <2>2, <2>3, <2>4
<1>a. ASSUME NEW ns, ns \in Members(V)
      PROVE  EntryList(f, ms) = EntryList(f, ns) <=> MembersSaid(g, ms) = MembersSaid(g, ns)
  <2>1. \A v, w \in V : f[v] = f[w] <=> g[v] = g[w]
    BY UnambiguousParts
  <2>2. SameMembers(f, ms, ns) <=> SameMembers(g, ms, ns)
    <3>1. KeysOf(ms) = KeysOf(ns) => \A k \in KeysOf(ms) : At(ms, k) \in V /\ At(ns, k) \in V
      BY <1>a, ValueOfKey
    <3> QED BY <2>1, <3>1 DEF SameMembers
  <2>3. EntryList(f, ms) = EntryList(f, ns) <=> SameMembers(f, ms, ns)
    BY <1>a, EntryListSame
  <2>4. MembersSaid(g, ms) = MembersSaid(g, ns) <=> SameMembers(g, ms, ns)
    BY <1>a, MembersSaidSame
  <2> QED BY <2>2, <2>3, <2>4
<1>4. ASSUME NEW ns, ns \in Members(V), NEW x, x \in Ends, NEW y, y \in Ends,
             Glue(ObjectText(f, ms), x) = Glue(ObjectText(f, ns), y)
      PROVE  MembersSaid(g, ms) = MembersSaid(g, ns) /\ x = y
  <2> DEFINE A == EntryList(f, ms)
             B == EntryList(f, ns)
             P == Glue(Separated(A), Cons(CloseObject, x))
             Q == Glue(Separated(B), Cons(CloseObject, y))
  <2>1. x \in Txt /\ y \in Txt
    BY <1>4, EndMarks
  <2>2. A \in Seq(I) /\ B \in Seq(I)
    BY <1>3, <1>4
  <2>3. Cons(OpenObject, P) = Cons(OpenObject, Q) /\ P \in Txt /\ Q \in Txt
    <3>1. Glue(ObjectText(f, ms), x) = Cons(OpenObject, P) /\ P \in Txt
      BY <1>3, <2>1
    <3>2. Glue(ObjectText(f, ns), y) = Cons(OpenObject, Q) /\ Q \in Txt
      BY <1>3, <1>4, <2>1
    <3> QED BY <1>4, <3>1, <3>2
  <2>4. P = Q
    <3> HIDE DEF P, Q
    <3> QED BY <1>2, <2>3, Fronts
  <2> HIDE DEF A, B
  <2>5. A = B /\ x = y
    BY <1>1, <1>2, <1>4, <2>2, <2>4, SeparatedApart
  <2> QED BY <1>4, <1>a, <2>5 DEF A, B
<1>5. ASSUME NEW ns, ns \in Members(V), MembersSaid(g, ms) = MembersSaid(g, ns)
      PROVE  ObjectText(f, ms) = ObjectText(f, ns)
  <2>1. EntryList(f, ms) = EntryList(f, ns)
    BY <1>5, <1>a
  <2> QED BY <2>1 DEF ObjectText
<1> QED BY <1>3, <1>4, <1>5

-----------------------------------------------------------------------------
(* From the values of one depth to those of the next. *)

LEMMA OverKinds ==
  ASSUME NEW V, NEW v, v \in Over(V)
  PROVE  /\ v[1] \in {"null", "bool", "num", "str", "arr", "obj"}
         /\ v[1] = "null" => v = <<"null">>
         /\ v[1] = "bool" => v = <<"bool", v[2]>> /\ v[2] \in {"true", "false"}
         /\ v[1] = "num" => v = <<"num", v[2]>> /\ v[2] \in Seq(NumberChar) /\ v[2] # <<>>
         /\ v[1] = "str" => v = <<"str", v[2]>> /\ v[2] \in Seq(JsonChar)
         /\ v[1] = "arr" => v = <<"arr", v[2]>> /\ v[2] \in Seq(V)
         /\ v[1] = "obj" => v = <<"obj", v[2]>> /\ v[2] \in Members(V)
<1> DEFINE A == Seq(V)
           O == Members(V)
           N == Seq(NumberChar) \ {<<>>}
           S == Seq(JsonChar)
<1>1. \/ v = <<"null">>
      \/ v \in {"bool"} \X {"true", "false"}
      \/ v \in {"num"} \X N
      \/ v \in {"str"} \X S
      \/ v \in {"arr"} \X A
      \/ v \in {"obj"} \X O
  BY DEF Over, Scalars
<1> HIDE DEF A, O, N, S
<1>2. CASE v = <<"null">>
  <2>1. v[1] = "null"
    BY <1>2
  <2> QED BY <1>2, <2>1
<1>3. CASE v \in {"bool"} \X {"true", "false"}
  <2>1. v[1] = "bool" /\ v = <<"bool", v[2]>> /\ v[2] \in {"true", "false"}
    BY <1>3
  <2> QED BY <2>1
<1>4. CASE v \in {"num"} \X N
  <2>1. v[1] = "num" /\ v = <<"num", v[2]>> /\ v[2] \in N
    BY <1>4
  <2> QED BY <2>1 DEF N
<1>5. CASE v \in {"str"} \X S
  <2>1. v[1] = "str" /\ v = <<"str", v[2]>> /\ v[2] \in S
    BY <1>5
  <2> QED BY <2>1 DEF S
<1>6. CASE v \in {"arr"} \X A
  <2>1. v[1] = "arr" /\ v = <<"arr", v[2]>> /\ v[2] \in A
    BY <1>6
  <2> QED BY <2>1 DEF A
<1>7. CASE v \in {"obj"} \X O
  <2>1. v[1] = "obj" /\ v = <<"obj", v[2]>> /\ v[2] \in O
    BY <1>7
  <2> QED BY <2>1 DEF O
<1> QED BY <1>1, <1>2, <1>3, <1>4, <1>5, <1>6, <1>7

LEMMA WrittenForms ==
  ASSUME NEW v, NEW f
  PROVE  /\ v[1] = "null" => Written(v, f) = <<"null">>
         /\ v[1] = "bool" => Written(v, f) = <<v[2]>>
         /\ v[1] = "num" => Written(v, f) = v[2]
         /\ v[1] = "str" => Written(v, f) = Quoted(v[2])
         /\ v[1] = "arr" => Written(v, f) = ListText(f, v[2])
         /\ v[1] = "obj" => Written(v, f) = ObjectText(f, v[2])
<1>1. v[1] = "null" => Written(v, f) = <<"null">>
  BY DEF Written
<1>2. v[1] = "bool" => Written(v, f) = <<v[2]>>
  BY DEF Written
<1>3. v[1] = "num" => Written(v, f) = v[2]
  BY DEF Written
<1>4. v[1] = "str" => Written(v, f) = Quoted(v[2])
  BY DEF Written
<1>5. v[1] = "arr" => Written(v, f) = ListText(f, v[2])
  BY DEF Written, ListText, Surrounded, Each, OpenList, CloseList
<1>6. v[1] = "obj" => Written(v, f) = ObjectText(f, v[2])
  BY DEF Written, ObjectText, Surrounded, EntryList, Entry, OpenObject, CloseObject, Colon
<1> QED BY <1>1, <1>2, <1>3, <1>4, <1>5, <1>6

LEMMA SaidForms ==
  ASSUME NEW v, NEW g
  PROVE  /\ v[1] = "arr" => Said(v, g) = <<"arr", Each(g, v[2])>>
         /\ v[1] = "obj" => Said(v, g) = <<"obj", MembersSaid(g, v[2])>>
         /\ v[1] \notin {"arr", "obj"} => Said(v, g) = v
         /\ Said(v, g)[1] = v[1]
<1>1. v[1] = "arr" => Said(v, g) = <<"arr", Each(g, v[2])>>
  BY DEF Said, Each
<1>2. v[1] = "obj" => Said(v, g) = <<"obj", MembersSaid(g, v[2])>>
  BY DEF Said, MembersSaid
<1>3. v[1] \notin {"arr", "obj"} => Said(v, g) = v
  BY DEF Said
<1> QED BY <1>1, <1>2, <1>3

\* The kind of a value, by the head of its text.
HeadKind(c) ==
  CASE c = "null" -> "null"
    [] c \in {"true", "false"} -> "bool"
    [] c = Quote -> "str"
    [] c = OpenList -> "arr"
    [] c = OpenObject -> "obj"
    [] OTHER -> "num"

LEMMA HeadKinds ==
  /\ HeadKind("null") = "null" /\ HeadKind("true") = "bool" /\ HeadKind("false") = "bool"
  /\ HeadKind(Quote) = "str" /\ HeadKind(OpenList) = "arr" /\ HeadKind(OpenObject) = "obj"
  /\ \A c \in NumberChar : HeadKind(c) = "num"
  /\ "null" \in Sym /\ "true" \in Sym /\ "false" \in Sym
  /\ {"null", "true", "false", Quote, OpenList, OpenObject} \cap Closing = {}
<1>1. /\ HeadKind("null") = "null" /\ HeadKind("true") = "bool" /\ HeadKind("false") = "bool"
      /\ HeadKind(Quote) = "str" /\ HeadKind(OpenList) = "arr" /\ HeadKind(OpenObject) = "obj"
  BY DEF HeadKind, Quote, OpenList, OpenObject
<1>2. {"null", "true", "false"} = Literal /\ {Quote, OpenList, OpenObject} \subseteq Structure
  BY DEF Literal, Structure, OpenList, OpenObject
<1>3. \A c \in NumberChar : HeadKind(c) = "num"
  <2> SUFFICES ASSUME NEW c \in NumberChar PROVE HeadKind(c) = "num"
    OBVIOUS
  <2>1. c \notin Literal /\ c \notin Structure
    BY NumberMarks
  <2>2. c # "null" /\ c \notin {"true", "false"} /\ c # Quote /\ c # OpenList /\ c # OpenObject
    BY <1>2, <2>1
  <2> QED BY <2>2 DEF HeadKind
<1>4. "null" \in Sym /\ "true" \in Sym /\ "false" \in Sym
  BY DEF Sym, Literal
<1>5. {"null", "true", "false", Quote, OpenList, OpenObject} \cap Closing = {}
  BY DEF Quote, OpenList, OpenObject, Closing
<1> QED BY <1>1, <1>3, <1>4, <1>5

LEMMA TextOfKind ==
  ASSUME NEW V, NEW f, NEW g, Unambiguous(V, f, g), NEW v, v \in Over(V)
  PROVE  /\ Written(v, f) \in Txt /\ Written(v, f) # <<>>
         /\ Written(v, f)[1] \notin Closing /\ HeadKind(Written(v, f)[1]) = v[1]
<1> DEFINE t == Written(v, f)
<1>1. CASE v[1] = "null"
  <2>1. t = <<"null">> /\ t[1] = "null"
    BY <1>1, WrittenForms
  <2>2. t \in Txt /\ t # <<>>
    BY <2>1, HeadKinds, Fronts
  <2> QED BY <1>1, <2>1, <2>2, HeadKinds
<1>2. CASE v[1] = "bool"
  <2>1. v[2] \in {"true", "false"}
    BY <1>2, OverKinds
  <2>2. t = <<v[2]>> /\ t[1] = v[2]
    BY <1>2, WrittenForms
  <2>3. v[2] \in Sym /\ HeadKind(v[2]) = "bool" /\ v[2] \notin Closing
    BY <2>1, HeadKinds
  <2>4. t \in Txt /\ t # <<>>
    BY <2>2, <2>3, Fronts
  <2> QED BY <1>2, <2>2, <2>3, <2>4
<1>3. CASE v[1] = "num"
  <2>1. v[2] \in Seq(NumberChar) /\ v[2] # <<>>
    BY <1>3, OverKinds
  <2>2. t = v[2]
    BY <1>3, WrittenForms
  <2>3. v[2][1] \in NumberChar /\ v[2] \in Txt
    BY <2>1, NumberMarks
  <2>4. v[2][1] \notin Closing /\ HeadKind(v[2][1]) = "num"
    BY <2>3, NumberMarks, HeadKinds
  <2> QED BY <1>3, <2>1, <2>2, <2>3, <2>4
<1>4. CASE v[1] = "str"
  <2>1. v[2] \in Seq(JsonChar)
    BY <1>4, OverKinds
  <2>2. t = Quoted(v[2])
    BY <1>4, WrittenForms
  <2>3. Quoted(v[2]) \in Txt /\ Quoted(v[2]) # <<>> /\ Quoted(v[2])[1] = Quote
    BY <2>1, QuotedForm
  <2> QED BY <1>4, <2>2, <2>3, HeadKinds
<1>5. CASE v[1] = "arr"
  <2>1. v[2] \in Seq(V)
    BY <1>5, OverKinds
  <2>2. t = ListText(f, v[2])
    BY <1>5, WrittenForms
  <2>3. ListText(f, v[2]) \in Txt /\ ListText(f, v[2]) # <<>> /\ ListText(f, v[2])[1] = OpenList
    BY <2>1, ListsApart
  <2> QED BY <1>5, <2>2, <2>3, HeadKinds
<1>6. CASE v[1] = "obj"
  <2>1. v[2] \in Members(V)
    BY <1>6, OverKinds
  <2>2. t = ObjectText(f, v[2])
    BY <1>6, WrittenForms
  <2>3. ObjectText(f, v[2]) \in Txt /\ ObjectText(f, v[2]) # <<>> /\ ObjectText(f, v[2])[1] = OpenObject
    BY <2>1, ObjectsApart
  <2> QED BY <1>6, <2>2, <2>3, HeadKinds
<1>7. v[1] \in {"null", "bool", "num", "str", "arr", "obj"}
  BY OverKinds
<1> QED BY <1>1, <1>2, <1>3, <1>4, <1>5, <1>6, <1>7

LEMMA KindApart ==
  ASSUME NEW V, NEW f, NEW g, Unambiguous(V, f, g),
         NEW v, v \in Over(V), NEW w, w \in Over(V), v[1] = w[1],
         NEW x, x \in Ends, NEW y, y \in Ends, Glue(Written(v, f), x) = Glue(Written(w, f), y)
  PROVE  Said(v, g) = Said(w, g) /\ x = y
<1>0. x \in Txt /\ y \in Txt
  BY EndMarks
<1>1. CASE v[1] = "null"
  <2> DEFINE c == "null"
  <2>1. v = w /\ Written(v, f) = <<c>> /\ Written(w, f) = <<c>>
    BY <1>1, OverKinds, WrittenForms
  <2>2. c \in Sym
    BY HeadKinds
  <2> HIDE DEF c
  <2>3. Glue(<<c>>, x) = Cons(c, x) /\ Glue(<<c>>, y) = Cons(c, y)
    BY <1>0, <2>2, Fronts
  <2>4. Cons(c, x) = Cons(c, y)
    BY <2>1, <2>3
  <2>5. x = y
    BY <1>0, <2>2, <2>4, Fronts
  <2> QED BY <2>1, <2>5
<1>2. CASE v[1] = "bool"
  <2> DEFINE c == v[2]
             d == w[2]
  <2>1. /\ v = <<"bool", c>> /\ w = <<"bool", d>>
        /\ c \in {"true", "false"} /\ d \in {"true", "false"}
    BY <1>2, OverKinds
  <2>2. Written(v, f) = <<c>> /\ Written(w, f) = <<d>>
    BY <1>2, WrittenForms
  <2>3. c \in Sym /\ d \in Sym
    BY <2>1, HeadKinds
  <2> HIDE DEF c, d
  <2>4. Glue(<<c>>, x) = Cons(c, x) /\ Glue(<<d>>, y) = Cons(d, y)
    BY <1>0, <2>3, Fronts
  <2>5. Cons(c, x) = Cons(d, y)
    BY <2>2, <2>4
  <2>6. c = d /\ x = y
    BY <1>0, <2>3, <2>5, Fronts
  <2> QED BY <2>1, <2>6
<1>3. CASE v[1] = "num"
  <2> DEFINE c == v[2]
             d == w[2]
  <2>1. v = <<"num", c>> /\ w = <<"num", d>> /\ c \in Seq(NumberChar) /\ d \in Seq(NumberChar)
    BY <1>3, OverKinds
  <2>2. Written(v, f) = c /\ Written(w, f) = d
    BY <1>3, WrittenForms
  <2> HIDE DEF c, d
  <2>3. c = d /\ x = y
    BY <2>1, <2>2, NumbersApart
  <2> QED BY <2>1, <2>3
<1>4. CASE v[1] = "str"
  <2> DEFINE c == v[2]
             d == w[2]
  <2>1. v = <<"str", c>> /\ w = <<"str", d>> /\ c \in Seq(JsonChar) /\ d \in Seq(JsonChar)
    BY <1>4, OverKinds
  <2>2. Written(v, f) = Quoted(c) /\ Written(w, f) = Quoted(d)
    BY <1>4, WrittenForms
  <2> HIDE DEF c, d
  <2>3. Glue(Quoted(c), x) = Glue(Quoted(d), y)
    BY <2>2
  <2>4. c = d /\ x = y
    BY <1>0, <2>1, <2>3, QuotedApart
  <2> QED BY <2>1, <2>4
<1>5. CASE v[1] = "arr"
  <2> DEFINE c == v[2]
             d == w[2]
  <2>1. c \in Seq(V) /\ d \in Seq(V)
    BY <1>5, OverKinds
  <2>2. Written(v, f) = ListText(f, c) /\ Written(w, f) = ListText(f, d)
    BY <1>5, WrittenForms
  <2>3. Said(v, g) = <<"arr", Each(g, c)>> /\ Said(w, g) = <<"arr", Each(g, d)>>
    BY <1>5, SaidForms
  <2> HIDE DEF c, d
  <2>4. Glue(ListText(f, c), x) = Glue(ListText(f, d), y)
    BY <2>2
  <2>5. Each(g, c) = Each(g, d) /\ x = y
    BY <2>1, <2>4, ListsApart
  <2> QED BY <2>3, <2>5
<1>6. CASE v[1] = "obj"
  <2> DEFINE c == v[2]
             d == w[2]
  <2>1. c \in Members(V) /\ d \in Members(V)
    BY <1>6, OverKinds
  <2>2. Written(v, f) = ObjectText(f, c) /\ Written(w, f) = ObjectText(f, d)
    BY <1>6, WrittenForms
  <2>3. Said(v, g) = <<"obj", MembersSaid(g, c)>> /\ Said(w, g) = <<"obj", MembersSaid(g, d)>>
    BY <1>6, SaidForms
  <2> HIDE DEF c, d
  <2>4. Glue(ObjectText(f, c), x) = Glue(ObjectText(f, d), y)
    BY <2>2
  <2>5. MembersSaid(g, c) = MembersSaid(g, d) /\ x = y
    BY <2>1, <2>4, ObjectsApart
  <2> QED BY <2>3, <2>5
<1>7. v[1] \in {"null", "bool", "num", "str", "arr", "obj"}
  BY OverKinds
<1> QED BY <1>1, <1>2, <1>3, <1>4, <1>5, <1>6, <1>7

LEMMA KindSaid ==
  ASSUME NEW V, NEW f, NEW g, Unambiguous(V, f, g),
         NEW v, v \in Over(V), NEW w, w \in Over(V), Said(v, g) = Said(w, g)
  PROVE  Written(v, f) = Written(w, f)
<1>0. v[1] = w[1]
  <2>1. Said(v, g)[1] = v[1] /\ Said(w, g)[1] = w[1]
    BY SaidForms
  <2> QED BY <2>1
<1>1. CASE v[1] \notin {"arr", "obj"}
  <2>1. v = w
    BY <1>0, <1>1, SaidForms
  <2> QED BY <2>1
<1>2. CASE v[1] = "arr"
  <2> DEFINE c == v[2]
             d == w[2]
  <2>1. c \in Seq(V) /\ d \in Seq(V)
    BY <1>0, <1>2, OverKinds
  <2>2. Written(v, f) = ListText(f, c) /\ Written(w, f) = ListText(f, d)
    BY <1>0, <1>2, WrittenForms
  <2>3. Said(v, g) = <<"arr", Each(g, c)>> /\ Said(w, g) = <<"arr", Each(g, d)>>
    BY <1>0, <1>2, SaidForms
  <2> HIDE DEF c, d
  <2>4. Each(g, c) = Each(g, d)
    <3> DEFINE a == Each(g, c)
               b == Each(g, d)
    <3>1. <<"arr", a>> = <<"arr", b>>
      BY <2>3
    <3> HIDE DEF a, b
    <3>2. a = b
      BY <3>1
    <3> QED BY <3>2 DEF a, b
  <2>5. ListText(f, c) = ListText(f, d)
    BY <2>1, <2>4, ListsApart
  <2> QED BY <2>2, <2>5
<1>3. CASE v[1] = "obj"
  <2> DEFINE c == v[2]
             d == w[2]
  <2>1. c \in Members(V) /\ d \in Members(V)
    BY <1>0, <1>3, OverKinds
  <2>2. Written(v, f) = ObjectText(f, c) /\ Written(w, f) = ObjectText(f, d)
    BY <1>0, <1>3, WrittenForms
  <2>3. Said(v, g) = <<"obj", MembersSaid(g, c)>> /\ Said(w, g) = <<"obj", MembersSaid(g, d)>>
    BY <1>0, <1>3, SaidForms
  <2> HIDE DEF c, d
  <2>4. MembersSaid(g, c) = MembersSaid(g, d)
    <3> DEFINE a == MembersSaid(g, c)
               b == MembersSaid(g, d)
    <3>1. <<"obj", a>> = <<"obj", b>>
      BY <2>3
    <3> HIDE DEF a, b
    <3>2. a = b
      BY <3>1
    <3> QED BY <3>2 DEF a, b
  <2>5. ObjectText(f, c) = ObjectText(f, d)
    BY <2>1, <2>4, ObjectsApart
  <2> QED BY <2>2, <2>5
<1> QED BY <1>1, <1>2, <1>3

LEMMA OneLevel ==
  ASSUME NEW V, NEW f, NEW g, Unambiguous(V, f, g)
  PROVE  Unambiguous(Over(V), [v \in Over(V) |-> Written(v, f)], [v \in Over(V) |-> Said(v, g)])
<1> DEFINE W == Over(V)
           F == [v \in W |-> Written(v, f)]
           G == [v \in W |-> Said(v, g)]
<1>0. \A v \in W : F[v] = Written(v, f) /\ G[v] = Said(v, g)
  OBVIOUS
<1>1. \A v \in W : Written(v, f) \in Txt /\ Written(v, f) # <<>> /\ Written(v, f)[1] \notin Closing
  BY TextOfKind
<1>2. ASSUME NEW v, v \in W, NEW w, w \in W, NEW x, x \in Ends, NEW y, y \in Ends,
             Glue(Written(v, f), x) = Glue(Written(w, f), y)
      PROVE  Said(v, g) = Said(w, g) /\ x = y
  <2> DEFINE s == Written(v, f)
             t == Written(w, f)
  <2>1. s \in Txt /\ s # <<>> /\ HeadKind(s[1]) = v[1]
    BY <1>2, TextOfKind
  <2>2. t \in Txt /\ t # <<>> /\ HeadKind(t[1]) = w[1]
    BY <1>2, TextOfKind
  <2>3. x \in Txt /\ y \in Txt
    BY <1>2, EndMarks
  <2>4. Glue(s, x) = Glue(t, y)
    BY <1>2
  <2>5. v[1] = w[1]
    <3> HIDE DEF s, t
    <3>1. Glue(s, x)[1] = s[1] /\ Glue(t, y)[1] = t[1]
      BY <2>1, <2>2, <2>3, Fronts
    <3> QED BY <2>1, <2>2, <2>4, <3>1
  <2> HIDE DEF W
  <2> QED BY <1>2, <2>5, KindApart DEF W
<1>3. \A v, w \in W : Said(v, g) = Said(w, g) => Written(v, f) = Written(w, f)
  BY KindSaid
<1> HIDE DEF W, F, G
<1>4. Unambiguous(W, F, G)
  BY <1>0, <1>1, <1>2, <1>3 DEF Unambiguous
<1> QED BY <1>4 DEF W, F, G

-----------------------------------------------------------------------------
(* Intents. *)

\* What JSON values are written as and say, by the values inside them.
Tables(text, said) ==
  /\ \A n \in 1..MaxDepth : text[n] = [v \in Over(Nested[n - 1]) |-> Written(v, text[n - 1])]
  /\ \A n \in 1..MaxDepth : said[n] = [v \in Over(Nested[n - 1]) |-> Said(v, said[n - 1])]
  /\ \A n \in 0..MaxDepth : Unambiguous(Nested[n], text[n], said[n])
  /\ \A v \in Json : Canonical(v) = text[MaxDepth][v] /\ Meant(v) = said[MaxDepth][v]

LEMMA Levels == \E text, said : Tables(text, said)
<1>1. PICK text : /\ \A n \in 1..MaxDepth : text[n] = [v \in Nested[n] |-> Written(v, text[n - 1])]
                  /\ \A v \in Json : Canonical(v) = text[MaxDepth][v]
  BY CanonicalTable
<1>2. PICK said : /\ \A n \in 1..MaxDepth : said[n] = [v \in Nested[n] |-> Said(v, said[n - 1])]
                  /\ \A v \in Json : Meant(v) = said[MaxDepth][v]
  BY MeantTable
<1>3. MaxDepth \in Nat /\ Nested[0] = {} /\ \A n \in 1..MaxDepth : Nested[n] = Over(Nested[n - 1])
  BY GateAssumption, NestedTable
<1>4. \A n \in 1..MaxDepth : /\ text[n] = [v \in Over(Nested[n - 1]) |-> Written(v, text[n - 1])]
                             /\ said[n] = [v \in Over(Nested[n - 1]) |-> Said(v, said[n - 1])]
  BY <1>1, <1>2, <1>3
<1> DEFINE T == {n \in 0..MaxDepth : Unambiguous(Nested[n], text[n], said[n])}
<1>5. 0 \in T
  <2>1. Unambiguous(Nested[0], text[0], said[0])
    BY <1>3 DEF Unambiguous
  <2> QED BY <1>3, <2>1
<1>6. ASSUME NEW n \in 0..(MaxDepth - 1), n \in T PROVE n + 1 \in T
  <2>1. n + 1 \in 1..MaxDepth /\ n + 1 \in 0..MaxDepth /\ (n + 1) - 1 = n
    BY <1>3
  <2> DEFINE V == Nested[n]
             f == text[n]
             g == said[n]
  <2>2. Unambiguous(V, f, g)
    BY <1>6
  <2>3. /\ Nested[n + 1] = Over(V)
        /\ text[n + 1] = [v \in Over(V) |-> Written(v, f)]
        /\ said[n + 1] = [v \in Over(V) |-> Said(v, g)]
    BY <1>3, <1>4, <2>1
  <2> HIDE DEF V, f, g
  <2>4. Unambiguous(Over(V), [v \in Over(V) |-> Written(v, f)], [v \in Over(V) |-> Said(v, g)])
    BY <2>2, OneLevel
  <2> QED BY <2>1, <2>3, <2>4
<1> HIDE DEF T
<1>7. 0..MaxDepth \subseteq T
  BY <1>3, <1>5, <1>6, InductionUpTo
<1>8. \A n \in 0..MaxDepth : Unambiguous(Nested[n], text[n], said[n])
  BY <1>7 DEF T
<1>9. Tables(text, said)
  BY <1>1, <1>2, <1>4, <1>8 DEF Tables
<1> QED BY <1>9

\* Two intents are signed as one text exactly if they say the same.
LEMMA SameTextSameMeaning ==
  \A v, w \in Json : Canonical(v) = Canonical(w) <=> Meant(v) = Meant(w)
<1>1. PICK text, said :
        /\ \A n \in 0..MaxDepth : Unambiguous(Nested[n], text[n], said[n])
        /\ \A v \in Json : Canonical(v) = text[MaxDepth][v] /\ Meant(v) = said[MaxDepth][v]
  BY Levels DEF Tables
<1>2. MaxDepth \in 0..MaxDepth
  BY GateAssumption
<1>3. Unambiguous(Json, text[MaxDepth], said[MaxDepth])
  BY <1>1, <1>2 DEF Json
<1>4. \A v, w \in Json : text[MaxDepth][v] = text[MaxDepth][w] <=> said[MaxDepth][v] = said[MaxDepth][w]
  BY <1>3, UnambiguousParts
<1> QED BY <1>1, <1>4

\* The members of an intent.
MembersOf(v) == IF v[1] = "obj" THEN Range(v[2]) ELSE {}

LEMMA JsonForm ==
  ASSUME NEW v, v \in Json
  PROVE  \E n \in 1..MaxDepth : n = MaxDepth /\ v \in Over(Nested[n - 1])
<1>1. MaxDepth \in Nat /\ Nested[0] = {} /\ \A n \in 1..MaxDepth : Nested[n] = Over(Nested[n - 1])
  BY GateAssumption, NestedTable
<1>2. MaxDepth # 0
  BY <1>1 DEF Json
<1> QED BY <1>1, <1>2 DEF Json

LEMMA MemberForm ==
  ASSUME NEW n \in 1..MaxDepth, NEW v, v \in Over(Nested[n - 1]), NEW m, m \in MembersOf(v)
  PROVE  /\ v[1] = "obj" /\ v[2] \in Members(Nested[n - 1])
         /\ m[1] \in KeysOf(v[2]) /\ m = <<m[1], m[2]>> /\ m[2] = At(v[2], m[1])
         /\ m[2] \in Nested[n - 1]
         /\ n - 1 \in 1..MaxDepth /\ m[2] \in Over(Nested[(n - 1) - 1])
<1> DEFINE V == Nested[n - 1]
<1>1. v[1] = "obj" /\ m \in Range(v[2])
  BY DEF MembersOf
<1>2. v[2] \in Members(V)
  BY <1>1, OverKinds
<1>3. m[1] \in KeysOf(v[2]) /\ m = <<m[1], m[2]>> /\ m[2] = At(v[2], m[1])
  BY <1>1, <1>2, ValueOfKey
<1>4. At(v[2], m[1]) \in V
  BY <1>2, <1>3, ValueOfKey
<1>5. MaxDepth \in Nat /\ Nested[0] = {} /\ \A k \in 1..MaxDepth : Nested[k] = Over(Nested[k - 1])
  BY GateAssumption, NestedTable
<1>6. n - 1 \in 1..MaxDepth
  <2>1. n - 1 # 0
    BY <1>4, <1>5
  <2> QED BY <1>5, <2>1
<1>7. Nested[n - 1] = Over(Nested[(n - 1) - 1])
  BY <1>5, <1>6
<1>8. m[2] \in V
  BY <1>3, <1>4
<1> QED BY <1>1, <1>2, <1>3, <1>6, <1>7, <1>8

\* A member that is neither an array nor an object is part of what an intent says.
LEMMA ScalarMembers ==
  ASSUME NEW v, v \in Json, NEW w, w \in Json, Meant(v) = Meant(w),
         NEW m, m \in MembersOf(v), m[2][1] \notin {"arr", "obj"}
  PROVE  m \in MembersOf(w)
<1>1. PICK text, said :
        /\ \A n \in 1..MaxDepth : said[n] = [u \in Over(Nested[n - 1]) |-> Said(u, said[n - 1])]
        /\ \A u \in Json : Meant(u) = said[MaxDepth][u]
  BY Levels DEF Tables
<1>2. PICK n \in 1..MaxDepth : n = MaxDepth /\ v \in Over(Nested[n - 1]) /\ w \in Over(Nested[n - 1])
  BY JsonForm
<1> DEFINE V == Nested[n - 1]
           g == said[n - 1]
           h == said[(n - 1) - 1]
           p == v[2]
           q == w[2]
<1>3. Said(v, g) = Said(w, g)
  <2>1. said[n] = [u \in Over(V) |-> Said(u, g)]
    BY <1>1
  <2> HIDE DEF V, g
  <2>2. said[n][v] = Said(v, g) /\ said[n][w] = Said(w, g)
    BY <1>2, <2>1 DEF V
  <2>3. said[n][v] = said[n][w]
    BY <1>1, <1>2
  <2> QED BY <2>2, <2>3
<1>4. /\ v[1] = "obj" /\ p \in Members(V) /\ m \in Range(p)
      /\ m = <<m[1], m[2]>> /\ m[2] \in V /\ n - 1 \in 1..MaxDepth
  BY <1>2, MemberForm DEF MembersOf
<1>5. w[1] = "obj"
  <2>1. Said(v, g)[1] = v[1] /\ Said(w, g)[1] = w[1]
    BY SaidForms
  <2> HIDE DEF g
  <2> QED BY <1>3, <1>4, <2>1
<1>6. MembersSaid(g, p) = MembersSaid(g, q)
  <2> DEFINE a == MembersSaid(g, p)
             b == MembersSaid(g, q)
  <2>1. Said(v, g) = <<"obj", a>> /\ Said(w, g) = <<"obj", b>>
    BY <1>4, <1>5, SaidForms
  <2>2. <<"obj", a>> = <<"obj", b>>
    BY <1>3, <2>1
  <2> HIDE DEF a, b
  <2>3. a = b
    BY <2>2
  <2> QED BY <2>3 DEF a, b
<1>7. <<m[1], g[m[2]]>> \in MembersSaid(g, p)
  BY <1>4 DEF MembersSaid
<1>8. PICK l \in Range(q) : <<m[1], g[m[2]]>> = <<l[1], g[l[2]]>>
  BY <1>6, <1>7 DEF MembersSaid
<1>9. m[1] = l[1] /\ g[m[2]] = g[l[2]]
  <2> DEFINE a == g[m[2]]
             b == g[l[2]]
             c == m[1]
             d == l[1]
  <2>1. <<c, a>> = <<d, b>>
    BY <1>8
  <2> HIDE DEF a, b, c, d
  <2>2. c = d /\ a = b
    BY <2>1
  <2> QED BY <2>2 DEF a, b, c, d
<1>10. l \in MembersOf(w)
  BY <1>5 DEF MembersOf
<1>11. l = <<l[1], l[2]>> /\ l[2] \in V
  BY <1>2, <1>10, MemberForm
<1>12. V = Over(Nested[(n - 1) - 1]) /\ g = [u \in Over(Nested[(n - 1) - 1]) |-> Said(u, h)]
  BY <1>1, <1>4, NestedTable
<1>13. \A u \in V : g[u] = Said(u, h)
  <2> HIDE DEF V, g, h
  <2> QED BY <1>12
<1> HIDE DEF V, g, h
<1>14. g[m[2]] = m[2]
  BY <1>4, <1>13, SaidForms
<1>15. Said(l[2], h)[1] = l[2][1] /\ Said(l[2], h) = m[2]
  BY <1>9, <1>11, <1>13, <1>14, SaidForms
<1>16. l[2] = m[2]
  <2>1. l[2][1] \notin {"arr", "obj"}
    BY <1>15
  <2>2. Said(l[2], h) = l[2]
    BY <2>1, SaidForms
  <2> QED BY <1>15, <2>2
<1>17. l = m
  BY <1>4, <1>9, <1>11, <1>16
<1> QED BY <1>10, <1>17

\* A field is the value of a member of its name, or missing.
LEMMA FieldForm ==
  ASSUME NEW v, v \in Json, NEW name
  PROVE  /\ FieldOf(v, name) = Missing \/ <<name, FieldOf(v, name)>> \in MembersOf(v)
         /\ \A m \in MembersOf(v) :
              m[1] = name => /\ FieldOf(v, name) = m[2] /\ m[2] # Missing /\ m = <<m[1], m[2]>>
                             /\ m[2][1] = "str" => m[2] = <<"str", m[2][2]>>
<1>1. PICK n \in 1..MaxDepth : n = MaxDepth /\ v \in Over(Nested[n - 1])
  BY JsonForm
<1>2. ASSUME v[1] = "obj", name \in KeysOf(v[2]) PROVE <<name, FieldOf(v, name)>> \in MembersOf(v)
  <2>1. v[2] \in Members(Nested[n - 1])
    BY <1>1, <1>2, OverKinds
  <2>2. <<name, At(v[2], name)>> \in Range(v[2])
    BY <1>2, <2>1, ValueOfKey
  <2>3. FieldOf(v, name) = At(v[2], name)
    BY <1>2 DEF FieldOf
  <2> QED BY <1>2, <2>2, <2>3 DEF MembersOf
<1>3. ~(v[1] = "obj" /\ name \in KeysOf(v[2])) => FieldOf(v, name) = Missing
  BY DEF FieldOf
<1>4. ASSUME NEW m, m \in MembersOf(v), m[1] = name
      PROVE  /\ FieldOf(v, name) = m[2] /\ m[2] # Missing /\ m = <<m[1], m[2]>>
             /\ m[2][1] = "str" => m[2] = <<"str", m[2][2]>>
  <2>1. /\ v[1] = "obj" /\ m[1] \in KeysOf(v[2]) /\ m = <<m[1], m[2]>> /\ m[2] = At(v[2], m[1])
        /\ n - 1 \in 1..MaxDepth /\ m[2] \in Over(Nested[(n - 1) - 1])
    BY <1>1, <1>4, MemberForm
  <2>2. FieldOf(v, name) = m[2]
    BY <1>4, <2>1 DEF FieldOf
  <2> DEFINE c == m[2]
             V == Nested[(n - 1) - 1]
  <2>3. c \in Over(V)
    BY <2>1
  <2> HIDE DEF c, V
  <2>4. /\ c = <<"null">> \/ c = <<"bool", c[2]>> \/ c = <<"num", c[2]>> \/ c = <<"str", c[2]>>
           \/ c = <<"arr", c[2]>> \/ c = <<"obj", c[2]>>
        /\ c[1] = "str" => c = <<"str", c[2]>>
    BY <2>3, OverKinds
  <2>5. c # <<>>
    BY <2>4
  <2> QED BY <2>1, <2>2, <2>4, <2>5 DEF c, Missing
<1> QED BY <1>2, <1>3, <1>4

\* What an intent names by a text is what every intent of its meaning names.
LEMMA TextField ==
  ASSUME NEW v, v \in Json, NEW w, w \in Json, Meant(v) = Meant(w), NEW name, NEW k, k # <<>>
  PROVE  TextOf(FieldOf(v, name)) = k <=> <<name, <<"str", k>>>> \in MembersOf(w)
<1> DEFINE f == FieldOf(v, name)
           c == <<"str", k>>
           m == <<name, c>>
<1>0. c[1] = "str" /\ c[2] = k /\ m[1] = name /\ m[2] = c
  OBVIOUS
<1>1. ASSUME TextOf(f) = k PROVE m \in MembersOf(w)
  <2>1. f # Missing /\ f[1] = "str" /\ f[2] = k
    BY <1>1 DEF TextOf
  <2> DEFINE l == <<name, f>>
  <2>2. l \in MembersOf(v) /\ l[1] = name /\ l[2] = f
    BY <2>1, FieldForm
  <2> HIDE DEF l, f
  <2>3. f = <<"str", f[2]>>
    BY <2>1, <2>2, FieldForm
  <2>4. f = c
    BY <2>1, <2>3
  <2>5. l[2][1] \notin {"arr", "obj"}
    BY <2>1, <2>2
  <2>6. l \in MembersOf(w)
    BY <2>2, <2>5, ScalarMembers
  <2> QED BY <2>4, <2>6 DEF l
<1>2. ASSUME m \in MembersOf(w) PROVE TextOf(f) = k
  <2> HIDE DEF m, c, f
  <2>1. m[2][1] \notin {"arr", "obj"}
    BY <1>0
  <2>2. m \in MembersOf(v)
    BY <1>2, <2>1, ScalarMembers
  <2>3. f = m[2] /\ m[2] # Missing
    BY <1>0, <2>2, FieldForm DEF f
  <2> QED BY <1>0, <2>3 DEF TextOf
<1> QED BY <1>1, <1>2

\* So is a number it names.
LEMMA NumberField ==
  ASSUME NEW v, v \in Json, NEW w, w \in Json, Meant(v) = Meant(w), NEW name, NEW D
  PROVE  (FieldOf(v, name) # Missing /\ FieldOf(v, name)[1] = "num" /\ FieldOf(v, name)[2] \in D) <=>
         (\E m \in MembersOf(w) : m[1] = name /\ m[2][1] = "num" /\ m[2][2] \in D)
<1> DEFINE f == FieldOf(v, name)
<1>1. ASSUME f # Missing, f[1] = "num", f[2] \in D
      PROVE  \E m \in MembersOf(w) : m[1] = name /\ m[2][1] = "num" /\ m[2][2] \in D
  <2> DEFINE l == <<name, f>>
  <2>1. l \in MembersOf(v) /\ l[1] = name /\ l[2] = f
    BY <1>1, FieldForm
  <2> HIDE DEF l, f
  <2>2. l[2][1] \notin {"arr", "obj"}
    BY <1>1, <2>1
  <2>3. l \in MembersOf(w)
    BY <2>1, <2>2, ScalarMembers
  <2> QED BY <1>1, <2>1, <2>3
<1>2. ASSUME NEW m \in MembersOf(w), m[1] = name, m[2][1] = "num", m[2][2] \in D
      PROVE  f # Missing /\ f[1] = "num" /\ f[2] \in D
  <2>1. m[2][1] \notin {"arr", "obj"}
    BY <1>2
  <2>2. m \in MembersOf(v)
    BY <2>1, ScalarMembers
  <2>3. f = m[2] /\ m[2] # Missing
    BY <1>2, <2>2, FieldForm
  <2> QED BY <1>2, <2>3
<1> QED BY <1>1, <1>2

-----------------------------------------------------------------------------
(* Bytes. *)

Octet == 0..255

LEMMA Byteses ==
  /\ <<>> \in Octets
  /\ \A x \in Octets : Len(x) \in Nat /\ Glue(<<>>, x) = x /\ Glue(x, <<>>) = x
  /\ \A x, y \in Octets : Glue(x, y) \in Octets
  /\ \A x, y, z \in Octets : Glue(Glue(x, y), z) = Glue(x, Glue(y, z))
<1> DEFINE S == 0..255
<1>1. Octets = Seq(S)
  BY DEF Octets
<1>2. \A x \in Octets : Len(x) \in Nat
  BY <1>1
<1> HIDE DEF S
<1>3. /\ <<>> \in Seq(S)
      /\ \A x \in Seq(S) : Glue(<<>>, x) = x /\ Glue(x, <<>>) = x
      /\ \A x, y \in Seq(S) : Glue(x, y) \in Seq(S)
      /\ \A x, y, z \in Seq(S) : Glue(Glue(x, y), z) = Glue(x, Glue(y, z))
  BY Joins
<1> QED BY <1>1, <1>2, <1>3

LEMMA Sizes ==
  /\ Len(<<>>) = 0
  /\ \A x, y \in Octets : Len(Glue(x, y)) = Len(x) + Len(y)
  /\ \A x \in Octets : Len(x) = 0 => x = <<>>
  /\ \A a \in Octet : <<a>> \in Octets /\ Len(<<a>>) = 1 /\ <<a>> # <<>> /\ <<a>>[1] = a
  /\ \A a \in Octet, x \in Octets : Cons(a, x) \in Octets /\ Len(Cons(a, x)) = Len(x) + 1
<1> DEFINE S == Octet
<1>1. Octets = Seq(S)
  BY DEF Octets, Octet
<1>2. \A a \in S : <<a>> \in Octets /\ Len(<<a>>) = 1 /\ <<a>> # <<>> /\ <<a>>[1] = a
  BY <1>1
<1>3. \A x \in Octets : Len(x) = 0 => x = <<>>
  BY <1>1
<1> HIDE DEF S
<1>4. \A x, y \in Seq(S) : Len(x \o y) = Len(x) + Len(y)
  BY Apart
<1>5. \A a \in S, x \in Seq(S) : Cons(a, x) \in Seq(S) /\ Len(Cons(a, x)) = Len(x) + 1
  BY Places
<1>6. Len(<<>>) = 0
  OBVIOUS
<1> QED BY <1>1, <1>2, <1>3, <1>4, <1>5, <1>6 DEF S, Glue

LEMMA FirstBytes ==
  /\ \A a \in Octet, x \in Octets : Cons(a, x) # <<>> /\ Cons(a, x)[1] = a /\ Glue(<<a>>, x) = Cons(a, x)
  /\ \A x \in Octets : x # <<>> => x[1] \in Octet /\ \E r \in Octets : x = Cons(x[1], r)
  /\ \A x, y \in Octets : x # <<>> => Glue(x, y) # <<>> /\ Glue(x, y)[1] = x[1]
  /\ \A a \in Octet, x, y \in Octets : Glue(Cons(a, x), y) = Cons(a, Glue(x, y))
<1> DEFINE S == Octet
<1>1. Octets = Seq(S)
  BY DEF Octets, Octet
<1> HIDE DEF S
<1>2. /\ \A a \in S, x \in Seq(S) : Cons(a, x) # <<>> /\ Cons(a, x)[1] = a /\ Glue(<<a>>, x) = Cons(a, x)
      /\ \A x \in Seq(S) : x # <<>> => x[1] \in S /\ \E r \in Seq(S) : x = Cons(x[1], r)
      /\ \A x, y \in Seq(S) : x # <<>> => Glue(x, y) # <<>> /\ Glue(x, y)[1] = x[1]
      /\ \A a \in S, x, y \in Seq(S) : Glue(Cons(a, x), y) = Cons(a, Glue(x, y))
  BY Leads
<1> QED BY <1>1, <1>2 DEF S

LEMMA Cuts ==
  /\ \A x, y \in Octets : After(Glue(x, y), Len(x)) = y
  /\ \A x, y, z \in Octets : SubSeq(Glue(x, Glue(y, z)), Len(x) + 1, Len(x) + Len(y)) = y
<1> DEFINE S == Octet
<1>1. Octets = Seq(S)
  BY DEF Octets, Octet
<1> HIDE DEF S
<1>2. ASSUME NEW x \in Seq(S), NEW y \in Seq(S)
      PROVE  SubSeq(x \o y, 1, Len(x)) = x /\ SubSeq(x \o y, Len(x) + 1, Len(x \o y)) = y
  BY Apart
<1>3. ASSUME NEW x \in Seq(S), NEW y \in Seq(S), NEW z \in Seq(S)
      PROVE  SubSeq(Glue(x, Glue(y, z)), Len(x) + 1, Len(x) + Len(y)) = y
  <2> DEFINE w == x \o y
             s == w \o z
             l == Len(x)
             m == Len(y)
  <2>1. w \in Seq(S) /\ Len(w) = l + m /\ l \in Nat /\ m \in Nat /\ SubSeq(w, l + 1, l + m) = y
    <3>1. w \in Seq(S) /\ Len(w) = l + m
      BY Apart
    <3>2. l \in Nat /\ m \in Nat
      OBVIOUS
    <3> QED BY <1>2, <3>1, <3>2
  <2>2. s = Glue(x, Glue(y, z))
    BY Joining DEF Glue
  <2> HIDE DEF w
  <2>3. /\ s \in Seq(S) /\ Len(s) = (l + m) + Len(z) /\ Len(z) \in Nat
        /\ \A i \in 1..Len(w) : s[i] = w[i]
    <3>1. /\ s \in Seq(S) /\ Len(s) = Len(w) + Len(z)
          /\ \A i \in 1..(Len(w) + Len(z)) : s[i] = IF i <= Len(w) THEN w[i] ELSE z[i - Len(w)]
      BY <2>1, ConcatProperties, ZenonT(60)
    <3>2. Len(z) \in Nat
      OBVIOUS
    <3> QED BY <2>1, <3>1, <3>2
  <2> HIDE DEF l, m, s
  <2>4. SubSeq(s, l + 1, l + m) = SubSeq(w, l + 1, l + m)
    BY <2>1, <2>3
  <2> QED BY <2>1, <2>2, <2>4 DEF l, m
<1> QED BY <1>1, <1>2, <1>3 DEF After, Glue

-----------------------------------------------------------------------------
(* The calls, by how many are nested. *)

LEMMA ReadingTable ==
  /\ Reading[0] = Exhausted
  /\ \A n \in Nat : Reading[n + 1] = Calls(Reading[n])
<1> DEFINE Filled(g, n) == g = [k \in 0..n |-> IF k = 0 THEN Exhausted ELSE Calls(g[k - 1])]
           T == {n \in Nat : \E g : Filled(g, n)}
<1>1. 0 \in T
  <2> DEFINE g == [k \in 0..0 |-> Exhausted]
  <2>1. Filled(g, 0)
    OBVIOUS
  <2> HIDE DEF g
  <2> QED BY <2>1
<1>2. ASSUME NEW n \in Nat, n \in T PROVE n + 1 \in T
  <2>1. PICK g : Filled(g, n)
    BY <1>2
  <2> DEFINE h == [k \in 0..(n + 1) |-> IF k = 0 THEN Exhausted ELSE Calls(g[k - 1])]
             H == [k \in 0..(n + 1) |-> IF k = 0 THEN Exhausted ELSE Calls(h[k - 1])]
  <2>2. ASSUME NEW k \in 0..(n + 1) PROVE h[k] = H[k]
    <3>1. CASE k = 0
      BY <3>1
    <3>2. CASE k # 0
      <4>1. k - 1 \in 0..n /\ k - 1 \in 0..(n + 1)
        BY <3>2
      <4>2. g[k - 1] = h[k - 1]
        BY <2>1, <4>1
      <4>3. h[k] = Calls(g[k - 1]) /\ H[k] = Calls(h[k - 1])
        BY <3>2
      <4> QED BY <4>2, <4>3
    <3> QED BY <3>1, <3>2
  <2>3. h = H
    BY <2>2
  <2>4. Filled(h, n + 1)
    BY <2>3
  <2> HIDE DEF h, Filled
  <2> QED BY <2>4
<1>3. ASSUME NEW n \in Nat PROVE \E g : Filled(g, n)
  <2> HIDE DEF T
  <2>1. Nat \subseteq T
    BY <1>1, <1>2, InductionOn
  <2> QED BY <2>1 DEF T
<1>4. ASSUME NEW m \in Nat, NEW n \in Nat, NEW g, NEW h, Filled(g, m), Filled(h, n)
      PROVE  \A k \in Nat : k <= m /\ k <= n => g[k] = h[k]
  <2> DEFINE U == {k \in Nat : k <= m /\ k <= n => g[k] = h[k]}
  <2>1. 0 \in U
    <3>1. g[0] = Exhausted /\ h[0] = Exhausted
      <4>1. 0 \in 0..m /\ 0 \in 0..n
        OBVIOUS
      <4> QED BY <1>4, <4>1
    <3> QED BY <3>1
  <2>2. ASSUME NEW k \in Nat, k \in U PROVE k + 1 \in U
    <3> SUFFICES ASSUME k + 1 <= m, k + 1 <= n PROVE g[k + 1] = h[k + 1]
      OBVIOUS
    <3>1. k + 1 \in 0..m /\ k + 1 \in 0..n /\ k + 1 # 0 /\ (k + 1) - 1 = k
      OBVIOUS
    <3>2. g[k + 1] = Calls(g[k]) /\ h[k + 1] = Calls(h[k])
      BY <1>4, <3>1
    <3>3. g[k] = h[k]
      BY <2>2
    <3> QED BY <3>2, <3>3
  <2> HIDE DEF U, Filled
  <2>3. Nat \subseteq U
    BY <2>1, <2>2, InductionOn
  <2> QED BY <2>3 DEF U
<1> DEFINE pick == [n \in Nat |-> CHOOSE g : Filled(g, n)]
           f == [n \in Nat |-> pick[n][n]]
           F == [n \in Nat |-> IF n = 0 THEN Exhausted ELSE Calls(f[n - 1])]
<1>5. ASSUME NEW n \in Nat PROVE Filled(pick[n], n)
  <2>1. \E g : Filled(g, n)
    BY <1>3
  <2> HIDE DEF Filled
  <2> QED BY <2>1
<1>6. ASSUME NEW n \in Nat PROVE f[n] = F[n]
  <2> DEFINE g == pick[n]
  <2>1. Filled(g, n)
    BY <1>5
  <2>2. f[n] = g[n]
    OBVIOUS
  <2>3. CASE n = 0
    <3>1. g[n] = Exhausted
      <4> HIDE DEF pick
      <4>1. n \in 0..n
        OBVIOUS
      <4> QED BY <2>1, <2>3, <4>1
    <3> QED BY <2>2, <2>3, <3>1
  <2>4. CASE n # 0
    <3> DEFINE m == n - 1
               h == pick[m]
    <3>1. m \in Nat /\ m <= n /\ n \in 0..n
      BY <2>4
    <3>2. Filled(h, m)
      BY <1>5, <3>1
    <3>3. f[m] = h[m]
      BY <3>1
    <3> HIDE DEF f, pick
    <3>4. g[n] = Calls(g[m])
      BY <2>1, <2>4, <3>1
    <3>5. g[m] = h[m]
      <4> HIDE DEF g, h, m, Filled
      <4>1. m \in Nat /\ m <= m
        BY <3>1
      <4> QED BY <1>4, <2>1, <3>1, <3>2, <4>1
    <3>6. F[n] = Calls(f[m])
      BY <2>4
    <3> QED BY <2>2, <3>3, <3>4, <3>5, <3>6
  <2> QED BY <2>3, <2>4
<1>7. f = F
  BY <1>6
<1> DEFINE E(r) == r = [n \in Nat |-> IF n = 0 THEN Exhausted ELSE Calls(r[n - 1])]
<1>8. E(Reading)
  <2>1. E(f)
    BY <1>7
  <2>2. \E r : E(r)
    <3> HIDE DEF E, f
    <3> QED BY <2>1
  <2> QED BY <2>2 DEF Reading
<1> QED
  <2>1. Reading[0] = Exhausted
    BY <1>8
  <2>2. ASSUME NEW n \in Nat PROVE Reading[n + 1] = Calls(Reading[n])
    <3>1. n + 1 \in Nat /\ n + 1 # 0 /\ (n + 1) - 1 = n
      OBVIOUS
    <3> QED BY <1>8, <3>1
  <2> QED BY <2>1, <2>2

LEMMA Answering ==
  ASSUME NEW n \in Nat, NEW b \in Octets
  PROVE  /\ Reading[n + 1].rewrite[b] = Rewrite(b, Reading[n])
         /\ Reading[n + 1].extent[b] = Extent(b, Reading[n])
         /\ Reading[n + 1].flat[OctetString][b] = Flatten(OctetString, b, Reading[n])
         /\ Reading[n + 1].octets[b] = OctetStrings(b, Reading[n])
         /\ Reading[n + 1].der[b] = Normalized(b, Reading[n])
<1> DEFINE inner == Reading[n]
<1>1. Reading[n + 1] = Calls(inner)
  BY ReadingTable
<1> HIDE DEF inner
<1>2. Calls(inner).rewrite = [c \in Octets |-> Rewrite(c, inner)]
  BY DEF Calls
<1>3. Calls(inner).extent = [c \in Octets |-> Extent(c, inner)]
  BY DEF Calls
<1>4. Calls(inner).flat = [number \in {BitString, OctetString} |-> [c \in Octets |-> Flatten(number, c, inner)]]
  BY DEF Calls
<1>5. Calls(inner).octets = [c \in Octets |-> OctetStrings(c, inner)]
  BY DEF Calls
<1>6. Calls(inner).der = [c \in Octets |-> Normalized(c, inner)]
  BY DEF Calls
<1>7. Calls(inner).flat[OctetString] = [c \in Octets |-> Flatten(OctetString, c, inner)]
  BY <1>4, Zenon
<1>8. /\ Calls(inner).rewrite[b] = Rewrite(b, inner)
      /\ Calls(inner).extent[b] = Extent(b, inner)
      /\ Calls(inner).flat[OctetString][b] = Flatten(OctetString, b, inner)
      /\ Calls(inner).octets[b] = OctetStrings(b, inner)
      /\ Calls(inner).der[b] = Normalized(b, inner)
  BY <1>2, <1>3, <1>5, <1>6, <1>7, Zenon
<1> QED BY <1>1, <1>8 DEF inner

LEMMA NoAnswer ==
  ASSUME NEW b \in Octets
  PROVE  ~Reading[0].octets[b]
BY ReadingTable DEF Exhausted

-----------------------------------------------------------------------------
(* Lengths. *)

LEMMA HornerShort ==
  ASSUME NEW a \in Octet, NEW b \in Octet
  PROVE  Horner(256, <<a>>) = a /\ Horner(256, <<a, b>>) = 256 * a + b
<1> DEFINE s == <<a>>
           base == 256
<1>1. <<>> \in Seq(Nat) /\ s \in Seq(Nat) /\ s = Append(<<>>, a) /\ <<a, b>> = Append(s, b)
      /\ a \in Nat /\ b \in Nat /\ base \in Nat
  BY DEF Octet
<1>2. Horner(base, <<>>) = 0
  <2> HIDE DEF base
  <2> QED BY <1>1, HornerEmpty
<1>3. Horner(base, s) = base * 0 + a
  <2> HIDE DEF base, s
  <2> QED BY <1>1, <1>2, HornerAppend
<1>4. Horner(base, <<a, b>>) = base * Horner(base, s) + b
  <2> HIDE DEF base, s
  <2> QED BY <1>1, HornerAppend, ZenonT(60)
<1> QED BY <1>1, <1>3, <1>4

\* The bytes x say that a content has n bytes.
Sizing(x, n) ==
  x \in Octets /\ Len(x) \in Nat \ {0} /\ \A r \in Octets : LengthOf(Glue(x, r)) = <<n, Len(x)>>

LEMMA OneSizing ==
  ASSUME NEW n \in Nat, n < 128
  PROVE  Sizing(<<n>>, n)
<1>1. n \in Octet
  BY DEF Octet
<1>2. ASSUME NEW r \in Octets PROVE LengthOf(Glue(<<n>>, r)) = <<n, 1>>
  <2> DEFINE s == Glue(<<n>>, r)
  <2>1. s # <<>> /\ s[1] = n
    BY <1>1, FirstBytes
  <2> HIDE DEF s
  <2>2. LengthOf(s) = <<n, 1>>
    <3>1. ~(n = 128) /\ n < 128
      OBVIOUS
    <3> QED BY <2>1, <3>1, Zenon DEF LengthOf
  <2> QED BY <2>2 DEF s
<1> QED BY <1>1, <1>2, Sizes DEF Sizing

LEMMA ManySizing ==
  ASSUME NEW x \in Octets, NEW k \in 1..8, Len(x) = k
  PROVE  Sizing(Cons(128 + k, x), Horner(256, x))
<1> DEFINE a == 128 + k
           e == <<a>>
           y == Cons(a, x)
<1>1. a \in Octet /\ a \in Int /\ a # 128 /\ ~(a < 128) /\ a - 128 = k
  BY DEF Octet
<1> HIDE DEF a
<1>2. y \in Octets /\ Len(y) = k + 1 /\ e \in Octets /\ Len(e) = 1
  BY <1>1, Sizes
<1>3. ASSUME NEW r \in Octets PROVE LengthOf(Glue(y, r)) = <<Horner(256, x), 1 + k>>
  <2> DEFINE s == Glue(y, r)
  <2>1. s # <<>> /\ s[1] = a
    BY <1>1, <1>2, FirstBytes
  <2>2. s = Glue(e, Glue(x, r))
    BY <1>1, FirstBytes, Byteses
  <2>3. SubSeq(s, 1 + 1, 1 + k) = x
    <3> HIDE DEF e, s, y
    <3>1. SubSeq(Glue(e, Glue(x, r)), Len(e) + 1, Len(e) + Len(x)) = x
      BY <1>2, Cuts
    <3> QED BY <1>2, <2>2, <3>1
  <2>4. Len(s) = (k + 1) + Len(r) /\ Len(r) \in Nat
    <3> HIDE DEF y, e
    <3>1. Len(Glue(y, r)) = Len(y) + Len(r)
      BY <1>2, Sizes
    <3>2. Len(r) \in Nat
      BY Byteses
    <3> QED BY <1>2, <3>1, <3>2
  <2> HIDE DEF s
  <2>5. LengthOf(s) = <<Horner(256, x), 1 + k>>
    <3>1. ~(k > 8 \/ Len(s) < 1 + k)
      BY <2>4
    <3>2. SubSeq(s, 2, 1 + k) = x
      BY <2>3
    <3> QED BY <1>1, <2>1, <3>1, <3>2 DEF LengthOf
  <2> QED BY <2>5 DEF s
<1> HIDE DEF y
<1>4. Len(y) = 1 + k /\ Len(y) \in Nat \ {0}
  BY <1>2
<1>5. Sizing(y, Horner(256, x))
  BY <1>2, <1>3, <1>4 DEF Sizing
<1> QED BY <1>5 DEF y, a

LEMMA TwoInRow ==
  ASSUME NEW a, NEW b
  PROVE  Cons(a, <<b>>) = <<a, b>>
<1> DEFINE S == {a, b}
           r == <<b>>
           s == Cons(a, r)
<1>1. a \in S /\ r \in Seq(S) /\ Len(r) = 1 /\ r[1] = b
  OBVIOUS
<1> HIDE DEF S, r
<1>2. s \in Seq(S) /\ Len(s) = Len(r) + 1 /\ s[1] = a
  BY <1>1, Places, ZenonT(60)
<1>3. \A i \in 1..Len(r) : s[i + 1] = r[i]
  <2>1. \A d \in S, t \in Seq(S) : \A i \in 1..Len(t) : Cons(d, t)[i + 1] = t[i]
    BY Places
  <2> QED BY <1>1, <2>1
<1> HIDE DEF s
<1>4. s[1 + 1] = r[1]
  BY <1>1, <1>3
<1>5. s = <<a, b>>
  BY <1>1, <1>2, <1>4
<1> QED BY <1>5 DEF s, r

LEMMA ThreeInRow ==
  ASSUME NEW a, NEW b, NEW c
  PROVE  Cons(a, <<b, c>>) = <<a, b, c>>
<1> DEFINE S == {a, b, c}
           r == <<b, c>>
           s == Cons(a, r)
<1>1. a \in S /\ r \in Seq(S) /\ Len(r) = 2 /\ r[1] = b /\ r[2] = c
  OBVIOUS
<1> HIDE DEF S, r
<1>2. s \in Seq(S) /\ Len(s) = Len(r) + 1 /\ s[1] = a
  BY <1>1, Places, ZenonT(60)
<1>3. \A i \in 1..Len(r) : s[i + 1] = r[i]
  <2>1. \A d \in S, t \in Seq(S) : \A i \in 1..Len(t) : Cons(d, t)[i + 1] = t[i]
    BY Places
  <2> QED BY <1>1, <2>1
<1> HIDE DEF s
<1>4. s[1 + 1] = r[1] /\ s[2 + 1] = r[2]
  BY <1>1, <1>3
<1>5. s = <<a, b, c>>
  BY <1>1, <1>2, <1>4
<1> QED BY <1>5 DEF s, r

LEMMA TwoSizing ==
  ASSUME NEW n \in Octet
  PROVE  Sizing(<<129, n>>, n)
<1> DEFINE y == <<n>>
<1>1. y \in Octets /\ Len(y) = 1 /\ Horner(256, y) = n
  BY Sizes, HornerShort
<1>2. Cons(129, y) = <<129, n>>
  BY TwoInRow
<1> HIDE DEF y
<1>3. Sizing(Cons(128 + 1, y), Horner(256, y))
  BY <1>1, ManySizing
<1> QED BY <1>1, <1>2, <1>3

LEMMA ThreeSizing ==
  ASSUME NEW q \in Octet, NEW m \in Octet
  PROVE  Sizing(<<130, q, m>>, 256 * q + m)
<1> DEFINE y == <<q, m>>
<1>1. y \in Octets
  BY DEF Octets, Octet
<1>2. Len(y) = 2
  OBVIOUS
<1>3. Horner(256, y) = 256 * q + m
  BY HornerShort
<1>4. Cons(130, y) = <<130, q, m>>
  BY ThreeInRow
<1> HIDE DEF y
<1>5. Sizing(Cons(128 + 2, y), Horner(256, y))
  BY <1>1, <1>2, ManySizing
<1> QED BY <1>3, <1>4, <1>5

LEMMA Halves ==
  ASSUME NEW n \in Nat, n < 65536
  PROVE  n \div 256 \in Octet /\ n % 256 \in Octet /\ 256 * (n \div 256) + (n % 256) = n
BY DEF Octet

LEMMA ShortSizing ==
  ASSUME NEW n \in Nat, n < 65536
  PROVE  Sizing(Shortest(n), n) /\ Sizing(Long(n), n)
<1>1. Sizing(Long(n), n)
  <2> DEFINE q == n \div 256
             m == n % 256
  <2>1. q \in Octet /\ m \in Octet /\ 256 * q + m = n
    BY Halves
  <2>2. Long(n) = <<130, q, m>>
    BY DEF Long
  <2> HIDE DEF q, m
  <2>3. Sizing(<<130, q, m>>, 256 * q + m)
    BY <2>1, ThreeSizing
  <2> QED BY <2>1, <2>2, <2>3
<1>2. CASE n < 128
  <2>1. Shortest(n) = <<n>>
    BY <1>2 DEF Shortest
  <2>3. Sizing(<<n>>, n)
    BY <1>2, OneSizing
  <2> QED BY <1>1, <2>1, <2>3
<1>3. CASE ~(n < 128) /\ n < 256
  <2>1. Shortest(n) = <<129, n>>
    BY <1>3 DEF Shortest
  <2>2. n \in Octet
    BY <1>3 DEF Octet
  <2>3. Sizing(<<129, n>>, n)
    BY <2>2, TwoSizing
  <2> QED BY <1>1, <2>1, <2>3
<1>4. CASE ~(n < 128) /\ ~(n < 256)
  <2>1. Shortest(n) = Long(n)
    BY <1>4 DEF Shortest, Long
  <2> QED BY <1>1, <2>1
<1> QED BY <1>2, <1>3, <1>4

LEMMA Powers256 ==
  /\ Power(256, 0) = 1 /\ Power(256, 1) = 256 /\ Power(256, 2) = 65536
  /\ \A k \in Nat : k >= 2 => Power(256, k) >= 65536
<1> DEFINE base == 256
<1>1. base \in Nat \ {0} /\ base = 256
  OBVIOUS
<1> HIDE DEF base
<1>2. /\ Power(base, 0) = 1
      /\ \A n \in Nat : Power(base, n) \in Nat /\ Power(base, n + 1) = base * Power(base, n)
  BY <1>1, PowerStep
<1>3. Power(base, 0 + 1) = base * 1 /\ Power(base, 1 + 1) = base * Power(base, 1)
  BY <1>2
<1>4. Power(base, 1) = 256 /\ Power(base, 2) = 65536
  BY <1>1, <1>3
<1> DEFINE T == {k \in Nat : Power(base, k + 2) >= 65536}
<1>5. Nat \subseteq T
  <2>1. 0 \in T
    BY <1>4
  <2>2. ASSUME NEW k \in Nat, k \in T PROVE k + 1 \in T
    <3> DEFINE p == Power(base, k + 2)
    <3>1. p \in Nat /\ p >= 65536
      BY <1>2, <2>2
    <3>2. Power(base, (k + 1) + 2) = base * p
      <4>1. k + 2 \in Nat /\ (k + 2) + 1 = (k + 1) + 2
        OBVIOUS
      <4> QED BY <1>2, <4>1
    <3> HIDE DEF p
    <3>3. base * p >= 65536
      BY <1>1, <3>1
    <3> QED BY <3>2, <3>3
  <2> HIDE DEF T
  <2> QED BY <2>1, <2>2, InductionOn
<1>6. ASSUME NEW k \in Nat, k >= 2 PROVE Power(base, k) >= 65536
  <2>1. k - 2 \in Nat /\ (k - 2) + 2 = k
    BY <1>6
  <2> QED BY <1>5, <2>1
<1> QED BY <1>1, <1>2, <1>4, <1>6


\* The least size in which n fits is the only one that BaseBytes may choose.
LEMMA OneSize ==
  ASSUME NEW n \in Nat, NEW k \in 1..8, Power(256, k - 1) <= n, n < Power(256, k),
         \A s \in 1..8 : s # k => ~(Power(256, s - 1) <= n /\ n < Power(256, s))
  PROVE  BaseBytes(n) = [i \in 1..k |-> (n \div Power(256, k - i)) % 256]
<1> DEFINE Spans(s) == Power(256, s - 1) <= n /\ n < Power(256, s)
           size == CHOOSE s \in 1..8 : Spans(s)
<1>1. BaseBytes(n) = [i \in 1..size |-> (n \div Power(256, size - i)) % 256]
  BY DEF BaseBytes
<1>2. Spans(k) /\ \A s \in 1..8 : s # k => ~Spans(s)
  OBVIOUS
<1>3. size = k
  <2> HIDE DEF Spans
  <2> QED BY <1>2
<1> HIDE DEF size
<1> QED BY <1>1, <1>3

LEMMA OneByte ==
  ASSUME NEW n \in Nat, ~(n < 128), n < 256
  PROVE  BaseBytes(n) = <<n>>
<1>1. \A s \in 1..8 : s # 1 => ~(Power(256, s - 1) <= n)
  <2> SUFFICES ASSUME NEW s \in 1..8, s # 1 PROVE ~(Power(256, s - 1) <= n)
    OBVIOUS
  <2>1. s - 1 = 1 \/ (s - 1 \in Nat /\ s - 1 >= 2)
    OBVIOUS
  <2>2. Power(256, s - 1) = 256 \/ Power(256, s - 1) >= 65536
    BY <2>1, Powers256
  <2>3. Power(256, s - 1) \in Int
    <3>1. s - 1 \in Nat
      OBVIOUS
    <3> QED BY <3>1, PowerStep
  <2> HIDE <2>1
  <2> QED BY <2>2, <2>3
<1>2. Power(256, 1 - 1) = 1 /\ Power(256, 1) = 256
  BY Powers256
<1>3. BaseBytes(n) = [i \in 1..1 |-> (n \div Power(256, 1 - i)) % 256]
  BY <1>1, <1>2, OneSize
<1>4. (n \div 1) % 256 = n
  OBVIOUS
<1>5. \A i \in 1..1 : (n \div Power(256, 1 - i)) % 256 = n
  <2>1. \A i \in 1..1 : Power(256, 1 - i) = 1
    BY <1>2
  <2> QED BY <1>4, <2>1
<1>6. BaseBytes(n) = [i \in 1..1 |-> n]
  BY <1>3, <1>5
<1>7. [i \in 1..1 |-> n] = <<n>>
  OBVIOUS
<1> QED BY <1>6, <1>7

LEMMA TwoBytes ==
  ASSUME NEW n \in Nat, ~(n < 256), n < 65536
  PROVE  BaseBytes(n) = <<n \div 256, n % 256>>
<1>1. \A s \in 1..8 : s # 2 => ~(Power(256, s - 1) <= n /\ n < Power(256, s))
  <2> SUFFICES ASSUME NEW s \in 1..8, s # 2 PROVE ~(Power(256, s - 1) <= n /\ n < Power(256, s))
    OBVIOUS
  <2>1. CASE s = 1
    BY <2>1, Powers256
  <2>2. CASE s # 1
    <3>1. s - 1 \in Nat /\ s - 1 >= 2
      BY <2>2
    <3>2. Power(256, s - 1) >= 65536
      BY <3>1, Powers256
    <3>3. Power(256, s - 1) \in Int
      BY <3>1, PowerStep
    <3> QED BY <3>2, <3>3
  <2> QED BY <2>1, <2>2
<1>2. Power(256, 0) = 1 /\ Power(256, 1) = 256 /\ Power(256, 2) = 65536 /\ 2 - 1 = 1 /\ 2 \in 1..8
  BY Powers256
<1>3. BaseBytes(n) = [i \in 1..2 |-> (n \div Power(256, 2 - i)) % 256]
  BY <1>1, <1>2, OneSize
<1> DEFINE q == n \div 256
           m == n % 256
<1>4. q \in Octet /\ m \in Octet
  BY Halves
<1>5. n \div 1 = n
  OBVIOUS
<1>6. q % 256 = q
  <2> HIDE DEF q
  <2> QED BY <1>4 DEF Octet
<1>7. \A i \in 1..2 : (n \div Power(256, 2 - i)) % 256 = IF i = 1 THEN q ELSE m
  <2>1. CASE TRUE
    <3>1. ASSUME NEW i \in 1..2, i = 1 PROVE Power(256, 2 - i) = 256
      BY <3>1, <1>2
    <3>2. ASSUME NEW i \in 1..2, i # 1 PROVE Power(256, 2 - i) = 1
      BY <3>2, <1>2
    <3> QED BY <1>5, <1>6, <3>1, <3>2
  <2> QED BY <2>1
<1> HIDE DEF q, m
<1>8. BaseBytes(n) = [i \in 1..2 |-> IF i = 1 THEN q ELSE m]
  BY <1>3, <1>7
<1>9. [i \in 1..2 |-> IF i = 1 THEN q ELSE m] = <<q, m>>
  OBVIOUS
<1> QED BY <1>8, <1>9 DEF q, m

LEMMA DefiniteShortest ==
  ASSUME NEW n \in Nat, n < 65536
  PROVE  Definite(n) = Shortest(n)
<1>1. CASE n < 128
  BY <1>1 DEF Definite, Shortest
<1>2. CASE ~(n < 128) /\ n < 256
  <2>1. BaseBytes(n) = <<n>> /\ Len(<<n>>) = 1
    BY <1>2, OneByte
  <2>2. Definite(n) = <<128 + 1>> \o <<n>>
    BY <1>2, <2>1 DEF Definite
  <2>3. Definite(n) = Cons(129, <<n>>)
    BY <2>2 DEF Cons
  <2> QED BY <1>2, <2>3, TwoInRow DEF Shortest
<1>3. CASE ~(n < 128) /\ ~(n < 256)
  <2> DEFINE q == n \div 256
             m == n % 256
  <2>1. BaseBytes(n) = <<q, m>>
    BY <1>3, TwoBytes
  <2>2. Shortest(n) = <<130, q, m>>
    BY <1>3 DEF Shortest
  <2> HIDE DEF q, m
  <2>3. Len(<<q, m>>) = 2
    OBVIOUS
  <2>4. Definite(n) = <<128 + 2>> \o <<q, m>>
    BY <1>3, <2>1, <2>3 DEF Definite
  <2>5. Definite(n) = Cons(130, <<q, m>>)
    BY <2>4 DEF Cons
  <2> QED BY <2>2, <2>5, ThreeInRow
<1> QED BY <1>1, <1>2, <1>3

-----------------------------------------------------------------------------
(* Values. *)

LEMMA TagBytes ==
  /\ \A t \in Tag : t \in Octet /\ t # 0
  /\ \A t \in Tag, r \in Octets : TagOf(Cons(t, r)) = <<t>>
<1>1. ASSUME NEW t \in Tag PROVE t \in Octet /\ t # 0 /\ t % 32 # 31
  <2>1. t \in 1..255 /\ TagNumber(<<t>>) # 31
    BY DEF Tag
  <2>2. <<t>>[1] = t
    OBVIOUS
  <2>3. t % 32 # 31
    BY <2>1, <2>2 DEF TagNumber
  <2> QED BY <2>1, <2>3 DEF Octet
<1>2. ASSUME NEW t \in Tag, NEW r \in Octets PROVE TagOf(Cons(t, r)) = <<t>>
  <2> DEFINE s == Cons(t, r)
  <2>1. s # <<>> /\ s[1] = t
    BY <1>1, FirstBytes
  <2> HIDE DEF s
  <2>2. TagNumber(s) # 31
    BY <1>1, <2>1 DEF TagNumber
  <2>3. TagOf(s) = <<s[1]>>
    BY <2>1, <2>2 DEF TagOf
  <2> QED BY <2>1, <2>3 DEF s
<1> QED BY <1>1, <1>2

LEMMA Behind ==
  ASSUME NEW t \in Octet, NEW r \in Octets
  PROVE  After(Cons(t, r), 1) = r
<1> DEFINE e == <<t>>
<1>1. e \in Octets /\ Len(e) = 1 /\ Glue(e, r) = Cons(t, r)
  BY Sizes, FirstBytes
<1> HIDE DEF e
<1>2. After(Glue(e, r), Len(e)) = r
  BY <1>1, Cuts
<1> QED BY <1>1, <1>2

LEMMA DefiniteValue ==
  ASSUME NEW t \in Tag, NEW x, NEW c, c \in Octets, NEW r, r \in Octets, NEW inner, Sizing(x, Len(c))
  PROVE  Value(Cons(t, Glue(x, Glue(c, r))), inner) = << <<t>>, c, 1 + Len(x) + Len(c) >>
<1> DEFINE body == Glue(x, Glue(c, r))
           b == Cons(t, body)
           h == Cons(t, x)
           l == Len(c)
           k == Len(x)
<1>1. /\ x \in Octets /\ k \in Nat \ {0} /\ l \in Nat /\ t \in Octet
      /\ LengthOf(body) = <<l, k>>
  <2>1. x \in Octets /\ k \in Nat \ {0} /\ \A s \in Octets : LengthOf(Glue(x, s)) = <<l, k>>
    BY DEF Sizing
  <2>2. Glue(c, r) \in Octets /\ l \in Nat
    BY Byteses
  <2> HIDE DEF l, k
  <2> QED BY <2>1, <2>2, TagBytes
<1>2. body \in Octets /\ h \in Octets /\ Len(h) = 1 + k /\ b = Glue(h, Glue(c, r))
  <2>1. Glue(c, r) \in Octets
    BY Byteses
  <2>2. body \in Octets
    BY <1>1, <2>1, Byteses
  <2>3. h \in Octets /\ Len(h) = 1 + k
    <3>1. h \in Octets /\ Len(h) = k + 1
      BY <1>1, Sizes
    <3> QED BY <1>1, <3>1
  <2>4. Glue(h, Glue(c, r)) = b
    BY <1>1, <2>1, FirstBytes
  <2> QED BY <2>2, <2>3, <2>4
<1>3. TagOf(b) = <<t>> /\ After(b, 1) = body
  <2> HIDE DEF body
  <2> QED BY <1>1, <1>2, TagBytes, Behind
<1>4. SubSeq(b, (1 + k) + 1, (1 + k) + l) = c
  <2> HIDE DEF h, b, body
  <2>1. SubSeq(Glue(h, Glue(c, r)), Len(h) + 1, Len(h) + Len(c)) = c
    BY <1>2, Cuts
  <2> QED BY <1>2, <2>1
<1>5. Len(b) = ((1 + k) + l) + Len(r) /\ Len(r) \in Nat
  <2> HIDE DEF h, b, body
  <2>1. Glue(c, r) \in Octets /\ Len(r) \in Nat /\ Len(Glue(c, r)) = l + Len(r)
    BY Byteses, Sizes
  <2>2. Len(Glue(h, Glue(c, r))) = Len(h) + Len(Glue(c, r))
    BY <1>2, <2>1, Sizes
  <2> QED BY <1>1, <1>2, <2>1, <2>2
<1> HIDE DEF b, body, h, l, k
<1>6. Value(b, inner) = << <<t>>, c, (1 + k) + l>>
  <2> DEFINE tag == <<t>>
  <2>1. Len(tag) = 1 /\ tag # <<>>
    OBVIOUS
  <2> HIDE DEF tag
  <2>2. TagOf(b) = tag
    BY <1>3 DEF tag
  <2> DEFINE length == <<l, k>>
  <2>3. length # <<>> /\ length[1] = l /\ length[2] = k /\ l # Indefinite
    BY <1>1 DEF Indefinite
  <2> HIDE DEF length
  <2>4. LengthOf(After(b, 1)) = length
    BY <1>1, <1>3 DEF length
  <2>5. ~(Len(b) < (1 + k) + l)
    BY <1>1, <1>5
  <2>6. Value(b, inner) = <<tag, c, (1 + k) + l>>
    BY <1>4, <2>1, <2>2, <2>3, <2>4, <2>5, Zenon DEF Value
  <2> QED BY <2>6 DEF tag
<1> QED BY <1>6 DEF b, body, l, k

LEMMA EndBytes ==
  /\ EndOfContents \in Octets /\ Len(EndOfContents) = 2
  /\ \A r \in Octets : Starts(Glue(EndOfContents, r), EndOfContents)
  /\ \A s \in Octets : s # <<>> /\ s[1] # 0 => ~Starts(s, EndOfContents)
<1> DEFINE S == Octet
           e == EndOfContents
<1>1. Octets = Seq(S)
  BY DEF Octets, Octet
<1>2. e \in Octets /\ Len(e) = 2 /\ SubSeq(e, 1, 2) = e /\ e[1] = 0
  <2>1. e = <<0, 0>>
    BY DEF EndOfContents
  <2>2. e \in Seq(0..255) /\ Len(e) = 2 /\ e[1] = 0
    BY <2>1
  <2> HIDE DEF e
  <2>3. SubSeq(e, 1, Len(e)) = e
    BY <2>2, SubSeqFull
  <2> QED BY <2>2, <2>3 DEF Octets
<1> HIDE DEF S, e
<1>3. ASSUME NEW r \in Octets PROVE IsPrefix(e, Glue(e, r))
  <2>1. Len(e \o r) = Len(e) + Len(r) /\ SubSeq(e \o r, 1, Len(e)) = e
    <3>1. e \in Seq(S) /\ r \in Seq(S)
      BY <1>1, <1>2
    <3> QED BY <3>1, Apart
  <2>2. Len(r) \in Nat
    BY Byteses
  <2> QED BY <1>2, <2>1, <2>2 DEF IsPrefix, Glue
<1>4. ASSUME NEW s \in Octets, s # <<>>, s[1] # 0 PROVE ~IsPrefix(e, s)
  <2> SUFFICES ASSUME IsPrefix(e, s) PROVE FALSE
    OBVIOUS
  <2>1. 2 <= Len(s) /\ SubSeq(s, 1, 2) = e
    BY <1>2 DEF IsPrefix
  <2>2. SubSeq(s, 1, 2)[1] = s[1]
    BY <1>1, <2>1
  <2> QED BY <1>2, <1>4, <2>1, <2>2
<1> QED BY <1>2, <1>3, <1>4 DEF Starts, e

LEMMA IndefiniteValue ==
  ASSUME NEW t \in Tag, NEW c, c \in Octets, NEW r, r \in Octets, NEW inner,
         inner.extent[Glue(c, Glue(EndOfContents, r))] = Len(c) + 2
  PROVE  Value(Cons(t, Cons(128, Glue(c, Glue(EndOfContents, r)))), inner) = << <<t>>, c, Len(c) + 4 >>
<1> DEFINE rest == Glue(EndOfContents, r)
           body == Glue(c, rest)
           y == Cons(128, body)
           b == Cons(t, y)
           h == Cons(t, <<128>>)
           l == Len(c)
           E(s) == inner.extent[s]
<1>0. E(body) = l + 2
  OBVIOUS
<1> HIDE DEF E
<1>1. rest \in Octets /\ body \in Octets /\ y \in Octets /\ l \in Nat /\ t \in Octet /\ 128 \in Octet
  <2>1. 128 \in Octet
    BY DEF Octet
  <2>2. rest \in Octets
    BY EndBytes, Byteses
  <2>3. body \in Octets /\ l \in Nat
    BY <2>2, Byteses
  <2> QED BY <2>1, <2>2, <2>3, Sizes, TagBytes
<1>2. h \in Octets /\ Len(h) = 2 /\ b = Glue(h, body)
  <2> DEFINE e == <<128>>
  <2>1. e \in Octets /\ Len(e) = 1 /\ Glue(e, body) = y
    BY <1>1, Sizes, FirstBytes
  <2> HIDE DEF e
  <2>2. Cons(t, e) \in Octets /\ Len(Cons(t, e)) = 1 + 1
    <3> HIDE DEF rest, body, y, b, h, l
    <3>1. Cons(t, e) \in Octets /\ Len(Cons(t, e)) = Len(e) + 1
      BY <1>1, <2>1, Sizes
    <3> QED BY <2>1, <3>1
  <2>3. Glue(Cons(t, e), body) = Cons(t, Glue(e, body))
    BY <1>1, <2>1, FirstBytes
  <2> QED BY <2>1, <2>2, <2>3 DEF e
<1>3. TagOf(b) = <<t>> /\ After(b, 1) = y /\ After(b, 2) = body
  <2> HIDE DEF body, y, h
  <2>1. TagOf(b) = <<t>> /\ After(b, 1) = y
    BY <1>1, TagBytes, Behind
  <2>2. After(Glue(h, body), Len(h)) = body
    BY <1>1, <1>2, Cuts
  <2> QED BY <1>2, <2>1, <2>2
<1>4. LengthOf(y) = <<Indefinite, 1>>
  <2>1. y # <<>> /\ y[1] = 128
    BY <1>1, FirstBytes, ZenonT(60)
  <2> HIDE DEF y
  <2> QED BY <2>1 DEF LengthOf
<1>5. SubSeq(b, 2 + 1, 2 + l) = c
  <2> HIDE DEF h, b, rest
  <2>1. SubSeq(Glue(h, Glue(c, rest)), Len(h) + 1, Len(h) + Len(c)) = c
    BY <1>1, <1>2, Cuts
  <2> QED BY <1>2, <2>1
<1> HIDE DEF b, body, y, h, l, rest
<1>6. Value(b, inner) = << <<t>>, c, l + 4>>
  <2> DEFINE tag == <<t>>
             extent == l + 2
  <2>1. Len(tag) = 1 /\ tag # <<>>
    OBVIOUS
  <2> HIDE DEF tag
  <2>2. TagOf(b) = tag
    BY <1>3 DEF tag
  <2> DEFINE length == <<Indefinite, 1>>
  <2>3. length # <<>> /\ length[1] = Indefinite /\ length[2] = 1
    BY DEF Indefinite
  <2> HIDE DEF length
  <2>4. LengthOf(After(b, 1)) = length
    BY <1>3, <1>4 DEF length
  <2>5. inner.extent[After(b, 2)] = extent
    BY <1>0, <1>3 DEF E
  <2>6. extent # 0 /\ 2 + extent - 2 = 2 + l /\ 2 + extent = l + 4 /\ 1 + 1 = 2
    BY <1>1
  <2> HIDE DEF extent
  <2>7. SubSeq(b, 2 + 1, 2 + extent - 2) = c
    BY <1>5, <2>6
  <2>8. Value(b, inner) = <<tag, c, 2 + extent>>
    BY <2>1, <2>2, <2>3, <2>4, <2>5, <2>6, <2>7, Zenon DEF Value
  <2> QED BY <2>6, <2>8 DEF tag
<1> QED BY <1>6 DEF b, body, y, rest, l

-----------------------------------------------------------------------------
(* Values in a row. *)

\* Induction over two lists of the same length, from the front.
LEMMA PairInduction ==
  ASSUME NEW S, NEW Alike, NEW T, << <<>>, <<>> >> \in T,
         \A A, B \in Seq(S) : <<A, B>> \in T =>
           \A x, y \in S : <<x, y>> \in Alike => <<Cons(x, A), Cons(y, B)>> \in T
  PROVE  \A A, B \in Seq(S) :
           Len(A) = Len(B) /\ (\A i \in 1..Len(A) : <<A[i], B[i]>> \in Alike) => <<A, B>> \in T
<1> DEFINE N == {n \in Nat : \A A, B \in Seq(S) :
                   Len(A) = n /\ Len(B) = n /\ (\A i \in 1..n : <<A[i], B[i]>> \in Alike) => <<A, B>> \in T}
<1>1. 0 \in N
  <2> SUFFICES ASSUME NEW A \in Seq(S), NEW B \in Seq(S), Len(A) = 0, Len(B) = 0 PROVE <<A, B>> \in T
    OBVIOUS
  <2>1. A = <<>> /\ B = <<>>
    OBVIOUS
  <2> QED BY <2>1
<1>2. ASSUME NEW n \in Nat, n \in N PROVE n + 1 \in N
  <2> SUFFICES ASSUME NEW A, A \in Seq(S), NEW B, B \in Seq(S), Len(A) = n + 1, Len(B) = n + 1,
                      \A i \in 1..(n + 1) : <<A[i], B[i]>> \in Alike
               PROVE  <<A, B>> \in T
    OBVIOUS
  <2>1. A # <<>> /\ B # <<>>
    OBVIOUS
  <2>2. PICK x \in S, C \in Seq(S) : A = Cons(x, C) /\ Len(A) = Len(C) + 1
    BY <2>1, FirstApart
  <2>3. PICK y \in S, D \in Seq(S) : B = Cons(y, D) /\ Len(B) = Len(D) + 1
    BY <2>1, FirstApart
  <2>4. Len(C) = n /\ Len(D) = n
    <3>1. Len(C) \in Nat /\ Len(D) \in Nat
      OBVIOUS
    <3> QED BY <2>2, <2>3, <3>1
  <2>5. A[1] = x /\ \A i \in 1..n : A[i + 1] = C[i]
    <3>1. Cons(x, C)[1] = x /\ \A i \in 1..Len(C) : Cons(x, C)[i + 1] = C[i]
      BY Places
    <3> QED BY <2>2, <2>4, <3>1
  <2>6. B[1] = y /\ \A i \in 1..n : B[i + 1] = D[i]
    <3>1. Cons(y, D)[1] = y /\ \A i \in 1..Len(D) : Cons(y, D)[i + 1] = D[i]
      BY Places
    <3> QED BY <2>3, <2>4, <3>1
  <2>7. <<x, y>> \in Alike /\ \A i \in 1..n : <<C[i], D[i]>> \in Alike
    <3>1. 1 \in 1..(n + 1) /\ \A i \in 1..n : i + 1 \in 1..(n + 1)
      OBVIOUS
    <3> HIDE DEF N
    <3> QED BY <2>5, <2>6, <3>1
  <2>8. <<C, D>> \in T
    BY <1>2, <2>4, <2>7
  <2> HIDE DEF N
  <2> QED BY <2>2, <2>3, <2>7, <2>8
<1> HIDE DEF N
<1>3. Nat \subseteq N
  BY <1>1, <1>2, InductionOn
<1> QED
  <2> SUFFICES ASSUME NEW A, A \in Seq(S), NEW B, B \in Seq(S), Len(A) = Len(B),
                      \A i \in 1..Len(A) : <<A[i], B[i]>> \in Alike
               PROVE  <<A, B>> \in T
    OBVIOUS
  <2>1. Len(A) \in N
    <3>1. Len(A) \in Nat
      OBVIOUS
    <3> QED BY <1>3, <3>1
  <2> QED BY <2>1 DEF N

LEMMA RowBytes ==
  /\ FlattenSeq(<<>>) = <<>>
  /\ \A A \in Seq(Octets) : FlattenSeq(A) \in Octets
  /\ \A x \in Octets, A \in Seq(Octets) : FlattenSeq(Cons(x, A)) = Glue(x, FlattenSeq(A))
<1> DEFINE S == 0..255
<1>1. Octets = Seq(S)
  BY DEF Octets
<1> HIDE DEF S
<1>2. /\ FlattenSeq(<<>>) = <<>>
      /\ \A A \in Seq(Seq(S)) : FlattenSeq(A) \in Seq(S)
      /\ \A a \in Seq(S), A \in Seq(Seq(S)) : FlattenSeq(Cons(a, A)) = Glue(a, FlattenSeq(A))
  BY Rows
<1> QED BY <1>1, <1>2

\* The bytes b, whatever follows them, are rewritten as d.
Reads(b, d) ==
  /\ b \in Octets /\ d \in Octets /\ b # <<>> /\ b[1] # 0
  /\ \A n \in Nat : n >= 2 * Len(b) + 1 =>
       \A r \in Octets : Reading[n].rewrite[Glue(b, r)] = <<d, Len(b)>>

\* The bytes f are rewritten as g, and found in front of the end of contents.
RowReads(f, g) ==
  /\ f \in Octets /\ g \in Octets
  /\ \A n \in Nat : n >= 2 * Len(f) + 2 =>
       /\ Reading[n].der[f] = <<g>>
       /\ \A r \in Octets : Reading[n].extent[Glue(f, Glue(EndOfContents, r))] = Len(f) + 2

LEMMA NoneReads == RowReads(<<>>, <<>>)
<1> DEFINE e == <<>>
<1>1. e \in Octets /\ Len(e) = 0
  BY Byteses, Sizes
<1>2. ASSUME NEW n \in Nat, n >= 2, NEW r \in Octets
      PROVE  Reading[n].der[e] = <<e>> /\ Reading[n].extent[Glue(e, Glue(EndOfContents, r))] = 2
  <2> DEFINE m == n - 1
             s == Glue(EndOfContents, r)
  <2>1. m \in Nat /\ m + 1 = n
    BY <1>2
  <2>2. s \in Octets /\ Starts(s, EndOfContents) /\ Glue(e, s) = s
    BY EndBytes, Byteses
  <2> HIDE DEF m, s
  <2>3. Reading[m + 1].der[e] = Normalized(e, Reading[m])
    BY <1>1, <2>1, Answering
  <2>4. Reading[m + 1].extent[s] = Extent(s, Reading[m])
    BY <2>1, <2>2, Answering
  <2>5. Normalized(e, Reading[m]) = <<e>>
    BY DEF Normalized
  <2>6. Extent(s, Reading[m]) = 2
    BY <2>2 DEF Extent
  <2> QED BY <2>1, <2>2, <2>3, <2>4, <2>5, <2>6 DEF s
<1> HIDE DEF e
<1>3. RowReads(e, e)
  BY <1>1, <1>2 DEF RowReads
<1> QED BY <1>3 DEF e

LEMMA MoreReads ==
  ASSUME NEW x, NEW y, NEW f, NEW g, Reads(x, y), RowReads(f, g)
  PROVE  RowReads(Glue(x, f), Glue(y, g))
<1> DEFINE b == Glue(x, f)
           d == Glue(y, g)
           k == Len(x)
           l == Len(f)
<1>1. /\ x \in Octets /\ y \in Octets /\ f \in Octets /\ g \in Octets
      /\ x # <<>> /\ x[1] # 0
  BY DEF Reads, RowReads
<1>2. k \in Nat \ {0} /\ l \in Nat /\ b \in Octets /\ d \in Octets /\ Len(b) = k + l
  BY <1>1, Byteses, Sizes
<1>3. \A n \in Nat : n >= 2 * k + 1 => \A r \in Octets : Reading[n].rewrite[Glue(x, r)] = <<y, k>>
  BY DEF Reads
<1>4. \A n \in Nat : n >= 2 * l + 2 =>
        /\ Reading[n].der[f] = <<g>>
        /\ \A r \in Octets : Reading[n].extent[Glue(f, Glue(EndOfContents, r))] = l + 2
  BY DEF RowReads
<1> HIDE DEF k, l
<1>5. ASSUME NEW n \in Nat, n >= 2 * (k + l) + 2, NEW r \in Octets
      PROVE  Reading[n].der[b] = <<d>> /\ Reading[n].extent[Glue(b, Glue(EndOfContents, r))] = (k + l) + 2
  <2> DEFINE m == n - 1
             inner == Reading[m]
             s == Glue(EndOfContents, r)
             t == Glue(f, s)
             u == Glue(x, t)
  <2>1. m \in Nat /\ m + 1 = n /\ m >= 2 * k + 1 /\ m >= 2 * l + 2
    BY <1>2, <1>5
  <2> HIDE DEF m
  <2>2. s \in Octets /\ t \in Octets /\ u \in Octets /\ u = Glue(b, s)
    <3>1. s \in Octets
      BY EndBytes, Byteses
    <3> HIDE DEF s
    <3>2. t \in Octets /\ Glue(b, s) = Glue(x, Glue(f, s))
      BY <1>1, <3>1, Byteses
    <3> HIDE DEF t
    <3>3. Glue(x, t) \in Octets
      BY <1>1, <3>2, Byteses
    <3>4. Glue(b, s) = Glue(x, t)
      BY <3>2 DEF t
    <3> QED BY <3>1, <3>2, <3>3, <3>4
  <2>3. inner.rewrite[b] = <<y, k>> /\ inner.rewrite[u] = <<y, k>>
    <3> HIDE DEF s, t
    <3> QED BY <1>1, <1>3, <2>1, <2>2
  <2>4. inner.der[f] = <<g>> /\ inner.extent[t] = l + 2
    BY <1>4, <2>1
  <2>5. After(b, k) = f /\ After(u, k) = t
    <3> HIDE DEF s, t
    <3> QED BY <1>1, <2>2, Cuts DEF k
  <2>6. b # <<>> /\ ~Starts(u, EndOfContents)
    <3> HIDE DEF s, t
    <3>1. b # <<>> /\ u # <<>> /\ u[1] = x[1]
      BY <1>1, <2>2, FirstBytes
    <3> QED BY <1>1, <2>2, <3>1, EndBytes
  <2>7. Reading[m + 1].der[b] = Normalized(b, inner) /\ Reading[m + 1].extent[u] = Extent(u, inner)
    <3> HIDE DEF b, u
    <3> QED BY <1>2, <2>1, <2>2, Answering
  <2> HIDE DEF inner, b, t, u, s
  <2> DEFINE first == <<y, k>>
  <2>8. first # <<>> /\ first[1] = y /\ first[2] = k /\ <<g>> # <<>> /\ <<g>>[1] = g
    OBVIOUS
  <2>9. inner.rewrite[b] = first /\ inner.rewrite[u] = first
    BY <2>3
  <2> HIDE DEF first
  <2>10. Normalized(b, inner) = <<y \o g>>
    <3>1. inner.der[After(b, first[2])] = <<g>>
      BY <2>4, <2>5, <2>8
    <3> QED BY <2>6, <2>8, <2>9, <3>1, Zenon DEF Normalized
  <2>11. Extent(u, inner) = k + (l + 2)
    <3>1. inner.extent[After(u, first[2])] = l + 2 /\ l + 2 # 0
      BY <1>2, <2>4, <2>5, <2>8
    <3> QED BY <2>6, <2>8, <2>9, <3>1, Zenon DEF Extent
  <2>12. k + (l + 2) = (k + l) + 2
    BY <1>2
  <2> QED BY <2>1, <2>2, <2>7, <2>10, <2>11, <2>12 DEF d, Glue, s
<1> HIDE DEF b, d
<1>6. RowReads(b, d)
  <2>1. EndOfContents \in Octets
    BY EndBytes
  <2> QED BY <1>2, <1>5, <2>1 DEF RowReads
<1> QED BY <1>6 DEF b, d

LEMMA ListReads ==
  ASSUME NEW A, A \in Seq(Octets), NEW B, B \in Seq(Octets), Len(A) = Len(B),
         \A i \in 1..Len(A) : Reads(A[i], B[i])
  PROVE  RowReads(FlattenSeq(A), FlattenSeq(B))
<1> DEFINE Alike == {p \in Octets \X Octets : Reads(p[1], p[2])}
           T == {p \in Seq(Octets) \X Seq(Octets) : RowReads(FlattenSeq(p[1]), FlattenSeq(p[2]))}
<1>1. << <<>>, <<>> >> \in T
  <2>1. <<>> \in Seq(Octets)
    OBVIOUS
  <2> QED BY <2>1, NoneReads, RowBytes
<1>2. ASSUME NEW C, C \in Seq(Octets), NEW D, D \in Seq(Octets), <<C, D>> \in T,
             NEW x, x \in Octets, NEW y, y \in Octets, <<x, y>> \in Alike
      PROVE  <<Cons(x, C), Cons(y, D)>> \in T
  <2>1. Reads(x, y) /\ RowReads(FlattenSeq(C), FlattenSeq(D))
    BY <1>2
  <2>2. RowReads(Glue(x, FlattenSeq(C)), Glue(y, FlattenSeq(D)))
    BY <2>1, MoreReads
  <2>3. FlattenSeq(Cons(x, C)) = Glue(x, FlattenSeq(C)) /\ FlattenSeq(Cons(y, D)) = Glue(y, FlattenSeq(D))
    BY <1>2, RowBytes
  <2>4. Cons(x, C) \in Seq(Octets) /\ Cons(y, D) \in Seq(Octets)
    BY <1>2, Places
  <2> QED BY <2>2, <2>3, <2>4
<1>3. \A i \in 1..Len(A) : <<A[i], B[i]>> \in Alike
  <2> SUFFICES ASSUME NEW i \in 1..Len(A) PROVE <<A[i], B[i]>> \in Alike
    OBVIOUS
  <2>1. Reads(A[i], B[i])
    OBVIOUS
  <2>2. A[i] \in Octets /\ B[i] \in Octets
    BY <2>1 DEF Reads
  <2> QED BY <2>1, <2>2
<1> HIDE DEF T, Alike
<1>4. <<A, B>> \in T
  <2> DEFINE S == Octets
  <2>1. \A C, D \in Seq(S) : <<C, D>> \in T =>
          \A x, y \in S : <<x, y>> \in Alike => <<Cons(x, C), Cons(y, D)>> \in T
    BY <1>2
  <2>2. A \in Seq(S) /\ B \in Seq(S)
    OBVIOUS
  <2> HIDE DEF S
  <2>3. \A C, D \in Seq(S) :
          Len(C) = Len(D) /\ (\A i \in 1..Len(C) : <<C[i], D[i]>> \in Alike) => <<C, D>> \in T
    BY <1>1, <2>1, PairInduction
  <2> QED BY <1>3, <2>2, <2>3
<1> QED BY <1>4 DEF T

-----------------------------------------------------------------------------
(* The forms of a value. *)

\* b is the value of tag t and content c, of a length that is told.
Plain(b, t, c) ==
  /\ b \in Octets /\ b # <<>> /\ b[1] = t /\ Len(b) >= Len(c) + 2
  /\ \A inner : \A r \in Octets : Value(Glue(b, r), inner) = << <<t>>, c, Len(b) >>
  /\ \A r \in Octets : LengthOf(After(Glue(b, r), 1)) = <<Len(c), Len(b) - 1 - Len(c)>>

\* b is the value of tag t and content c, whose end may have to be looked for.
Wrapped(b, t, c) ==
  /\ b \in Octets /\ b # <<>> /\ b[1] = t /\ Len(b) >= Len(c) + 2
  /\ \A inner :
       (\A r \in Octets : inner.extent[Glue(c, Glue(EndOfContents, r))] = Len(c) + 2) =>
         \A r \in Octets : Value(Glue(b, r), inner) = << <<t>>, c, Len(b) >>

LEMMA PlainWrapped == \A b, t, c : Plain(b, t, c) => Wrapped(b, t, c)
BY DEF Plain, Wrapped

LEMMA DefiniteForm ==
  ASSUME NEW t \in Tag, NEW x, NEW c, c \in Octets, Sizing(x, Len(c))
  PROVE  Plain(Cons(t, Glue(x, c)), t, c)
<1> DEFINE y == Glue(x, c)
           b == Cons(t, y)
           k == Len(x)
           l == Len(c)
<1>1. x \in Octets /\ k \in Nat \ {0} /\ \A r \in Octets : LengthOf(Glue(x, r)) = <<l, k>>
  BY DEF Sizing
<1>2. t \in Octet /\ l \in Nat /\ y \in Octets /\ b \in Octets /\ Len(b) = 1 + k + l /\ b # <<>> /\ b[1] = t
  <2>1. t \in Octet /\ l \in Nat /\ y \in Octets
    BY <1>1, TagBytes, Byteses
  <2>2. Len(y) = k + l
    BY <1>1, Sizes
  <2> HIDE DEF y, k, l
  <2>3. b \in Octets /\ Len(b) = Len(y) + 1 /\ b # <<>> /\ b[1] = t
    BY <2>1, Sizes, FirstBytes
  <2> HIDE DEF b
  <2> QED BY <1>1, <2>1, <2>2, <2>3
<1>3. ASSUME NEW r, r \in Octets
      PROVE  Glue(c, r) \in Octets /\ Glue(y, r) = Glue(x, Glue(c, r)) /\ Glue(b, r) = Cons(t, Glue(x, Glue(c, r)))
             /\ Glue(x, Glue(c, r)) \in Octets
  <2>1. Glue(c, r) \in Octets /\ Glue(y, r) = Glue(x, Glue(c, r))
    BY <1>1, <1>3, Byteses
  <2>2. Glue(x, Glue(c, r)) \in Octets
    BY <1>1, <2>1, Byteses
  <2>3. Glue(b, r) = Cons(t, Glue(y, r))
    <3> HIDE DEF y
    <3> QED BY <1>2, <1>3, FirstBytes
  <2> QED BY <2>1, <2>2, <2>3
<1>4. ASSUME NEW inner, NEW r, r \in Octets PROVE Value(Glue(b, r), inner) = << <<t>>, c, Len(b) >>
  <2>1. Value(Cons(t, Glue(x, Glue(c, r))), inner) = << <<t>>, c, 1 + Len(x) + Len(c) >>
    BY <1>4, DefiniteValue
  <2> HIDE DEF b, y
  <2> QED BY <1>2, <1>3, <1>4, <2>1
<1>5. ASSUME NEW r, r \in Octets PROVE LengthOf(After(Glue(b, r), 1)) = <<l, Len(b) - 1 - l>>
  <2> DEFINE s == Glue(x, Glue(c, r))
  <2>1. s \in Octets /\ Glue(b, r) = Cons(t, s)
    BY <1>3, <1>5
  <2>2. LengthOf(s) = <<l, k>>
    BY <1>1, <1>3, <1>5
  <2> HIDE DEF s
  <2>3. After(Cons(t, s), 1) = s
    BY <1>2, <2>1, Behind
  <2>4. Len(b) - 1 - l = k
    <3> HIDE DEF b, k, l
    <3> QED BY <1>1, <1>2
  <2> QED BY <2>1, <2>2, <2>3, <2>4
<1> HIDE DEF b
<1>6. Len(b) >= Len(c) + 2
  <2> HIDE DEF k
  <2> QED BY <1>1, <1>2
<1> HIDE DEF k
<1>7. Plain(b, t, c)
  BY <1>2, <1>4, <1>5, <1>6 DEF Plain
<1> QED BY <1>7 DEF b

LEMMA IndefiniteForm ==
  ASSUME NEW t \in Tag, NEW c, c \in Octets
  PROVE  Wrapped(Cons(t, Cons(128, Glue(c, EndOfContents))), t, c)
<1> DEFINE y == Glue(c, EndOfContents)
           z == Cons(128, y)
           b == Cons(t, z)
           l == Len(c)
<1>1. t \in Octet /\ 128 \in Octet /\ l \in Nat /\ y \in Octets /\ Len(y) = l + 2
  <2>1. Len(y) = l + Len(EndOfContents)
    BY EndBytes, Sizes
  <2> QED BY <2>1, TagBytes, EndBytes, Byteses DEF Octet
<1>2. z \in Octets /\ b \in Octets /\ b # <<>> /\ b[1] = t /\ Len(b) = l + 4
  <2> HIDE DEF y
  <2>1. z \in Octets /\ Len(z) = Len(y) + 1
    BY <1>1, Sizes
  <2> HIDE DEF z
  <2>2. b \in Octets /\ Len(b) = Len(z) + 1 /\ b # <<>> /\ b[1] = t
    BY <1>1, <2>1, Sizes, FirstBytes
  <2> HIDE DEF b, l
  <2> QED BY <1>1, <2>1, <2>2
<1>3. ASSUME NEW inner, \A r \in Octets : inner.extent[Glue(c, Glue(EndOfContents, r))] = Len(c) + 2,
             NEW r, r \in Octets
      PROVE  Value(Glue(b, r), inner) = << <<t>>, c, Len(b) >>
  <2>1. Glue(y, r) = Glue(c, Glue(EndOfContents, r))
    BY <1>3, EndBytes, Byteses
  <2>2. Glue(b, r) = Cons(t, Cons(128, Glue(c, Glue(EndOfContents, r))))
    <3> HIDE DEF y
    <3>1. Glue(z, r) = Cons(128, Glue(y, r))
      BY <1>1, <1>3, FirstBytes
    <3> HIDE DEF z
    <3>2. Glue(b, r) = Cons(t, Glue(z, r))
      BY <1>1, <1>2, <1>3, FirstBytes
    <3> QED BY <2>1, <3>1, <3>2
  <2>3. Value(Cons(t, Cons(128, Glue(c, Glue(EndOfContents, r)))), inner) = << <<t>>, c, Len(c) + 4 >>
    BY <1>3, IndefiniteValue
  <2> HIDE DEF b
  <2> QED BY <1>2, <2>2, <2>3
<1> HIDE DEF b
<1>4. Wrapped(b, t, c)
  BY <1>1, <1>2, <1>3 DEF Wrapped
<1> QED BY <1>4 DEF b

\* A length takes no more than two bytes.
Brief(c) == Len(c) < 65536

LEMMA FormOf ==
  ASSUME NEW t \in Tag, NEW c, c \in Octets, Brief(c)
  PROVE  /\ Plain(Short(t, c), t, c) /\ Tlv(<<t>>, c) = Short(t, c)
         /\ \A form : /\ Wrapped(InForm(form, t, c), t, c)
                      /\ ~Constructed(<<t>>) => Plain(InForm(form, t, c), t, c)
<1> DEFINE n == Len(c)
           e == <<t>>
<1>0. n \in Nat /\ n < 65536 /\ t \in Octet /\ e \in Octets
  BY Byteses, TagBytes, Sizes DEF Brief
<1>1. Sizing(Shortest(n), n) /\ Sizing(Long(n), n) /\ Definite(n) = Shortest(n)
  <2> HIDE DEF n
  <2> QED BY <1>0, ShortSizing, DefiniteShortest
<1>2. ASSUME NEW x, Sizing(x, n) PROVE Plain(Glue(Glue(e, x), c), t, c)
  <2>1. x \in Octets
    BY <1>2 DEF Sizing
  <2>2. Glue(Glue(e, x), c) = Glue(e, Glue(x, c)) /\ Glue(x, c) \in Octets
    BY <1>0, <2>1, Byteses
  <2>3. Glue(e, Glue(x, c)) = Cons(t, Glue(x, c))
    BY <1>0, <2>2, FirstBytes
  <2>4. Plain(Cons(t, Glue(x, c)), t, c)
    BY <1>2, DefiniteForm
  <2> HIDE DEF e
  <2> QED BY <2>2, <2>3, <2>4
<1>3. Plain(Short(t, c), t, c)
  <2>1. Short(t, c) = Glue(Glue(e, Shortest(n)), c)
    BY DEF Short, Glue
  <2> HIDE DEF e, n
  <2> QED BY <1>1, <1>2, <2>1
<1>4. Tlv(<<t>>, c) = Short(t, c)
  BY <1>1 DEF Tlv, Short
<1>5. Plain(Glue(Glue(e, Long(n)), c), t, c)
  <2> HIDE DEF e, n
  <2> QED BY <1>1, <1>2
<1>6. Wrapped(Glue(Glue(<<t, 128>>, c), EndOfContents), t, c)
  <2> DEFINE h == <<t, 128>>
             f == <<128>>
  <2>1. f \in Octets /\ EndOfContents \in Octets /\ 128 \in Octet
    BY Sizes, EndBytes DEF Octet
  <2>2. h = Cons(t, f)
    BY TwoInRow
  <2> HIDE DEF h
  <2>3. Glue(h, c) = Cons(t, Glue(f, c)) /\ Glue(f, c) = Cons(128, c)
    <3> HIDE DEF f
    <3>1. Glue(Cons(t, f), c) = Cons(t, Glue(f, c))
      BY <1>0, <2>1, FirstBytes
    <3>2. Glue(f, c) = Cons(128, c)
      BY <2>1, FirstBytes DEF f
    <3> QED BY <2>2, <3>1, <3>2
  <2>4. Glue(Glue(h, c), EndOfContents) = Cons(t, Cons(128, Glue(c, EndOfContents)))
    <3> DEFINE g == Cons(128, c)
    <3>1. g \in Octets
      BY <2>1, Sizes
    <3>2. Glue(g, EndOfContents) = Cons(128, Glue(c, EndOfContents))
      BY <2>1, FirstBytes
    <3> HIDE DEF g
    <3>3. Glue(Cons(t, g), EndOfContents) = Cons(t, Glue(g, EndOfContents))
      BY <1>0, <2>1, <3>1, FirstBytes
    <3> QED BY <2>3, <3>2, <3>3 DEF g
  <2>5. Wrapped(Cons(t, Cons(128, Glue(c, EndOfContents))), t, c)
    BY IndefiniteForm
  <2> QED BY <2>4, <2>5 DEF h
<1>7. ASSUME NEW form
      PROVE  /\ Wrapped(InForm(form, t, c), t, c)
             /\ ~Constructed(<<t>>) => Plain(InForm(form, t, c), t, c)
  <2>1. CASE form = "short"
    BY <1>3, <2>1, PlainWrapped DEF InForm
  <2>2. CASE form = "indefinite" /\ Constructed(<<t>>)
    <3>1. form # "short"
      BY <2>2
    <3>2. InForm(form, t, c) = Glue(Glue(<<t, 128>>, c), EndOfContents)
      BY <2>2, <3>1 DEF InForm, Glue
    <3> QED BY <1>6, <2>2, <3>2
  <2>3. CASE form # "short" /\ ~(form = "indefinite" /\ Constructed(<<t>>))
    <3>1. InForm(form, t, c) = Glue(Glue(e, Long(n)), c)
      BY <2>3 DEF InForm, Glue
    <3> HIDE DEF e, n
    <3> QED BY <1>5, <3>1, PlainWrapped
  <2> QED BY <2>1, <2>2, <2>3
<1> QED BY <1>3, <1>4, <1>7

-----------------------------------------------------------------------------
(* Values of each kind. *)

\* What a call answers of bytes that are one value in front of others.
LEMMA RewriteOf ==
  ASSUME NEW b, NEW t, t # 0, NEW c, NEW d, NEW inner, NEW s, s \in Octets, s # <<>>, s[1] = t,
         Value(s, inner) = << <<t>>, c, Len(b) >>, Der(<<t>>, c, inner) = <<d>>
  PROVE  Rewrite(s, inner) = <<d, Len(b)>>
<1>1. ~Starts(s, EndOfContents)
  BY EndBytes
<1> DEFINE e == <<t>>
           v == <<e, c, Len(b)>>
           der == <<d>>
<1>2. v # <<>> /\ v[1] = e /\ v[2] = c /\ v[3] = Len(b) /\ der # <<>> /\ der[1] = d
  OBVIOUS
<1>3. Value(s, inner) = v /\ Der(e, c, inner) = der
  OBVIOUS
<1> HIDE DEF v, der, e
<1> QED BY <1>1, <1>2, <1>3, Zenon DEF Rewrite

LEMMA ReadsFrom ==
  ASSUME NEW b, NEW t \in Tag, NEW c, c \in Octets, NEW d, d \in Octets, Wrapped(b, t, c),
         \A n \in Nat : n >= 2 * Len(c) + 2 =>
           /\ \A r \in Octets : Reading[n].extent[Glue(c, Glue(EndOfContents, r))] = Len(c) + 2
           /\ Der(<<t>>, c, Reading[n]) = <<d>>
  PROVE  Reads(b, d)
<1>1. b \in Octets /\ b # <<>> /\ b[1] = t /\ t # 0 /\ Len(b) >= Len(c) + 2
  BY TagBytes DEF Wrapped
<1>2. Len(b) \in Nat /\ Len(c) \in Nat
  BY <1>1, Byteses
<1>3. ASSUME NEW n \in Nat, n >= 2 * Len(b) + 1, NEW r, r \in Octets
      PROVE  Reading[n].rewrite[Glue(b, r)] = <<d, Len(b)>>
  <2> DEFINE m == n - 1
             s == Glue(b, r)
  <2>1. m \in Nat /\ m + 1 = n /\ m >= 2 * Len(c) + 2
    BY <1>1, <1>2, <1>3
  <2>2. s \in Octets /\ s # <<>> /\ s[1] = t
    <3>1. s \in Octets
      BY <1>1, <1>3, Byteses
    <3> QED BY <1>1, <1>3, <3>1, FirstBytes
  <2> HIDE DEF m
  <2> DEFINE inner == Reading[m]
  <2>3. /\ \A q \in Octets : inner.extent[Glue(c, Glue(EndOfContents, q))] = Len(c) + 2
        /\ Der(<<t>>, c, inner) = <<d>>
    BY <2>1
  <2> HIDE DEF inner
  <2>4. Value(s, inner) = << <<t>>, c, Len(b) >>
    BY <1>3, <2>3 DEF Wrapped
  <2> HIDE DEF s
  <2>5. Rewrite(s, inner) = <<d, Len(b)>>
    BY <1>1, <2>2, <2>3, <2>4, RewriteOf
  <2>6. Reading[m + 1].rewrite[s] = Rewrite(s, inner)
    BY <2>1, <2>2, Answering DEF inner
  <2> QED BY <2>1, <2>5, <2>6 DEF s
<1> QED BY <1>1, <1>3 DEF Reads

LEMMA PlainReads ==
  ASSUME NEW b, NEW t \in Tag, NEW c, c \in Octets, Brief(c), ~Constructed(<<t>>), Plain(b, t, c)
  PROVE  Reads(b, Short(t, c))
<1>1. Short(t, c) \in Octets /\ Tlv(<<t>>, c) = Short(t, c)
  BY FormOf DEF Plain
<1>2. b \in Octets /\ b # <<>> /\ b[1] = t /\ t # 0
  BY TagBytes DEF Plain
<1>3. ASSUME NEW inner PROVE Der(<<t>>, c, inner) = <<Short(t, c)>>
  <2> DEFINE e == <<t>>
             d == Short(t, c)
  <2>1. ~Constructed(e) /\ Tlv(e, c) = d
    BY <1>1
  <2> HIDE DEF e, d
  <2>2. Der(e, c, inner) = <<d>>
    BY <2>1 DEF Der
  <2> QED BY <2>2 DEF e, d
<1>4. ASSUME NEW n \in Nat, n >= 2 * Len(b) + 1, NEW r, r \in Octets
      PROVE  Reading[n].rewrite[Glue(b, r)] = <<Short(t, c), Len(b)>>
  <2> DEFINE m == n - 1
             s == Glue(b, r)
  <2>1. m \in Nat /\ m + 1 = n
    <3>1. Len(b) \in Nat
      BY <1>2, Byteses
    <3> QED BY <1>4, <3>1
  <2>2. s \in Octets /\ s # <<>> /\ s[1] = t
    <3>1. s \in Octets
      BY <1>2, <1>4, Byteses
    <3> QED BY <1>2, <1>4, <3>1, FirstBytes
  <2> HIDE DEF m
  <2> DEFINE inner == Reading[m]
             d == Short(t, c)
  <2> HIDE DEF inner
  <2>3. Der(<<t>>, c, inner) = <<d>>
    BY <1>3
  <2>4. Value(s, inner) = << <<t>>, c, Len(b) >>
    BY <1>4 DEF Plain
  <2> HIDE DEF s, d
  <2>5. Rewrite(s, inner) = <<d, Len(b)>>
    BY <1>2, <2>2, <2>3, <2>4, RewriteOf
  <2>6. Reading[m + 1].rewrite[s] = Rewrite(s, inner)
    BY <2>1, <2>2, Answering DEF inner
  <2> QED BY <2>1, <2>5, <2>6 DEF s, d
<1> QED BY <1>1, <1>2, <1>4 DEF Reads

LEMMA NodeReads ==
  ASSUME NEW b, NEW t \in NodeTag, NEW c, NEW g, RowReads(c, g), Brief(g), Wrapped(b, t, c),
         \A n \in Nat : ~ImplicitOctets(<<t>>, c, Reading[n])
  PROVE  Reads(b, Short(t, g))
<1>1. t \in Tag /\ Constructed(<<t>>) /\ ~Segmented(<<t>>)
  BY DEF NodeTag
<1>2. c \in Octets /\ g \in Octets
  BY DEF RowReads
<1>3. Short(t, g) \in Octets /\ Tlv(<<t>>, g) = Short(t, g)
  BY <1>1, <1>2, FormOf DEF Plain
<1>4. ASSUME NEW n \in Nat, n >= 2 * Len(c) + 2
      PROVE  /\ \A r \in Octets : Reading[n].extent[Glue(c, Glue(EndOfContents, r))] = Len(c) + 2
             /\ Der(<<t>>, c, Reading[n]) = <<Short(t, g)>>
  <2>1. /\ Reading[n].der[c] = <<g>>
        /\ \A r \in Octets : Reading[n].extent[Glue(c, Glue(EndOfContents, r))] = Len(c) + 2
    BY <1>4 DEF RowReads
  <2> DEFINE e == <<t>>
             inner == Reading[n]
             d == Short(t, g)
             der == <<g>>
  <2>2. der # <<>> /\ der[1] = g
    OBVIOUS
  <2>3. Constructed(e) /\ ~Segmented(e) /\ ~ImplicitOctets(e, c, inner) /\ Tlv(e, g) = d /\ inner.der[c] = der
    BY <1>1, <1>3, <2>1
  <2> HIDE DEF e, inner, d, der
  <2>4. Der(e, c, inner) = <<d>>
    BY <2>2, <2>3 DEF Der
  <2> QED BY <2>1, <2>4 DEF e, inner, d
<1> QED BY <1>1, <1>2, <1>3, <1>4, ReadsFrom

LEMMA StringTags ==
  ASSUME NEW t \in StringTag
  PROVE  /\ t \in Tag /\ ~Constructed(<<t>>) /\ t + 32 \in Tag /\ t + 32 # OctetString
         /\ Constructed(<<t + 32>>) /\ Primitive(<<t + 32>>) = <<t>>
         /\ t = OctetString => Segmented(<<t + 32>>) /\ TagNumber(<<t + 32>>) = OctetString
         /\ t # OctetString => ~Segmented(<<t + 32>>) /\ Class(<<t + 32>>) = ContextSpecific
<1>1. /\ t \in 1..255 /\ t % 32 # 31 /\ ~((t \div 32) % 2 = 1)
      /\ t = 4 \/ t \div 64 = 2
  <2>1. <<t>>[1] = t
    OBVIOUS
  <2>2. t \in Tag /\ ~Constructed(<<t>>) /\ (t = OctetString \/ Class(<<t>>) = ContextSpecific)
    BY DEF StringTag, AtomTag
  <2>3. t \in 1..255 /\ TagNumber(<<t>>) # 31
    BY <2>2 DEF Tag
  <2> HIDE DEF Tag
  <2> QED BY <2>1, <2>2, <2>3 DEF TagNumber, Constructed, Class, OctetString, ContextSpecific
<1> DEFINE u == t + 32
<1>2. /\ u \in 1..255 /\ u % 32 # 31 /\ (u \div 32) % 2 = 1 /\ u - 32 = t /\ u # 4
      /\ t = 4 => u \div 64 = 0 /\ u % 32 = 4
      /\ t # 4 => u \div 64 = 2
  BY <1>1
<1>3. <<u>>[1] = u /\ <<t>>[1] = t
  OBVIOUS
<1> HIDE DEF u
<1>4. /\ t \in Tag /\ ~Constructed(<<t>>) /\ u \in Tag
      /\ Constructed(<<u>>) /\ Primitive(<<u>>) = <<t>>
  BY <1>1, <1>2, <1>3 DEF Tag, TagNumber, Constructed, Primitive
<1>5. t = OctetString => Segmented(<<u>>) /\ TagNumber(<<u>>) = OctetString
  BY <1>2, <1>3 DEF Segmented, Class, Universal, TagNumber, OctetString
<1>6. t # OctetString => ~Segmented(<<u>>) /\ Class(<<u>>) = ContextSpecific
  BY <1>2, <1>3 DEF Segmented, Class, Universal, ContextSpecific, OctetString
<1> QED BY <1>2, <1>4, <1>5, <1>6 DEF u, OctetString

\* A string in segments s, of which the bytes are c.
LEMMA StringReads ==
  ASSUME NEW b, NEW t \in StringTag, NEW s, s \in Octets, NEW c, c \in Octets, Brief(c),
         Wrapped(b, t + 32, s),
         \A n \in Nat : n >= 2 * Len(s) + 2 =>
           /\ \A r \in Octets : Reading[n].extent[Glue(s, Glue(EndOfContents, r))] = Len(s) + 2
           /\ Reading[n].flat[OctetString][s] = <<c>>
           /\ t # OctetString => Reading[n].octets[s]
  PROVE  Reads(b, Short(t, c))
<1> DEFINE u == t + 32
<1>1. /\ t \in Tag /\ ~Constructed(<<t>>) /\ u \in Tag /\ Constructed(<<u>>) /\ Primitive(<<u>>) = <<t>>
      /\ t = OctetString => Segmented(<<u>>) /\ TagNumber(<<u>>) = OctetString
      /\ t # OctetString => ~Segmented(<<u>>) /\ Class(<<u>>) = ContextSpecific
  BY StringTags
<1>2. Short(t, c) \in Octets /\ Tlv(<<t>>, c) = Short(t, c)
  BY <1>1, FormOf DEF Plain
<1>3. Wrapped(b, u, s)
  OBVIOUS
<1> HIDE DEF u
<1>4. ASSUME NEW n \in Nat, n >= 2 * Len(s) + 2
      PROVE  /\ \A r \in Octets : Reading[n].extent[Glue(s, Glue(EndOfContents, r))] = Len(s) + 2
             /\ Der(<<u>>, s, Reading[n]) = <<Short(t, c)>>
  <2>1. /\ \A r \in Octets : Reading[n].extent[Glue(s, Glue(EndOfContents, r))] = Len(s) + 2
        /\ Reading[n].flat[OctetString][s] = <<c>>
        /\ t # OctetString => Reading[n].octets[s]
    BY <1>4
  <2> DEFINE e == <<u>>
             p == <<t>>
             inner == Reading[n]
             d == Short(t, c)
             flat == <<c>>
  <2>2. flat # <<>> /\ flat[1] = c
    OBVIOUS
  <2>3. Constructed(e) /\ Primitive(e) = p /\ Tlv(p, c) = d /\ inner.flat[OctetString][s] = flat
    BY <1>1, <1>2, <2>1
  <2>4. (IF Segmented(e) THEN TagNumber(e) ELSE OctetString) = OctetString
    BY <1>1
  <2>5. Segmented(e) \/ ImplicitOctets(e, s, inner)
    BY <1>1, <2>1 DEF ImplicitOctets
  <2> HIDE DEF e, p, inner, d, flat
  <2>6. Der(e, s, inner) = <<d>>
    BY <2>2, <2>3, <2>4, <2>5 DEF Der
  <2> QED BY <2>1, <2>6 DEF e, inner, d
<1> QED BY <1>1, <1>2, <1>3, <1>4, ReadsFrom

-----------------------------------------------------------------------------
(* Strings in segments. *)

LEMMA OctetTag ==
  /\ OctetString \in StringTag /\ OctetString \in Tag /\ ~Constructed(<<OctetString>>)
  /\ Class(<<OctetString>>) = Universal /\ TagNumber(<<OctetString>>) = OctetString
  /\ OctetString + 32 \in Tag /\ Constructed(<<OctetString + 32>>)
  /\ Class(<<OctetString + 32>>) = Universal /\ TagNumber(<<OctetString + 32>>) = OctetString
<1>1. <<4>>[1] = 4 /\ <<36>>[1] = 36
  OBVIOUS
<1>2. 4 \div 64 = 0 /\ 4 % 32 = 4 /\ ~((4 \div 32) % 2 = 1) /\ 36 \div 64 = 0 /\ 36 % 32 = 4 /\ (36 \div 32) % 2 = 1
  OBVIOUS
<1>3. /\ ~Constructed(<<4>>) /\ Class(<<4>>) = 0 /\ TagNumber(<<4>>) = 4
      /\ Constructed(<<36>>) /\ Class(<<36>>) = 0 /\ TagNumber(<<36>>) = 4
  BY <1>1, <1>2 DEF Constructed, Class, TagNumber
<1>4. 4 \in Tag /\ 36 \in Tag
  BY <1>3 DEF Tag
<1> QED BY <1>3, <1>4 DEF StringTag, AtomTag, OctetString, Universal

\* s is a segment whose bytes are c.
Segment(s, c) ==
  /\ s \in Octets /\ c \in Octets /\ Reads(s, Short(OctetString, c))
  /\ \A n \in Nat : n >= 2 * Len(s) + 1 =>
       \A r, more \in Octets :
         Reading[n].flat[OctetString][r] = <<more>> =>
           Reading[n + 1].flat[OctetString][Glue(s, r)] = <<Glue(c, more)>>

LEMMA NoSegments == \A n \in Nat : n >= 1 => Reading[n].flat[OctetString][<<>>] = << <<>> >>
<1> SUFFICES ASSUME NEW n \in Nat, n >= 1 PROVE Reading[n].flat[OctetString][<<>>] = << <<>> >>
  OBVIOUS
<1> DEFINE m == n - 1
           e == <<>>
<1>1. m \in Nat /\ m + 1 = n /\ e \in Octets
  BY Byteses
<1> HIDE DEF m, e
<1>2. Reading[m + 1].flat[OctetString][e] = Flatten(OctetString, e, Reading[m])
  BY <1>1, Answering
<1>3. Flatten(OctetString, e, Reading[m]) = <<e>>
  BY DEF Flatten, e
<1> QED BY <1>1, <1>2, <1>3 DEF e

\* What a segment of tag t and content c adds to its string.
Adds(t, c, inner) == IF Constructed(<<t>>) THEN inner.flat[OctetString][c] ELSE <<c>>

LEMMA FlattenOf ==
  ASSUME NEW t, Class(<<t>>) = Universal, TagNumber(<<t>>) = OctetString,
         NEW s, NEW c, NEW k, NEW inner, s # <<>>, Value(s, inner) = << <<t>>, c, k >>,
         NEW mine, Adds(t, c, inner) = <<mine>>,
         NEW more, inner.flat[OctetString][After(s, k)] = <<more>>
  PROVE  Flatten(OctetString, s, inner) = <<Glue(mine, more)>>
<1> DEFINE e == <<t>>
           v == <<e, c, k>>
           x == <<mine>>
           y == <<more>>
<1>1. v # <<>> /\ v[1] = e /\ v[2] = c /\ v[3] = k /\ x # <<>> /\ x[1] = mine /\ y # <<>> /\ y[1] = more
  OBVIOUS
<1>2. /\ Class(e) = Universal /\ TagNumber(e) = OctetString /\ Value(s, inner) = v
      /\ (IF Constructed(e) THEN inner.flat[OctetString][c] ELSE <<c>>) = x
      /\ inner.flat[OctetString][After(s, k)] = y
  BY DEF Adds
<1> HIDE DEF e, v, x, y
<1>3. Flatten(OctetString, s, inner) = <<mine \o more>>
  BY <1>1, <1>2 DEF Flatten
<1> QED BY <1>3 DEF Glue

\* The segments r hold the bytes c.
Holding(n, r, c) == Reading[n].flat[OctetString][r] = <<c>>

\* In front of r, s is a segment of tag t and content c, and adds mine.
Found(n, s, r, t, c, mine) ==
  Value(Glue(s, r), Reading[n]) = << <<t>>, c, Len(s) >> /\ Adds(t, c, Reading[n]) = <<mine>>

LEMMA SegmentStep ==
  ASSUME NEW t \in {OctetString, OctetString + 32},
         NEW s, s \in Octets, s # <<>>, NEW c, NEW mine, NEW n \in Nat,
         NEW r, r \in Octets, NEW more, Holding(n, r, more), Found(n, s, r, t, c, mine)
  PROVE  Holding(n + 1, Glue(s, r), Glue(mine, more))
<1> DEFINE b == Glue(s, r)
           k == Len(s)
           inner == Reading[n]
<1>1. b \in Octets /\ b # <<>> /\ After(b, k) = r
  BY Byteses, FirstBytes, Cuts
<1>2. Reading[n + 1].flat[OctetString][b] = Flatten(OctetString, b, inner)
  <2> HIDE DEF b
  <2> QED BY <1>1, Answering
<1> HIDE DEF b, k
<1>3. Value(b, inner) = << <<t>>, c, k >> /\ inner.flat[OctetString][After(b, k)] = <<more>>
  BY <1>1 DEF b, k, Found, Holding
<1> HIDE DEF inner
<1>4. Adds(t, c, inner) = <<mine>>
  BY DEF inner, Found
<1>5. Class(<<t>>) = Universal /\ TagNumber(<<t>>) = OctetString
  BY OctetTag
<1>6. Flatten(OctetString, b, inner) = <<Glue(mine, more)>>
  BY <1>1, <1>3, <1>4, <1>5, FlattenOf
<1> QED BY <1>2, <1>6 DEF b, inner, Holding

LEMMA PlainSegment ==
  ASSUME NEW s, NEW c, c \in Octets, Brief(c), Plain(s, OctetString, c)
  PROVE  Segment(s, c)
<1>1. s \in Octets /\ s # <<>>
  BY DEF Plain
<1>2. Reads(s, Short(OctetString, c))
  BY OctetTag, PlainReads
<1>3. ASSUME NEW n \in Nat, NEW r, r \in Octets, NEW more, more \in Octets,
             Reading[n].flat[OctetString][r] = <<more>>
      PROVE  Reading[n + 1].flat[OctetString][Glue(s, r)] = <<Glue(c, more)>>
  <2>1. Value(Glue(s, r), Reading[n]) = << <<OctetString>>, c, Len(s) >>
    BY <1>3 DEF Plain
  <2>2. Adds(OctetString, c, Reading[n]) = <<c>>
    BY OctetTag DEF Adds
  <2> DEFINE t == OctetString
  <2>3. t \in {OctetString, OctetString + 32}
    OBVIOUS
  <2>4. Value(Glue(s, r), Reading[n]) = << <<t>>, c, Len(s) >> /\ Adds(t, c, Reading[n]) = <<c>>
    BY <2>1, <2>2
  <2> HIDE DEF t
  <2>5. Found(n, s, r, t, c, c) /\ Holding(n, r, more)
    BY <1>3, <2>4 DEF Found, Holding
  <2>6. Holding(n + 1, Glue(s, r), Glue(c, more))
    BY <1>1, <1>3, <2>3, <2>5, SegmentStep
  <2> QED BY <2>6 DEF Holding
<1> QED BY <1>1, <1>2, <1>3 DEF Segment

LEMMA SegmentAlone ==
  ASSUME NEW s, NEW c, Segment(s, c), NEW n \in Nat, n >= 2 * Len(s) + 2
  PROVE  /\ Reading[n].flat[OctetString][s] = <<c>>
         /\ \A r \in Octets : Reading[n].extent[Glue(s, Glue(EndOfContents, r))] = Len(s) + 2
<1>1. s \in Octets /\ c \in Octets /\ Reads(s, Short(OctetString, c)) /\ Len(s) \in Nat
  BY Byteses DEF Segment
<1>2. RowReads(s, Glue(Short(OctetString, c), <<>>))
  <2>1. Glue(s, <<>>) = s
    BY <1>1, Byteses
  <2>2. RowReads(Glue(s, <<>>), Glue(Short(OctetString, c), <<>>))
    BY <1>1, NoneReads, MoreReads
  <2> QED BY <2>1, <2>2
<1>3. Reading[n].flat[OctetString][s] = <<c>>
  <2> DEFINE m == n - 1
             e == <<>>
  <2>1. m \in Nat /\ m + 1 = n /\ m >= 2 * Len(s) + 1 /\ m >= 1
    BY <1>1
  <2>2. e \in Octets /\ Glue(s, e) = s /\ Glue(c, e) = c
    BY <1>1, Byteses
  <2>3. Reading[m].flat[OctetString][e] = <<e>>
    BY <2>1, NoSegments
  <2> HIDE DEF m, e
  <2>4. Reading[m + 1].flat[OctetString][Glue(s, e)] = <<Glue(c, e)>>
    BY <2>1, <2>2, <2>3 DEF Segment
  <2> QED BY <2>1, <2>2, <2>4
<1> QED BY <1>2, <1>3 DEF RowReads

LEMMA NestedSegment ==
  ASSUME NEW s, NEW f, NEW c, Brief(c), Segment(f, c), Wrapped(s, OctetString + 32, f)
  PROVE  Segment(s, c)
<1> DEFINE t == OctetString + 32
<1>1. /\ s \in Octets /\ s # <<>> /\ f \in Octets /\ c \in Octets
      /\ Len(s) >= Len(f) + 2 /\ Len(s) \in Nat /\ Len(f) \in Nat
  BY Byteses DEF Wrapped, Segment
<1>2. Reads(s, Short(OctetString, c))
  BY <1>1, OctetTag, SegmentAlone, StringReads
<1>3. ASSUME NEW n \in Nat, n >= 2 * Len(s) + 1, NEW r, r \in Octets, NEW more, more \in Octets,
             Reading[n].flat[OctetString][r] = <<more>>
      PROVE  Reading[n + 1].flat[OctetString][Glue(s, r)] = <<Glue(c, more)>>
  <2>1. n >= 2 * Len(f) + 2
    BY <1>1, <1>3
  <2>2. /\ Reading[n].flat[OctetString][f] = <<c>>
        /\ \A q \in Octets : Reading[n].extent[Glue(f, Glue(EndOfContents, q))] = Len(f) + 2
    BY <2>1, SegmentAlone
  <2>3. Value(Glue(s, r), Reading[n]) = << <<t>>, f, Len(s) >>
    BY <1>3, <2>2 DEF Wrapped
  <2>4. t \in {OctetString, OctetString + 32} /\ Constructed(<<t>>)
    BY OctetTag
  <2> HIDE DEF t
  <2>5. Adds(t, f, Reading[n]) = <<c>>
    BY <2>2, <2>4 DEF Adds
  <2>6. Found(n, s, r, t, f, c) /\ Holding(n, r, more)
    BY <1>3, <2>3, <2>5 DEF Found, Holding
  <2>7. Holding(n + 1, Glue(s, r), Glue(c, more))
    BY <1>1, <1>3, <2>4, <2>6, SegmentStep
  <2> QED BY <2>7 DEF Holding
<1> QED BY <1>1, <1>2, <1>3 DEF Segment

LEMMA TwoSegments ==
  ASSUME NEW s, NEW c, Segment(s, c), NEW f, NEW g, Segment(f, g),
         NEW n \in Nat, n >= 2 * Len(Glue(s, f)) + 2
  PROVE  /\ Reading[n].flat[OctetString][Glue(s, f)] = <<Glue(c, g)>>
         /\ \A r \in Octets : Reading[n].extent[Glue(Glue(s, f), Glue(EndOfContents, r))] = Len(Glue(s, f)) + 2
<1>1. /\ s \in Octets /\ c \in Octets /\ f \in Octets /\ g \in Octets
      /\ Reads(s, Short(OctetString, c)) /\ Reads(f, Short(OctetString, g))
  BY DEF Segment
<1>2. Len(s) \in Nat \ {0} /\ Len(f) \in Nat /\ Len(Glue(s, f)) = Len(s) + Len(f)
  <2>1. s # <<>>
    BY <1>1 DEF Reads
  <2> QED BY <1>1, <2>1, Byteses, Sizes
<1>3. \E h : RowReads(Glue(s, f), h)
  <2>1. Glue(f, <<>>) = f
    BY <1>1, Byteses
  <2>2. RowReads(Glue(f, <<>>), Glue(Short(OctetString, g), <<>>))
    BY <1>1, NoneReads, MoreReads
  <2>3. RowReads(Glue(s, f), Glue(Short(OctetString, c), Glue(Short(OctetString, g), <<>>)))
    BY <1>1, <2>1, <2>2, MoreReads
  <2> QED BY <2>3
<1>4. Reading[n].flat[OctetString][Glue(s, f)] = <<Glue(c, g)>>
  <2> DEFINE m == n - 1
  <2>1. m \in Nat /\ m + 1 = n /\ m >= 2 * Len(s) + 1 /\ m >= 2 * Len(f) + 2
    BY <1>2
  <2> HIDE DEF m
  <2>2. Reading[m].flat[OctetString][f] = <<g>>
    BY <2>1, SegmentAlone
  <2>3. Reading[m + 1].flat[OctetString][Glue(s, f)] = <<Glue(c, g)>>
    BY <1>1, <2>1, <2>2 DEF Segment
  <2> QED BY <2>1, <2>3
<1> QED BY <1>3, <1>4 DEF RowReads

\* A plain octet string in front of r is of octet strings alone if r is, or is none.
LEMMA OctetStep ==
  ASSUME NEW s, NEW c, c \in Octets, Plain(s, OctetString, c), NEW r, r \in Octets, NEW inner
  PROVE  OctetStrings(Glue(s, r), inner) <=> (r = <<>> \/ inner.octets[r])
<1> DEFINE b == Glue(s, r)
           l == Len(c)
           k == Len(s)
           size == k - 1 - l
           length == <<l, size>>
<1>1. s \in Octets /\ s # <<>> /\ s[1] = OctetString /\ l \in Nat /\ k \in Nat /\ k >= l + 2
  BY Byteses DEF Plain
<1>2. b # <<>> /\ b[1] = OctetString /\ Len(b) = k + Len(r) /\ After(b, k) = r /\ Len(r) \in Nat
  BY <1>1, Byteses, FirstBytes, Sizes, Cuts, ZenonT(60)
<1>3. LengthOf(After(b, 1)) = length
  BY DEF Plain
<1>4. length # <<>> /\ length[1] = l /\ length[2] = size
  OBVIOUS
<1>5. Len(r) = 0 <=> r = <<>>
  BY Sizes
<1> HIDE DEF b, l, k
<1>6. 1 + size + l = k /\ l # Indefinite
  BY <1>1 DEF Indefinite
<1>7. 1 + length[2] + length[1] = k
  BY <1>4, <1>6
<1> HIDE DEF length, size
<1>8. OctetStrings(b, inner) <=> Len(b) >= k /\ (Len(b) = k \/ inner.octets[After(b, k)])
  BY <1>2, <1>3, <1>4, <1>6, <1>7 DEF OctetStrings
<1>9. Len(b) >= k /\ (Len(b) = k <=> Len(r) = 0)
  BY <1>1, <1>2
<1> QED BY <1>2, <1>5, <1>8, <1>9 DEF b

LEMMA TwoOctets ==
  ASSUME NEW s, NEW c, c \in Octets, Plain(s, OctetString, c),
         NEW f, NEW g, g \in Octets, Plain(f, OctetString, g),
         NEW n \in Nat, n >= 2
  PROVE  Reading[n].octets[Glue(s, f)]
<1>1. s \in Octets /\ f \in Octets
  BY DEF Plain
<1> DEFINE m == n - 1
           l == n - 2
           e == <<>>
<1>2. m \in Nat /\ m + 1 = n /\ l \in Nat /\ l + 1 = m
  OBVIOUS
<1>3. e \in Octets /\ Glue(f, e) = f /\ Glue(s, f) \in Octets
  BY <1>1, Byteses
<1> HIDE DEF m, l, e
<1>4. Reading[m].octets[f]
  <2>1. OctetStrings(Glue(f, e), Reading[l])
    BY <1>3, OctetStep DEF e
  <2>2. Reading[l + 1].octets[f] = OctetStrings(f, Reading[l])
    BY <1>1, <1>2, Answering
  <2> QED BY <1>2, <1>3, <2>1, <2>2
<1>5. OctetStrings(Glue(s, f), Reading[m])
  BY <1>1, <1>4, OctetStep
<1>6. Reading[m + 1].octets[Glue(s, f)] = OctetStrings(Glue(s, f), Reading[m])
  BY <1>2, <1>3, Answering
<1> QED BY <1>2, <1>5, <1>6

\* Of values in a row of which one is no octet string, not all are.
LEMMA NotAllOctets ==
  ASSUME NEW A, A \in Seq(Octets),
         \A i \in 1..Len(A) : /\ A[i] # <<>>
                              /\ A[i][1] = OctetString => \E c \in Octets : Plain(A[i], OctetString, c),
         \E i \in 1..Len(A) : A[i][1] # OctetString
  PROVE  \A n \in Nat : ~Reading[n].octets[FlattenSeq(A)]
<1> DEFINE S == Octets
           Good == {x \in S : x # <<>> /\ (x[1] = OctetString => \E c \in Octets : Plain(x, OctetString, c))}
           T == {B \in Seq(S) : (\E i \in 1..Len(B) : B[i][1] # OctetString) =>
                    FlattenSeq(B) # <<>> /\ \A n \in Nat : ~Reading[n].octets[FlattenSeq(B)]}
<1>1. <<>> \in T
  OBVIOUS
<1>2. ASSUME NEW B, B \in Seq(S), B \in T, NEW x, x \in Good PROVE Cons(x, B) \in T
  <2> DEFINE r == FlattenSeq(B)
             b == Glue(x, r)
             C == Cons(x, B)
  <2>1. x \in Octets /\ x # <<>> /\ r \in Octets /\ b \in Octets /\ b # <<>> /\ b[1] = x[1] /\ FlattenSeq(C) = b
    BY <1>2, RowBytes, Byteses, FirstBytes
  <2>2. C \in Seq(S) /\ C[1] = x /\ Len(C) = Len(B) + 1 /\ \A i \in 1..Len(B) : C[i + 1] = B[i]
    BY <1>2, <2>1, Places
  <2>3. ASSUME NEW i \in 1..Len(C), C[i][1] # OctetString, x[1] = OctetString
        PROVE  r # <<>> /\ \A n \in Nat : ~Reading[n].octets[r]
    <3> HIDE DEF C
    <3>1. i # 1 /\ i - 1 \in 1..Len(B) /\ (i - 1) + 1 = i
      <4>1. Len(B) \in Nat
        BY <1>2
      <4> QED BY <2>2, <2>3, <4>1
    <3>2. B[i - 1] = C[i]
      BY <2>2, <3>1
    <3>3. \E j \in 1..Len(B) : B[j][1] # OctetString
      BY <2>3, <3>1, <3>2
    <3> QED BY <1>2, <3>3
  <2> HIDE DEF b, C
  <2>4. ASSUME NEW i \in 1..Len(C), C[i][1] # OctetString, NEW n \in Nat
        PROVE  ~Reading[n].octets[b]
    <3>1. CASE n = 0
      BY <2>1, <3>1, NoAnswer
    <3>2. CASE n # 0
      <4> DEFINE m == n - 1
      <4>1. m \in Nat /\ m + 1 = n
        BY <3>2
      <4> HIDE DEF m
      <4>2. Reading[m + 1].octets[b] = OctetStrings(b, Reading[m])
        BY <2>1, <4>1, Answering
      <4>3. ~OctetStrings(b, Reading[m])
        <5>1. CASE x[1] # OctetString
          BY <2>1, <5>1 DEF OctetStrings
        <5>2. CASE x[1] = OctetString
          <6>1. r # <<>> /\ ~Reading[m].octets[r]
            BY <2>3, <2>4, <4>1, <5>2
          <6>2. PICK c \in Octets : Plain(x, OctetString, c)
            BY <1>2, <5>2
          <6> HIDE DEF r
          <6>3. OctetStrings(Glue(x, r), Reading[m]) <=> (r = <<>> \/ Reading[m].octets[r])
            BY <2>1, <6>2, OctetStep
          <6> QED BY <6>1, <6>3 DEF b
        <5> QED BY <5>1, <5>2
      <4> QED BY <4>1, <4>2, <4>3
    <3> QED BY <3>1, <3>2
  <2>5. (\E i \in 1..Len(C) : C[i][1] # OctetString) =>
          FlattenSeq(C) # <<>> /\ \A n \in Nat : ~Reading[n].octets[FlattenSeq(C)]
    <3> HIDE DEF T, r
    <3> QED BY <2>1, <2>4
  <2>6. C \in T
    BY <2>2, <2>5
  <2> QED BY <2>6 DEF C
<1>3. A \in Seq(Good)
  OBVIOUS
<1>4. Seq(Good) \subseteq T
  <2>1. \A B \in Seq(Good) : B \in T => \A x \in Good : Cons(x, B) \in T
    <3> SUFFICES ASSUME NEW B, B \in Seq(Good), B \in T, NEW x, x \in Good PROVE Cons(x, B) \in T
      OBVIOUS
    <3>1. B \in Seq(S)
      BY DEF Good
    <3> HIDE DEF T, Good
    <3> QED BY <1>2, <3>1
  <2> HIDE DEF Good, T
  <2> QED BY <1>1, <2>1, FrontInduction
<1>5. A \in T
  BY <1>3, <1>4
<1> QED BY <1>5

LEMMA LongRows ==
  /\ \A x \in Octets : x \in Seq(Nat)
  /\ \A x \in Seq(Nat) : Len(x) \in Nat
  /\ \A x, y \in Seq(Nat) : Glue(x, y) \in Seq(Nat) /\ Len(Glue(x, y)) = Len(x) + Len(y)
<1>1. ASSUME NEW x, x \in Octets PROVE x \in Seq(Nat)
  <2> DEFINE S == 0..255
  <2>1. S \subseteq Nat /\ x \in Seq(S)
    BY <1>1 DEF Octets
  <2> HIDE DEF S
  <2> QED BY <2>1, SeqMonotonic
<1>2. \A x \in Seq(Nat) : Len(x) \in Nat
  OBVIOUS
<1> DEFINE S == Nat
<1> HIDE DEF S
<1>3. \A x, y \in Seq(S) : x \o y \in Seq(S) /\ Len(x \o y) = Len(x) + Len(y)
  BY Apart
<1> QED BY <1>1, <1>2, <1>3 DEF S, Glue

LEMMA AnyForm ==
  \A t \in Tag : \A c \in Octets : Brief(c) => \A form : Wrapped(InForm(form, t, c), t, c)
BY FormOf, Zenon

\* Whatever the length of a content, no form of it is shorter.
LEMMA FormSize ==
  ASSUME NEW t \in Nat, NEW c, c \in Seq(Nat)
  PROVE  /\ Short(t, c) \in Seq(Nat) /\ Len(Short(t, c)) >= Len(c)
         /\ \A form : InForm(form, t, c) \in Seq(Nat) /\ Len(InForm(form, t, c)) >= Len(c)
<1> DEFINE n == Len(c)
           e == <<t>>
<1>1. n \in Nat /\ e \in Seq(Nat)
  OBVIOUS
<1>2. Shortest(n) \in Seq(Nat) /\ Long(n) \in Seq(Nat)
  <2> HIDE DEF n
  <2>1. n \div 256 \in Nat /\ n % 256 \in Nat
    BY <1>1
  <2> DEFINE h == n \div 256
             l == n % 256
  <2> HIDE DEF h, l
  <2>2. <<n>> \in Seq(Nat) /\ <<129, n>> \in Seq(Nat) /\ <<130, h, l>> \in Seq(Nat)
    BY <1>1, <2>1 DEF h, l
  <2> QED BY <2>2 DEF Shortest, Long, h, l
<1>3. ASSUME NEW x, x \in Seq(Nat) PROVE (e \o x) \o c \in Seq(Nat) /\ Len((e \o x) \o c) >= Len(c)
  <2>1. e \o x \in Seq(Nat) /\ Len(e \o x) \in Nat
    BY <1>1, <1>3
  <2> DEFINE y == e \o x
  <2> HIDE DEF y
  <2>2. y \o c \in Seq(Nat) /\ Len(y \o c) = Len(y) + Len(c)
    BY <2>1 DEF y
  <2> QED BY <1>1, <2>1, <2>2 DEF y
<1> HIDE DEF n, e
<1>4. Short(t, c) \in Seq(Nat) /\ Len(Short(t, c)) >= Len(c)
  BY <1>2, <1>3 DEF Short, n, e
<1>5. ASSUME NEW form PROVE InForm(form, t, c) \in Seq(Nat) /\ Len(InForm(form, t, c)) >= Len(c)
  <2>1. CASE form = "short"
    BY <1>4, <2>1 DEF InForm
  <2>2. CASE form = "indefinite" /\ Constructed(<<t>>)
    <3> DEFINE h == <<t, 128>>
               f == h \o c
    <3>1. h \in Seq(Nat) /\ Len(h) = 2 /\ EndOfContents \in Seq(Nat) /\ Len(EndOfContents) = 2
      BY DEF EndOfContents
    <3> HIDE DEF h
    <3>2. f \in Seq(Nat) /\ Len(f) = 2 + Len(c)
      BY <3>1, LongRows DEF Glue
    <3> HIDE DEF f
    <3>3. f \o EndOfContents \in Seq(Nat) /\ Len(f \o EndOfContents) = Len(f) + 2
      <4> DEFINE z == EndOfContents
      <4> HIDE DEF z
      <4>1. z \in Seq(Nat) /\ Len(z) = 2
        BY <3>1 DEF z
      <4>2. f \o z \in Seq(Nat) /\ Len(f \o z) = Len(f) + Len(z)
        BY <3>2, <4>1, LongRows DEF Glue
      <4> QED BY <4>1, <4>2 DEF z
    <3>4. form # "short"
      BY <2>2
    <3>5. InForm(form, t, c) = f \o EndOfContents
      BY <2>2, <3>4 DEF InForm, f, h
    <3> QED BY <1>1, <3>2, <3>3, <3>5 DEF n
  <2>3. CASE form # "short" /\ ~(form = "indefinite" /\ Constructed(<<t>>))
    BY <1>2, <1>3, <2>3 DEF InForm, n, e
  <2> QED BY <2>1, <2>2, <2>3
<1> QED BY <1>4, <1>5

LEMMA AnySize ==
  \A t \in Nat : \A c \in Seq(Nat) : \A form :
    InForm(form, t, c) \in Seq(Nat) /\ Len(InForm(form, t, c)) >= Len(c)
BY FormSize

LEMMA HalvesOf ==
  ASSUME NEW c, c \in Octets, NEW half, half \in 0..Len(c)
  PROVE  /\ SubSeq(c, 1, half) \in Octets /\ SubSeq(c, half + 1, Len(c)) \in Octets
         /\ c = Glue(SubSeq(c, 1, half), SubSeq(c, half + 1, Len(c)))
<1> DEFINE S == 0..255
<1>1. Octets = Seq(S)
  BY DEF Octets
<1> HIDE DEF S
<1>2. c \in Seq(S)
  BY <1>1
<1>3. /\ SubSeq(c, 1, half) \in Seq(S) /\ SubSeq(c, half + 1, Len(c)) \in Seq(S)
      /\ c = SubSeq(c, 1, half) \o SubSeq(c, half + 1, Len(c))
  BY <1>2, SplitAt
<1> QED BY <1>1, <1>3 DEF Glue

LEMMA SegmentsRead ==
  ASSUME NEW t \in StringTag, NEW c, c \in Octets, Brief(c), NEW style, NEW form,
         Brief(InSegments(style, form, t, c))
  PROVE  Reads(InSegments(style, form, t, c), Short(t, c)) /\ InSegments(style, form, t, c)[1] = t + 32
<1> DEFINE half == Len(c) \div 2
           left == SubSeq(c, 1, half)
           right == SubSeq(c, half + 1, Len(c))
           first == InForm(form, OctetString, left)
           nested == style.segments = "nested" /\ t = OctetString
           s == IF nested THEN InForm(form, OctetString + 32, first) ELSE first
           f == Short(OctetString, right)
           u == t + 32
           b == InForm(form, u, Glue(s, f))
<1>1. b = InSegments(style, form, t, c)
  BY DEF InSegments, Glue
<1>2. left \in Octets /\ right \in Octets /\ c = Glue(left, right) /\ Brief(left) /\ Brief(right)
  <2> DEFINE l == Len(c)
  <2>1. l \in Nat /\ half \in 0..l
    <3>1. l \in Nat
      BY Byteses
    <3> HIDE DEF l
    <3> QED BY <3>1 DEF l
  <2> HIDE DEF half, f, first, b
  <2>2. left \in Octets /\ right \in Octets /\ c = Glue(left, right)
    BY <2>1, HalvesOf
  <2> HIDE DEF left, right
  <2>3. Len(Glue(left, right)) = Len(left) + Len(right) /\ Len(left) \in Nat /\ Len(right) \in Nat
    BY <2>2, Sizes, Byteses
  <2> QED BY <2>2, <2>3 DEF Brief
<1> HIDE DEF half, left, right
<1>3. Plain(first, OctetString, left) /\ Plain(f, OctetString, right)
  BY <1>2, OctetTag, FormOf
<1>4. first \in Octets /\ f \in Octets
  BY <1>3 DEF Plain
<1> HIDE DEF first, f, b
<1>5. /\ \A x \in Octets : x \in Seq(Nat)
      /\ \A x \in Seq(Nat) : Len(x) \in Nat
      /\ \A x, y \in Seq(Nat) : Glue(x, y) \in Seq(Nat) /\ Len(Glue(x, y)) = Len(x) + Len(y)
  BY LongRows
<1>6. u \in Tag /\ u \in Nat /\ 36 \in Nat
  <2>1. u \in Tag
    <3>1. t + 32 \in Tag
      BY StringTags, Zenon
    <3> QED BY <3>1
  <2> HIDE DEF u
  <2> QED BY <2>1 DEF Tag
<1>7. s \in Seq(Nat) /\ Len(s) >= Len(first)
  <2>1. first \in Seq(Nat) /\ Len(first) \in Nat
    BY <1>4, <1>5
  <2>2. CASE nested
    <3> DEFINE v == OctetString + 32
    <3>1. v \in Nat
      BY DEF OctetString
    <3> HIDE DEF v
    <3>2. InForm(form, v, first) \in Seq(Nat) /\ Len(InForm(form, v, first)) >= Len(first)
      BY <2>1, <3>1, AnySize
    <3> QED BY <2>2, <3>2 DEF v
  <2>3. CASE ~nested
    BY <2>1, <2>3
  <2> QED BY <2>2, <2>3 DEF Brief
<1> HIDE DEF s, u
<1>8. Brief(Glue(s, f)) /\ Brief(first)
  <2>1. f \in Seq(Nat) /\ Len(f) \in Nat /\ Len(first) \in Nat
    BY <1>4, <1>5
  <2>2. Glue(s, f) \in Seq(Nat) /\ Len(Glue(s, f)) = Len(s) + Len(f) /\ Len(s) \in Nat
    BY <1>5, <1>7, <2>1
  <2>3. Len(b) >= Len(Glue(s, f)) /\ Len(b) \in Nat
    <3>1. b \in Seq(Nat) /\ Len(b) >= Len(Glue(s, f))
      BY <1>6, <2>2, AnySize DEF b
    <3> QED BY <1>5, <3>1
  <2>4. Len(b) < 65536
    BY <1>1 DEF Brief
  <2> QED BY <1>7, <2>1, <2>2, <2>3, <2>4 DEF Brief
<1>9. Segment(first, left) /\ Segment(f, right)
  BY <1>2, <1>3, PlainSegment
<1>10. Segment(s, left)
  <2>1. CASE nested
    <3> DEFINE v == OctetString + 32
    <3>1. v \in Tag
      BY OctetTag
    <3> HIDE DEF v
    <3>2. Wrapped(InForm(form, v, first), v, first)
      BY <1>4, <1>8, <3>1, AnyForm, Zenon
    <3>3. Wrapped(s, OctetString + 32, first)
      BY <2>1, <3>2 DEF s, v
    <3> QED BY <1>2, <1>9, <3>3, NestedSegment
  <2>2. CASE ~nested
    BY <1>9, <2>2 DEF s
  <2> QED BY <2>1, <2>2
<1> DEFINE w == Glue(s, f)
<1>11. w \in Octets
  BY <1>4, <1>10, Byteses DEF Segment
<1>12. ASSUME NEW n \in Nat, n >= 2 * Len(w) + 2
       PROVE  /\ \A r \in Octets : Reading[n].extent[Glue(w, Glue(EndOfContents, r))] = Len(w) + 2
              /\ Reading[n].flat[OctetString][w] = <<c>>
              /\ t # OctetString => Reading[n].octets[w]
  <2>1. /\ Reading[n].flat[OctetString][w] = <<Glue(left, right)>>
        /\ \A r \in Octets : Reading[n].extent[Glue(w, Glue(EndOfContents, r))] = Len(w) + 2
    BY <1>9, <1>10, <1>12, TwoSegments
  <2>2. ASSUME t # OctetString PROVE Reading[n].octets[w]
    <3>1. s = first
      BY <2>2 DEF s
    <3>2. n >= 2
      <4>1. Len(w) \in Nat
        BY <1>11, Byteses
      <4> QED BY <1>12, <4>1
    <3> QED BY <1>2, <1>3, <3>1, <3>2, TwoOctets
  <2> QED BY <1>2, <2>1, <2>2
<1> HIDE DEF w
<1>13. Wrapped(b, u, w)
  BY <1>6, <1>8, <1>11, AnyForm, Zenon DEF b, w
<1>14. Reads(b, Short(t, c))
  BY <1>11, <1>12, <1>13, StringReads DEF u
<1> QED BY <1>1, <1>13, <1>14 DEF Wrapped, u

-----------------------------------------------------------------------------
(* Values in values. *)

\* Values around others.
Layer(values) == ({"atom"} \X AtomTag \X Octets) \cup ({"octets"} \X StringTag \X Octets) \cup Nodes(values)

LEMMA TreeTable ==
  /\ Tree[0] = {}
  /\ \A n \in 1..BerDepth : Tree[n] = Layer(Tree[n - 1])
<1> DEFINE Filled(g, n) == g = [k \in 0..n |-> IF k = 0 THEN {} ELSE Layer(g[k - 1])]
           T == {n \in 0..BerDepth : \E g : Filled(g, n)}
<1>1. 0 \in T
  <2> DEFINE g == [k \in 0..0 |-> {}]
  <2>1. Filled(g, 0)
    OBVIOUS
  <2> HIDE DEF g
  <2> QED BY <2>1, BerAssumption
<1>2. ASSUME NEW n \in 0..(BerDepth - 1), n \in T PROVE n + 1 \in T
  <2>1. PICK g : Filled(g, n)
    BY <1>2
  <2> DEFINE h == [k \in 0..(n + 1) |-> IF k = 0 THEN {} ELSE Layer(g[k - 1])]
             H == [k \in 0..(n + 1) |-> IF k = 0 THEN {} ELSE Layer(h[k - 1])]
  <2>2. ASSUME NEW k \in 0..(n + 1) PROVE h[k] = H[k]
    <3>1. CASE k = 0
      BY <3>1
    <3>2. CASE k # 0
      <4>1. k - 1 \in 0..n /\ k - 1 \in 0..(n + 1)
        BY <3>2
      <4>2. g[k - 1] = h[k - 1]
        BY <2>1, <4>1
      <4>3. h[k] = Layer(g[k - 1]) /\ H[k] = Layer(h[k - 1])
        BY <3>2
      <4> QED BY <4>2, <4>3
    <3> QED BY <3>1, <3>2
  <2>3. h = H
    BY <2>2
  <2>4. Filled(h, n + 1)
    BY <2>3
  <2>5. n + 1 \in 0..BerDepth
    BY BerAssumption
  <2> HIDE DEF h, Filled
  <2> QED BY <2>4, <2>5
<1>3. BerDepth \in T
  <2>1. BerDepth \in Nat
    BY BerAssumption
  <2> HIDE DEF T
  <2>2. 0..BerDepth \subseteq T
    BY <1>1, <1>2, <2>1, InductionUpTo
  <2> QED BY <2>1, <2>2
<1>4. Filled(Tree, BerDepth)
  <2>1. \E g : Filled(g, BerDepth)
    BY <1>3
  <2> QED BY <2>1 DEF Tree, Layer
<1>5. \A n \in 0..BerDepth : Tree[n] = IF n = 0 THEN {} ELSE Layer(Tree[n - 1])
  BY <1>4
<1>6. 0 \in 0..BerDepth
  BY BerAssumption
<1>7. \A n \in 1..BerDepth : n \in 0..BerDepth /\ n # 0
  OBVIOUS
<1> QED BY <1>5, <1>6, <1>7

LEMMA DerTable ==
  \E der : /\ \A n \in 1..BerDepth : der[n] = [v \in Tree[n] |-> DerForm(v, der[n - 1])]
           /\ \A v : DerOf(v) = der[BerDepth][v]
<1> DEFINE Filled(g, n) == g = [k \in 0..n |-> [v \in Tree[k] |-> DerForm(v, g[k - 1])]]
           T == {n \in 0..BerDepth : \E g : Filled(g, n)}
<1>0. Tree[0] = {} /\ BerDepth \in Nat
  BY TreeTable, BerAssumption
<1>1. 0 \in T
  <2> DEFINE g == [k \in 0..0 |-> [v \in {} |-> {}]]
             G == [k \in 0..0 |-> [v \in Tree[k] |-> DerForm(v, g[k - 1])]]
  <2>1. ASSUME NEW k \in 0..0 PROVE g[k] = G[k]
    <3>1. k = 0
      OBVIOUS
    <3> QED BY <1>0, <3>1
  <2>2. g = G
    BY <2>1
  <2>3. Filled(g, 0)
    BY <2>2
  <2> HIDE DEF g, Filled
  <2> QED BY <1>0, <2>3
<1>2. ASSUME NEW n \in 0..(BerDepth - 1), n \in T PROVE n + 1 \in T
  <2>1. PICK g : Filled(g, n)
    BY <1>2
  <2> DEFINE h == [k \in 0..(n + 1) |-> [v \in Tree[k] |-> DerForm(v, g[k - 1])]]
             H == [k \in 0..(n + 1) |-> [v \in Tree[k] |-> DerForm(v, h[k - 1])]]
  <2>2. ASSUME NEW k \in 0..(n + 1) PROVE h[k] = H[k]
    <3>1. CASE k = 0
      BY <1>0, <3>1
    <3>2. CASE k # 0
      <4>1. k - 1 \in 0..n /\ k - 1 \in 0..(n + 1)
        BY <3>2
      <4>2. g[k - 1] = h[k - 1]
        BY <2>1, <4>1
      <4>3. h[k] = [v \in Tree[k] |-> DerForm(v, g[k - 1])] /\ H[k] = [v \in Tree[k] |-> DerForm(v, h[k - 1])]
        OBVIOUS
      <4> QED BY <4>2, <4>3
    <3> QED BY <3>1, <3>2
  <2>3. h = H
    BY <2>2
  <2>4. Filled(h, n + 1)
    BY <2>3
  <2>5. n + 1 \in 0..BerDepth
    BY BerAssumption
  <2> HIDE DEF h, Filled
  <2> QED BY <2>4, <2>5
<1>3. BerDepth \in T
  <2> HIDE DEF T
  <2>1. 0..BerDepth \subseteq T
    BY <1>0, <1>1, <1>2, InductionUpTo
  <2> QED BY <1>0, <2>1
<1> DEFINE c == CHOOSE g : Filled(g, BerDepth)
<1>4. Filled(c, BerDepth)
  <2>1. \E g : Filled(g, BerDepth)
    BY <1>3
  <2> HIDE DEF Filled
  <2> QED BY <2>1
<1>5. \A v : DerOf(v) = c[BerDepth][v]
  BY DEF DerOf
<1> HIDE DEF c
<1>6. ASSUME NEW n \in 1..BerDepth PROVE c[n] = [v \in Tree[n] |-> DerForm(v, c[n - 1])]
  <2>1. n \in 0..BerDepth
    OBVIOUS
  <2> QED BY <1>4, <2>1
<1> QED BY <1>5, <1>6

\* The encodings in a style, by the depth of the value and the length form it starts with.
BerTable(ber, style) ==
  /\ \A n \in 1..BerDepth :
       ber[n] = [q \in 0..2 |-> [w \in Tree[n] |-> BerForm(w, style, q, ber[n - 1])]]
  /\ \A v : BerOf(v, style) = ber[BerDepth][0][v]

LEMMA BerTables == \A style : \E ber : BerTable(ber, style)
<1> SUFFICES ASSUME NEW style PROVE \E ber : BerTable(ber, style)
  OBVIOUS
<1> DEFINE Filled(g, n) == g = [k \in 0..n |-> [q \in 0..2 |-> [w \in Tree[k] |-> BerForm(w, style, q, g[k - 1])]]]
           T == {n \in 0..BerDepth : \E g : Filled(g, n)}
<1>0. Tree[0] = {} /\ BerDepth \in Nat
  BY TreeTable, BerAssumption
<1>1. 0 \in T
  <2> DEFINE g == [k \in 0..0 |-> [q \in 0..2 |-> [w \in {} |-> {}]]]
             G == [k \in 0..0 |-> [q \in 0..2 |-> [w \in Tree[k] |-> BerForm(w, style, q, g[k - 1])]]]
  <2>1. ASSUME NEW k \in 0..0 PROVE g[k] = G[k]
    <3>1. k = 0
      OBVIOUS
    <3> QED BY <1>0, <3>1
  <2>2. g = G
    BY <2>1
  <2>3. Filled(g, 0)
    BY <2>2
  <2> HIDE DEF g, Filled
  <2> QED BY <1>0, <2>3
<1>2. ASSUME NEW n \in 0..(BerDepth - 1), n \in T PROVE n + 1 \in T
  <2>1. PICK g : Filled(g, n)
    BY <1>2
  <2> DEFINE h == [k \in 0..(n + 1) |-> [q \in 0..2 |-> [w \in Tree[k] |-> BerForm(w, style, q, g[k - 1])]]]
             H == [k \in 0..(n + 1) |-> [q \in 0..2 |-> [w \in Tree[k] |-> BerForm(w, style, q, h[k - 1])]]]
  <2>2. ASSUME NEW k \in 0..(n + 1) PROVE h[k] = H[k]
    <3>1. CASE k = 0
      BY <1>0, <3>1
    <3>2. CASE k # 0
      <4>1. k - 1 \in 0..n /\ k - 1 \in 0..(n + 1)
        BY <3>2
      <4>2. g[k - 1] = h[k - 1]
        BY <2>1, <4>1
      <4>3. h[k] = [q \in 0..2 |-> [w \in Tree[k] |-> BerForm(w, style, q, g[k - 1])]] /\ H[k] = [q \in 0..2 |-> [w \in Tree[k] |-> BerForm(w, style, q, h[k - 1])]]
        OBVIOUS
      <4> QED BY <4>2, <4>3
    <3> QED BY <3>1, <3>2
  <2>3. h = H
    BY <2>2
  <2>4. Filled(h, n + 1)
    BY <2>3
  <2>5. n + 1 \in 0..BerDepth
    BY BerAssumption
  <2> HIDE DEF h, Filled
  <2> QED BY <2>4, <2>5
<1>3. BerDepth \in T
  <2> HIDE DEF T
  <2>1. 0..BerDepth \subseteq T
    BY <1>0, <1>1, <1>2, InductionUpTo
  <2> QED BY <1>0, <2>1
<1> DEFINE c == CHOOSE g : Filled(g, BerDepth)
<1>4. Filled(c, BerDepth)
  <2>1. \E g : Filled(g, BerDepth)
    BY <1>3
  <2> HIDE DEF Filled
  <2> QED BY <2>1
<1>5. \A v : BerOf(v, style) = c[BerDepth][0][v]
  BY DEF BerOf
<1> HIDE DEF c
<1>6. ASSUME NEW n \in 1..BerDepth PROVE c[n] = [q \in 0..2 |-> [w \in Tree[n] |-> BerForm(w, style, q, c[n - 1])]]
  <2>1. n \in 0..BerDepth
    OBVIOUS
  <2> QED BY <1>4, <2>1
<1> QED BY <1>5, <1>6 DEF BerTable

-----------------------------------------------------------------------------
(* The encodings of a value. *)

\* Of the encodings b and d of a value of tag t, b is rewritten as d.
Agrees(b, d, t) ==
  /\ Reads(b, d)
  /\ t # OctetString => b[1] # OctetString
  /\ b[1] = OctetString => \E c \in Octets : Plain(b, OctetString, c)

Rewritable(b, d, t) ==
  b \in Seq(Nat) /\ d \in Seq(Nat) /\ (Brief(b) /\ Brief(d) => Agrees(b, d, t))

LEMMA BriefIn ==
  ASSUME NEW x, x \in Seq(Nat), NEW y, y \in Seq(Nat), Len(x) >= Len(y), Brief(x)
  PROVE  Brief(y)
<1>1. Len(x) \in Nat /\ Len(y) \in Nat
  BY LongRows
<1> QED BY <1>1 DEF Brief

LEMMA TagNumbers == \A t \in Tag : t \in Nat
BY DEF Tag

LEMMA AtomAgrees ==
  ASSUME NEW t \in AtomTag, NEW c, c \in Octets, NEW form
  PROVE  Rewritable(InForm(form, t, c), Short(t, c), t)
<1> DEFINE b == InForm(form, t, c)
           d == Short(t, c)
<1>1. t \in Tag /\ t \in Nat /\ ~Constructed(<<t>>) /\ c \in Seq(Nat)
  BY TagNumbers, LongRows DEF AtomTag
<1>2. b \in Seq(Nat) /\ d \in Seq(Nat) /\ Len(d) >= Len(c)
  BY <1>1, FormSize
<1>3. ASSUME Brief(d) PROVE Agrees(b, d, t)
  <2>1. Brief(c)
    <3> HIDE DEF d
    <3> QED BY <1>1, <1>2, <1>3, BriefIn
  <2>2. Plain(b, t, c)
    BY <1>1, <2>1, FormOf, Zenon
  <2> HIDE DEF b
  <2>3. Reads(b, d)
    BY <1>1, <2>1, <2>2, PlainReads, Zenon
  <2>4. b[1] = t
    BY <2>2 DEF Plain
  <2> HIDE DEF d
  <2> QED BY <2>2, <2>3, <2>4 DEF Agrees
<1> HIDE DEF b, d
<1>4. Rewritable(b, d, t)
  BY <1>2, <1>3 DEF Rewritable
<1> QED BY <1>4 DEF b, d

LEMMA SegmentsType ==
  ASSUME NEW t \in StringTag, NEW c, c \in Octets, NEW style, NEW form
  PROVE  InSegments(style, form, t, c) \in Seq(Nat)
<1> DEFINE half == Len(c) \div 2
           left == SubSeq(c, 1, half)
           right == SubSeq(c, half + 1, Len(c))
           first == InForm(form, OctetString, left)
           nested == style.segments = "nested" /\ t = OctetString
           s == IF nested THEN InForm(form, OctetString + 32, first) ELSE first
           f == Short(OctetString, right)
           u == t + 32
           b == InForm(form, u, Glue(s, f))
<1>1. b = InSegments(style, form, t, c)
  BY DEF InSegments, Glue
<1> HIDE DEF b
<1>2. left \in Seq(Nat) /\ right \in Seq(Nat)
  <2> DEFINE l == Len(c)
  <2>1. l \in Nat /\ half \in 0..l
    <3>1. l \in Nat
      BY Byteses
    <3> HIDE DEF l
    <3> QED BY <3>1 DEF l
  <2> HIDE DEF half, f, first
  <2>2. left \in Octets /\ right \in Octets
    BY <2>1, HalvesOf
  <2> HIDE DEF left, right
  <2> QED BY <2>2, LongRows
<1> HIDE DEF left, right, half
<1> DEFINE v == OctetString + 32
           o == OctetString
<1>3. u \in Nat /\ v \in Nat /\ o \in Nat
  <2>1. t + 32 \in Tag
    BY StringTags, Zenon
  <2> QED BY <2>1, TagNumbers DEF OctetString
<1>4. first \in Seq(Nat) /\ f \in Seq(Nat)
  <2> HIDE DEF o, v, u, s
  <2>1. InForm(form, o, left) \in Seq(Nat) /\ Short(o, right) \in Seq(Nat)
    BY <1>2, <1>3, FormSize
  <2> QED BY <2>1 DEF o
<1> HIDE DEF first, f
<1>5. s \in Seq(Nat)
  <2>1. InForm(form, v, first) \in Seq(Nat)
    <3> HIDE DEF v
    <3> QED BY <1>3, <1>4, AnySize
  <2> QED BY <1>4, <2>1
<1> HIDE DEF s, u
<1>6. Glue(s, f) \in Seq(Nat)
  BY <1>4, <1>5, LongRows
<1>7. b \in Seq(Nat)
  BY <1>3, <1>6, AnySize DEF b
<1> QED BY <1>1, <1>7

LEMMA StringAgrees ==
  ASSUME NEW t \in StringTag, NEW c, c \in Octets, NEW style, NEW form
  PROVE  Rewritable(InSegments(style, form, t, c), Short(t, c), t)
<1> DEFINE b == InSegments(style, form, t, c)
           d == Short(t, c)
<1>1. t \in Tag /\ t \in Nat /\ c \in Seq(Nat) /\ t + 32 # OctetString
  <2>1. t \in Tag /\ t + 32 # OctetString
    BY StringTags, Zenon
  <2> QED BY <2>1, TagNumbers, LongRows
<1>2. b \in Seq(Nat) /\ d \in Seq(Nat) /\ Len(d) >= Len(c)
  BY <1>1, FormSize, SegmentsType
<1>3. ASSUME Brief(b), Brief(d) PROVE Agrees(b, d, t)
  <2>1. Brief(c)
    <3> HIDE DEF b, d
    <3> QED BY <1>1, <1>2, <1>3, BriefIn
  <2>2. Reads(b, d) /\ b[1] = t + 32
    BY <1>3, <2>1, SegmentsRead
  <2> HIDE DEF b, d
  <2> QED BY <1>1, <2>2 DEF Agrees
<1> HIDE DEF b, d
<1>4. Rewritable(b, d, t)
  BY <1>2, <1>3 DEF Rewritable
<1> QED BY <1>4 DEF b, d

LEMMA RowSize ==
  ASSUME NEW A, A \in Seq(Seq(Nat))
  PROVE  FlattenSeq(A) \in Seq(Nat) /\ \A i \in 1..Len(A) : Len(FlattenSeq(A)) >= Len(A[i])
<1> DEFINE S == Seq(Nat)
           T == {B \in Seq(S) : \A i \in 1..Len(B) : Len(FlattenSeq(B)) >= Len(B[i])}
<1>1. <<>> \in T
  OBVIOUS
<1>2. ASSUME NEW B, B \in Seq(S), B \in T, NEW x, x \in S PROVE Cons(x, B) \in T
  <2> DEFINE C == Cons(x, B)
             r == FlattenSeq(B)
             f == FlattenSeq(C)
  <2>1. C \in Seq(S) /\ C[1] = x /\ Len(C) = Len(B) + 1 /\ \A i \in 1..Len(B) : C[i + 1] = B[i]
    <3>1. x \in S /\ B \in Seq(S)
      BY <1>2
    <3> HIDE DEF S, T, r, f
    <3>2. Cons(x, B) \in Seq(S) /\ Cons(x, B)[1] = x /\ Len(Cons(x, B)) = Len(B) + 1
      BY <3>1, Places, ZenonT(60)
    <3>3. \A d \in S, r0 \in Seq(S) : \A i \in 1..Len(r0) : Cons(d, r0)[i + 1] = r0[i]
      BY Places
    <3>4. \A i \in 1..Len(B) : Cons(x, B)[i + 1] = B[i]
      BY <3>1, <3>3, ZenonT(60)
    <3> QED BY <3>2, <3>4
  <2>2. r \in Seq(Nat) /\ f = Glue(x, r)
    BY <1>2, Rows
  <2> HIDE DEF f, C, r
  <2>3. Len(f) = Len(x) + Len(r) /\ Len(x) \in Nat /\ Len(r) \in Nat
    BY <1>2, <2>2, LongRows
  <2>4. Len(B) \in Nat
    BY <1>2
  <2>5. ASSUME NEW i \in 1..Len(C) PROVE Len(f) >= Len(C[i])
    <3>1. CASE i = 1
      BY <2>1, <2>3, <3>1
    <3>2. CASE i # 1
      <4> DEFINE j == i - 1
      <4>1. j \in 1..Len(B) /\ i = j + 1
        BY <2>1, <2>4, <3>2
      <4>2. Len(r) >= Len(B[j]) /\ B[j] \in Seq(Nat)
        BY <1>2, <4>1 DEF r
      <4>3. C[i] = B[j] /\ Len(B[j]) \in Nat
        BY <2>1, <4>1, <4>2, LongRows
      <4> QED BY <2>3, <4>2, <4>3
    <3> QED BY <3>1, <3>2
  <2>6. C \in T
    BY <2>1, <2>5 DEF f
  <2> QED BY <2>6 DEF C
<1>3. A \in T
  <2>1. A \in Seq(S)
    OBVIOUS
  <2> HIDE DEF S, T
  <2>2. \A B \in Seq(S) : B \in T => \A x \in S : Cons(x, B) \in T
    BY <1>2
  <2>3. Seq(S) \subseteq T
    BY <1>1, <2>2, FrontInduction
  <2> QED BY <2>1, <2>3
<1> QED BY <1>3, Rows

LEMMA Filling ==
  ASSUME NEW S, NEW n \in Nat, NEW f, f = [i \in 1..n |-> f[i]], \A i \in 1..n : f[i] \in S
  PROVE  f \in Seq(S) /\ Len(f) = n
<1>1. f \in [1..n -> S]
  OBVIOUS
<1> QED BY <1>1

LEMMA NoOctets == \A n \in Nat : ~Reading[n].octets[<<>>]
<1> SUFFICES ASSUME NEW n \in Nat PROVE ~Reading[n].octets[<<>>]
  OBVIOUS
<1> DEFINE e == <<>>
<1>1. e \in Octets
  BY Byteses
<1>2. CASE n = 0
  BY <1>1, <1>2, NoAnswer
<1>3. CASE n # 0
  <2> DEFINE m == n - 1
  <2>1. m \in Nat /\ m + 1 = n
    BY <1>3
  <2>2. \A inner : ~OctetStrings(e, inner)
    BY DEF OctetStrings
  <2> HIDE DEF m, e
  <2>3. Reading[m + 1].octets[e] = OctetStrings(e, Reading[m])
    BY <1>1, <2>1, Answering
  <2> QED BY <2>1, <2>2, <2>3 DEF e
<1> QED BY <1>2, <1>3

\* A value around others, of which A and B are encodings.
LEMMA NodeAgrees ==
  ASSUME NEW t \in NodeTag, NEW form, NEW tags, NEW A, A \in Seq(Seq(Nat)), NEW B, B \in Seq(Seq(Nat)),
         Len(A) = Len(B), \A i \in 1..Len(A) : Rewritable(A[i], B[i], tags[i]),
         Class(<<t>>) = ContextSpecific /\ A # <<>> => \E i \in 1..Len(A) : tags[i] # OctetString
  PROVE  Rewritable(InForm(form, t, FlattenSeq(A)), Short(t, FlattenSeq(B)), t)
<1> DEFINE f == FlattenSeq(A)
           g == FlattenSeq(B)
           b == InForm(form, t, f)
           d == Short(t, g)
<1>1. t \in Tag /\ t \in Nat /\ Constructed(<<t>>) /\ t # OctetString
  <2>1. t \in Tag /\ Constructed(<<t>>)
    BY DEF NodeTag
  <2>2. t # OctetString
    BY <2>1, OctetTag
  <2> QED BY <2>1, <2>2, TagNumbers
<1>2. /\ f \in Seq(Nat) /\ \A i \in 1..Len(A) : Len(f) >= Len(A[i])
      /\ g \in Seq(Nat) /\ \A i \in 1..Len(B) : Len(g) >= Len(B[i])
  BY RowSize
<1> HIDE DEF f, g
<1>3. b \in Seq(Nat) /\ d \in Seq(Nat) /\ Len(b) >= Len(f) /\ Len(d) >= Len(g)
  BY <1>1, <1>2, FormSize
<1>4. ASSUME Brief(b), Brief(d) PROVE Agrees(b, d, t)
  <2>1. Brief(f) /\ Brief(g)
    <3> HIDE DEF b, d
    <3> QED BY <1>2, <1>3, <1>4, BriefIn
  <2> HIDE DEF b, d
  <2>2. ASSUME NEW i \in 1..Len(A) PROVE Agrees(A[i], B[i], tags[i])
    <3> DEFINE x == A[i]
               y == B[i]
    <3>1. Rewritable(x, y, tags[i]) /\ Len(f) >= Len(x) /\ Len(g) >= Len(y)
      BY <1>2
    <3> HIDE DEF x, y
    <3>2. Brief(x) /\ Brief(y)
      BY <1>2, <2>1, <3>1, BriefIn DEF Rewritable
    <3>3. Agrees(x, y, tags[i])
      BY <3>1, <3>2 DEF Rewritable
    <3> QED BY <3>3 DEF x, y
  <2>3. \A i \in 1..Len(A) : Reads(A[i], B[i])
    BY <2>2 DEF Agrees
  <2>4. A \in Seq(Octets) /\ B \in Seq(Octets)
    <3>1. \A i \in 1..Len(A) : A[i] \in Octets /\ B[i] \in Octets
      BY <2>3 DEF Reads
    <3>2. Len(A) \in Nat /\ A = [i \in 1..Len(A) |-> A[i]] /\ B = [i \in 1..Len(A) |-> B[i]]
      OBVIOUS
    <3> DEFINE S == Octets
    <3> HIDE DEF S
    <3>3. \A i \in 1..Len(A) : A[i] \in S /\ B[i] \in S
      BY <3>1 DEF S
    <3> DEFINE n == Len(A)
    <3>4. n \in Nat /\ A = [i \in 1..n |-> A[i]] /\ B = [i \in 1..n |-> B[i]]
      BY <3>2
    <3> HIDE DEF n
    <3>5. A \in Seq(S) /\ B \in Seq(S)
      BY <3>3, <3>4, Filling DEF n
    <3> QED BY <3>5 DEF S
  <2>5. RowReads(f, g)
    BY <2>3, <2>4, ListReads DEF f, g
  <2>6. \A n \in Nat : ~ImplicitOctets(<<t>>, f, Reading[n])
    <3>1. CASE Class(<<t>>) # ContextSpecific
      BY <3>1 DEF ImplicitOctets
    <3>2. CASE A = <<>>
      <4>1. f = <<>>
        BY <3>2, RowBytes DEF f
      <4> QED BY <4>1, NoOctets DEF ImplicitOctets
    <3>3. CASE Class(<<t>>) = ContextSpecific /\ A # <<>>
      <4>1. PICK i \in 1..Len(A) : tags[i] # OctetString
        BY <3>3
      <4>2. A[i][1] # OctetString
        BY <2>2, <4>1 DEF Agrees
      <4>3. \A j \in 1..Len(A) :
              /\ A[j] # <<>>
              /\ A[j][1] = OctetString => \E c \in Octets : Plain(A[j], OctetString, c)
        <5> SUFFICES ASSUME NEW j \in 1..Len(A)
                     PROVE  /\ A[j] # <<>>
                            /\ A[j][1] = OctetString => \E c \in Octets : Plain(A[j], OctetString, c)
          OBVIOUS
        <5>1. Agrees(A[j], B[j], tags[j])
          BY <2>2
        <5> QED BY <5>1 DEF Agrees, Reads
      <4>4. \E j \in 1..Len(A) : A[j][1] # OctetString
        BY <4>2
      <4>5. \A n \in Nat : ~Reading[n].octets[f]
        BY <2>4, <4>3, <4>4, NotAllOctets DEF f
      <4> QED BY <4>5 DEF ImplicitOctets
    <3> QED BY <3>1, <3>2, <3>3
  <2>7. f \in Octets
    BY <2>5 DEF RowReads
  <2>8. Wrapped(b, t, f)
    BY <1>1, <2>1, <2>7, AnyForm DEF b
  <2>9. Reads(b, d)
    BY <2>1, <2>5, <2>6, <2>8, NodeReads, Zenon DEF d
  <2>10. b[1] = t
    BY <2>8 DEF Wrapped
  <2> QED BY <1>1, <2>9, <2>10 DEF Agrees
<1> HIDE DEF b, d
<1>5. Rewritable(b, d, t)
  BY <1>3, <1>4 DEF Rewritable
<1> QED BY <1>5 DEF b, d, f, g

LEMMA ValueAgrees ==
  ASSUME NEW values, NEW v, v \in Layer(values), NEW style, NEW k \in 0..2, NEW ber, NEW der,
         \A q \in 0..2 : \A x \in values : Rewritable(ber[q][x], der[x], x[2])
  PROVE  Rewritable(BerForm(v, style, k, ber), DerForm(v, der), v[2])
<1> DEFINE form == style.length[k]
           t == v[2]
           c == v[3]
<1>1. CASE v \in {"atom"} \X AtomTag \X Octets
  <2>1. v[1] = "atom" /\ t \in AtomTag /\ c \in Octets
    BY <1>1
  <2>2. BerForm(v, style, k, ber) = InForm(form, t, c) /\ DerForm(v, der) = Short(t, c)
    BY <2>1 DEF BerForm, DerForm
  <2> HIDE DEF form, t, c
  <2>3. Rewritable(InForm(form, t, c), Short(t, c), t)
    BY <2>1, AtomAgrees
  <2> QED BY <2>2, <2>3 DEF t
<1>2. CASE v \in {"octets"} \X StringTag \X Octets
  <2>1. v[1] = "octets" /\ t \in StringTag /\ t \in AtomTag /\ c \in Octets
    BY <1>2 DEF StringTag
  <2>2. DerForm(v, der) = Short(t, c)
    BY <2>1 DEF DerForm
  <2>3. CASE style.segments = "whole"
    <3>1. BerForm(v, style, k, ber) = InForm(form, t, c)
      BY <2>1, <2>3 DEF BerForm
    <3> HIDE DEF form, t, c
    <3>2. Rewritable(InForm(form, t, c), Short(t, c), t)
      BY <2>1, AtomAgrees
    <3> QED BY <2>2, <3>1, <3>2 DEF t
  <2>4. CASE style.segments # "whole"
    <3>1. BerForm(v, style, k, ber) = InSegments(style, form, t, c)
      BY <2>1, <2>4 DEF BerForm
    <3> HIDE DEF form, t, c
    <3>2. Rewritable(InSegments(style, form, t, c), Short(t, c), t)
      BY <2>1, StringAgrees
    <3> QED BY <2>2, <3>1, <3>2 DEF t
  <2> QED BY <2>3, <2>4
<1>3. CASE v \in Nodes(values)
  <2> DEFINE A == [i \in DOMAIN c |-> ber[(k + i) % 3][c[i]]]
             B == [i \in DOMAIN c |-> der[c[i]]]
             tags == [i \in DOMAIN c |-> c[i][2]]
             n == Len(c)
  <2>1. /\ v[1] = "node" /\ t \in NodeTag /\ c \in Seq(values)
        /\ Class(<<t>>) = ContextSpecific /\ c # <<>> => \E i \in DOMAIN c : c[i][2] # OctetString
    BY <1>3 DEF Nodes
  <2>2. BerForm(v, style, k, ber) = InForm(form, t, FlattenSeq(A)) /\ DerForm(v, der) = Short(t, FlattenSeq(B))
    BY <2>1 DEF BerForm, DerForm
  <2> HIDE DEF form, t, c
  <2>3. n \in Nat /\ DOMAIN c = 1..n /\ (n = 0 <=> c = <<>>) /\ \A i \in 1..n : c[i] \in values
    BY <2>1
  <2> HIDE DEF n
  <2>4. ASSUME NEW i \in 1..n PROVE Rewritable(A[i], B[i], tags[i])
    <3> DEFINE q == (k + i) % 3
               x == c[i]
    <3>1. q \in 0..2
      BY <2>3
    <3> HIDE DEF q
    <3>2. x \in values
      BY <2>3
    <3> HIDE DEF x
    <3>3. Rewritable(ber[q][x], der[x], x[2])
      BY <3>1, <3>2
    <3>4. A[i] = ber[q][x] /\ B[i] = der[x] /\ tags[i] = x[2]
      BY <2>3 DEF q, x
    <3> QED BY <3>3, <3>4
  <2>5. /\ A \in Seq(Seq(Nat)) /\ Len(A) = n /\ B \in Seq(Seq(Nat)) /\ Len(B) = n
    <3>1. A = [i \in 1..n |-> A[i]] /\ B = [i \in 1..n |-> B[i]]
      BY <2>3
    <3> HIDE DEF A, B
    <3> DEFINE S == Seq(Nat)
    <3>2. \A i \in 1..n : A[i] \in S /\ B[i] \in S
      BY <2>4 DEF Rewritable
    <3> HIDE DEF S
    <3>3. A \in Seq(S) /\ Len(A) = n /\ B \in Seq(S) /\ Len(B) = n
      BY <2>3, <3>1, <3>2, Filling
    <3> QED BY <3>3 DEF S
  <2>6. Class(<<t>>) = ContextSpecific /\ A # <<>> => \E i \in 1..n : tags[i] # OctetString
    <3>1. A # <<>> => c # <<>>
      BY <2>3
    <3>2. \A i \in 1..n : tags[i] = c[i][2]
      BY <2>3
    <3> HIDE DEF A, tags
    <3> QED BY <2>1, <2>3, <3>1, <3>2
  <2> HIDE DEF A, B, tags
  <2>7. Rewritable(InForm(form, t, FlattenSeq(A)), Short(t, FlattenSeq(B)), t)
    BY <2>1, <2>4, <2>5, <2>6, NodeAgrees
  <2> QED BY <2>2, <2>7 DEF t
<1> QED BY <1>1, <1>2, <1>3 DEF Layer

\* The rewriting gives the one DER encoding of a value from each of its BER encodings.
LEMMA Rewriting ==
  ASSUME NEW v, v \in Tree[BerDepth], NEW style, Brief(DerOf(v)), Brief(BerOf(v, style))
  PROVE  Normalize(BerOf(v, style)) = <<DerOf(v)>>
<1>1. PICK der : /\ \A n \in 1..BerDepth : der[n] = [w \in Tree[n] |-> DerForm(w, der[n - 1])]
                 /\ \A w : DerOf(w) = der[BerDepth][w]
  BY DerTable
<1>2. PICK ber : BerTable(ber, style)
  BY BerTables
<1>3. BerDepth \in Nat /\ Tree[0] = {} /\ \A n \in 1..BerDepth : Tree[n] = Layer(Tree[n - 1])
  BY TreeTable, BerAssumption
<1> DEFINE T == {n \in 0..BerDepth :
                   \A q \in 0..2 : \A w \in Tree[n] : Rewritable(ber[n][q][w], der[n][w], w[2])}
<1>4. 0 \in T
  BY <1>3
<1>5. ASSUME NEW n \in 0..(BerDepth - 1), n \in T PROVE n + 1 \in T
  <2> DEFINE m == n + 1
             values == Tree[n]
             inBer == ber[n]
             inDer == der[n]
  <2>1. m \in 1..BerDepth /\ m \in 0..BerDepth /\ m - 1 = n
    BY <1>3
  <2>2. \A q \in 0..2 : \A x \in values : Rewritable(inBer[q][x], inDer[x], x[2])
    BY <1>5
  <2> HIDE DEF m
  <2>3. /\ Tree[m] = Layer(values)
        /\ der[m] = [w \in Tree[m] |-> DerForm(w, inDer)]
        /\ ber[m] = [q \in 0..2 |-> [w \in Tree[m] |-> BerForm(w, style, q, inBer)]]
    BY <1>1, <1>2, <1>3, <2>1 DEF BerTable
  <2> HIDE DEF values, inBer, inDer
  <2>4. ASSUME NEW q \in 0..2, NEW w, w \in Tree[m] PROVE Rewritable(ber[m][q][w], der[m][w], w[2])
    <3>1. Rewritable(BerForm(w, style, q, inBer), DerForm(w, inDer), w[2])
      BY <2>2, <2>3, <2>4, ValueAgrees
    <3>2. ber[m][q][w] = BerForm(w, style, q, inBer) /\ der[m][w] = DerForm(w, inDer)
      BY <2>3, <2>4
    <3> QED BY <3>1, <3>2
  <2>5. m \in T
    BY <2>1, <2>4
  <2> HIDE DEF T
  <2> QED BY <2>5 DEF m
<1> HIDE DEF T
<1>6. BerDepth \in T
  <2>1. 0..BerDepth \subseteq T
    BY <1>3, <1>4, <1>5, InductionUpTo
  <2> QED BY <1>3, <2>1
<1> DEFINE b == BerOf(v, style)
           d == DerOf(v)
<1>7. Rewritable(b, d, v[2])
  <2>1. Rewritable(ber[BerDepth][0][v], der[BerDepth][v], v[2])
    BY <1>6 DEF T
  <2> QED BY <1>1, <1>2, <2>1 DEF BerTable
<1>8. Brief(b) /\ Brief(d)
  OBVIOUS
<1> HIDE DEF b, d
<1>9. Reads(b, d)
  BY <1>7, <1>8 DEF Rewritable, Agrees
<1>10. RowReads(b, d)
  <2>1. b \in Octets /\ d \in Octets
    BY <1>9 DEF Reads
  <2>2. Glue(b, <<>>) = b /\ Glue(d, <<>>) = d
    BY <2>1, Byteses
  <2>3. RowReads(Glue(b, <<>>), Glue(d, <<>>))
    BY <1>9, NoneReads, MoreReads
  <2> QED BY <2>2, <2>3
<1>11. Reading[2 * Len(b) + 2].der[b] = <<d>>
  <2> DEFINE n == 2 * Len(b) + 2
  <2>1. n \in Nat /\ n >= 2 * Len(b) + 2
    <3>1. Len(b) \in Nat
      BY <1>10, Byteses DEF RowReads
    <3> QED BY <3>1
  <2> HIDE DEF n
  <2>2. Reading[n].der[b] = <<d>>
    BY <1>10, <2>1 DEF RowReads
  <2> QED BY <2>2 DEF n
<1> QED BY <1>11 DEF Normalize, b, d

-----------------------------------------------------------------------------
(* The rewriting ends, whatever the bytes. *)

\* What is left of bytes, and a part of them.
LEMMA PartsOf ==
  /\ \A b \in Octets, k \in Nat : k <= Len(b) => After(b, k) \in Octets /\ Len(After(b, k)) = Len(b) - k
  /\ \A b \in Octets, k, l \in Nat :
       k + l <= Len(b) => SubSeq(b, k + 1, k + l) \in Octets /\ Len(SubSeq(b, k + 1, k + l)) = l
<1> DEFINE S == Octet
<1>1. Octets = Seq(S)
  BY DEF Octets, Octet
<1> HIDE DEF S
<1>2. ASSUME NEW b \in Seq(S), NEW k \in Nat, NEW l \in Nat, k + l <= Len(b)
      PROVE  SubSeq(b, k + 1, k + l) \in Seq(S) /\ Len(SubSeq(b, k + 1, k + l)) = l
  <2>1. \A i \in (k + 1)..(k + l) : b[i] \in S
    <3>1. \A i \in 1..Len(b) : b[i] \in S
      BY ElementOfSeq
    <3>2. \A i \in (k + 1)..(k + l) : i \in 1..Len(b)
      BY <1>2
    <3> QED BY <3>1, <3>2
  <2>2. k + 1 \in Int /\ k + l \in Int /\ (IF k + 1 <= k + l THEN (k + l) - (k + 1) + 1 ELSE 0) = l
    OBVIOUS
  <2>3. /\ SubSeq(b, k + 1, k + l) \in Seq(S)
        /\ Len(SubSeq(b, k + 1, k + l)) = IF k + 1 <= k + l THEN (k + l) - (k + 1) + 1 ELSE 0
    BY <2>1, <2>2, SubSeqProperties, ZenonT(60)
  <2> QED BY <2>2, <2>3
<1>3. ASSUME NEW b \in Seq(S), NEW k \in Nat, k <= Len(b)
      PROVE  SubSeq(b, k + 1, Len(b)) \in Seq(S) /\ Len(SubSeq(b, k + 1, Len(b))) = Len(b) - k
  <2> DEFINE l == Len(b) - k
  <2>1. l \in Nat /\ k + l = Len(b) /\ k + l <= Len(b)
    BY <1>3
  <2>2. SubSeq(b, k + 1, k + l) \in Seq(S) /\ Len(SubSeq(b, k + 1, k + l)) = l
    <3> HIDE DEF l
    <3> QED BY <2>1, <1>2
  <2> QED BY <2>1, <2>2
<1> QED BY <1>1, <1>2, <1>3 DEF After

\* A tag is of some of the bytes.
LEMMA TagSize ==
  ASSUME NEW b \in Octets, TagOf(b) # <<>>
  PROVE  Len(TagOf(b)) \in Nat /\ Len(TagOf(b)) >= 1 /\ Len(TagOf(b)) <= Len(b) /\ b # <<>>
<1>1. b # <<>>
  BY DEF TagOf
<1>2. Len(b) \in Nat \ {0} /\ Tail(b) \in Octets /\ Len(Tail(b)) = Len(b) - 1
  BY <1>1 DEF Octets
<1>3. CASE TagNumber(b) # 31
  <2>1. TagOf(b) = <<b[1]>>
    BY <1>1, <1>3 DEF TagOf
  <2> QED BY <1>1, <1>2, <2>1
<1>4. CASE TagNumber(b) = 31
  <2> DEFINE last == SelectInSeq(Tail(b), LAMBDA x : x < 128)
             I == {i \in 1..Len(Tail(b)) : Tail(b)[i] < 128}
  <2>1. TagOf(b) = IF last = 0 THEN <<>> ELSE SubSeq(b, 1, 1 + last)
    BY <1>1, <1>4 DEF TagOf
  <2>2. last = IF I # {} THEN Min(I) ELSE 0
    BY DEF SelectInSeq
  <2>3. last # 0 /\ I # {} /\ last = Min(I)
    BY <2>1, <2>2
  <2>4. I \in SUBSET Nat
    OBVIOUS
  <2>5. \E y \in I : \A z \in I : y <= z
    <3> HIDE DEF I
    <3> QED BY <2>3, <2>4, LeastElement
  <2>6. Min(I) \in I
    BY <2>5 DEF Min
  <2>7. last \in 1..(Len(b) - 1)
    BY <2>3, <2>6, <1>2
  <2> HIDE DEF last, I
  <2> DEFINE l == 1 + last
  <2>8. l \in Nat /\ 0 \in Nat /\ 0 + l <= Len(b) /\ 0 + 1 = 1 /\ 0 + l = l /\ l >= 1
    BY <1>2, <2>7
  <2>9. Len(SubSeq(b, 0 + 1, 0 + l)) = l
    <3> HIDE DEF l
    <3> QED BY <2>8, PartsOf
  <2>10. TagOf(b) = SubSeq(b, 1, l)
    BY <2>1, <2>3
  <2> QED BY <1>1, <2>8, <2>9, <2>10
<1> QED BY <1>3, <1>4

\* A length is a number, or is to be looked for, and takes some of the bytes.
LEMMA LengthSize ==
  ASSUME NEW b \in Octets, LengthOf(b) # <<>>
  PROVE  /\ LengthOf(b)[1] = Indefinite \/ LengthOf(b)[1] \in Nat
         /\ LengthOf(b)[2] \in Nat /\ LengthOf(b)[2] >= 1 /\ LengthOf(b)[2] <= Len(b)
<1> DEFINE h == b[1]
<1>1. b # <<>>
  BY DEF LengthOf
<1>2. h \in Nat /\ Len(b) \in Nat /\ Len(b) >= 1
  <2>1. h \in Octet
    BY <1>1, FirstBytes, ZenonT(60)
  <2>2. Len(b) \in Nat /\ Len(b) # 0
    BY <1>1, Byteses, Sizes, ZenonT(60)
  <2> HIDE DEF h
  <2> QED BY <2>1, <2>2 DEF Octet
<1>3. CASE h = 128
  <2>1. LengthOf(b) = <<Indefinite, 1>>
    BY <1>1, <1>3 DEF LengthOf
  <2> QED BY <1>2, <2>1
<1>4. CASE h < 128
  <2>1. ~(h = 128)
    <3> HIDE DEF h
    <3> QED BY <1>2, <1>4
  <2>2. LengthOf(b) = <<h, 1>>
    BY <1>1, <1>4, <2>1, ZenonT(60) DEF LengthOf
  <2> HIDE DEF h
  <2> QED BY <1>2, <2>1, <2>2
<1>5. CASE h # 128 /\ ~(h < 128)
  <2> DEFINE size == h - 128
             s == SubSeq(b, 1 + 1, 1 + size)
  <2>1. size \in Nat /\ size >= 1
    <3> HIDE DEF h
    <3> QED BY <1>2, <1>5
  <2>2. ~(size > 8 \/ Len(b) < 1 + size) /\ LengthOf(b) = <<Horner(256, SubSeq(b, 2, 1 + size)), 1 + size>>
    BY <1>1, <1>5 DEF LengthOf
  <2>3. 1 + size <= Len(b) /\ 1 \in Nat
    BY <1>2, <2>1, <2>2
  <2>4. s \in Octets
    <3> HIDE DEF size
    <3> QED BY <2>1, <2>3, PartsOf
  <2>5. s \in Seq(Nat)
    BY <2>4, LongRows
  <2>6. Horner(256, s) \in Nat
    <3> HIDE DEF s
    <3> DEFINE base == 256
    <3>1. base \in Nat
      OBVIOUS
    <3> HIDE DEF base
    <3>2. Horner(base, s) \in Nat
      BY <2>5, <3>1, HornerNat
    <3> QED BY <3>2 DEF base
  <2>7. LengthOf(b) = <<Horner(256, s), 1 + size>>
    BY <2>2
  <2> HIDE DEF s, size
  <2> QED BY <2>1, <2>3, <2>6, <2>7
<1> QED BY <1>3, <1>4, <1>5

\* What calls answer stays within the bytes they were given.
Sound(inner) ==
  \A c \in Octets :
    /\ inner.rewrite[c] # <<>> =>
         inner.rewrite[c][2] \in Nat /\ inner.rewrite[c][2] >= 1 /\ inner.rewrite[c][2] <= Len(c)
    /\ inner.extent[c] \in Nat /\ inner.extent[c] # 1 /\ inner.extent[c] <= Len(c)

\* Two answer alike what they are asked of c.
Alike(i, j, c) ==
  /\ i.rewrite[c] = j.rewrite[c] /\ i.octets[c] = j.octets[c]
  /\ \A number \in {BitString, OctetString} : i.flat[number][c] = j.flat[number][c]
  /\ i.extent[c] = j.extent[c] /\ i.der[c] = j.der[c]

\* ... of bytes fewer than those of b.
AlikeBelow(i, j, b) == \A c \in Octets : Len(c) < Len(b) => Alike(i, j, c)

\* The first value takes two bytes more than its content at least, and no more than
\* there are; its end may depend on fewer bytes.
LEMMA FirstValue ==
  ASSUME NEW b \in Octets, NEW i, Sound(i)
  PROVE  /\ Value(b, i) # <<>> =>
              /\ Value(b, i)[2] \in Octets /\ Value(b, i)[3] \in Nat
              /\ Len(Value(b, i)[2]) + 2 <= Value(b, i)[3] /\ Value(b, i)[3] <= Len(b)
         /\ \A j : AlikeBelow(i, j, b) => Value(b, j) = Value(b, i)
<1> DEFINE tag == TagOf(b)
           rest == After(b, Len(tag))
           length == LengthOf(rest)
           start == Len(tag) + length[2]
           body == After(b, start)
           Ended(extent) ==
             IF extent = 0 THEN <<>>
             ELSE <<tag, SubSeq(b, start + 1, start + extent - 2), start + extent>>
           Counted == IF Len(b) < start + length[1] THEN <<>>
                      ELSE <<tag, SubSeq(b, start + 1, start + length[1]), start + length[1]>>
<1>1. \A k : Value(b, k) = IF tag = <<>> THEN <<>> ELSE IF length = <<>> THEN <<>>
                           ELSE IF length[1] = Indefinite THEN Ended(k.extent[body]) ELSE Counted
  BY DEF Value
<1>2. CASE tag = <<>> \/ length = <<>>
  <2>1. \A k : Value(b, k) = <<>>
    BY <1>1, <1>2
  <2> QED BY <2>1
<1>3. CASE tag # <<>> /\ length # <<>>
  <2>1. /\ Len(tag) \in Nat /\ Len(tag) >= 1 /\ Len(tag) <= Len(b)
        /\ rest \in Octets /\ Len(rest) = Len(b) - Len(tag) /\ Len(b) \in Nat
    <3>1. Len(tag) \in Nat /\ Len(tag) >= 1 /\ Len(tag) <= Len(b)
      BY <1>3, TagSize
    <3>2. Len(b) \in Nat
      BY Byteses
    <3> HIDE DEF tag
    <3> QED BY <3>1, <3>2, PartsOf
  <2>2. /\ length[1] = Indefinite \/ length[1] \in Nat
        /\ length[2] \in Nat /\ length[2] >= 1 /\ length[2] <= Len(rest)
    <3> HIDE DEF rest
    <3> QED BY <1>3, <2>1, LengthSize
  <2> HIDE DEF tag, rest, length
  <2>3. start \in Nat /\ start >= 2 /\ start <= Len(b)
    BY <2>1, <2>2
  <2>4. body \in Octets /\ Len(body) = Len(b) - start
    <3> HIDE DEF start
    <3> QED BY <2>3, PartsOf
  <2> HIDE DEF start, body
  <2>5. CASE length[1] = Indefinite
    <3> DEFINE x == i.extent[body]
    <3>1. x \in Nat /\ x # 1 /\ x <= Len(body)
      BY <2>4 DEF Sound
    <3>2. \A k : Value(b, k) = Ended(k.extent[body])
      BY <1>1, <1>3, <2>5
    <3>3. ASSUME NEW j, AlikeBelow(i, j, b) PROVE j.extent[body] = x
      <4>1. Len(body) < Len(b)
        BY <2>1, <2>3, <2>4
      <4> QED BY <2>4, <3>3, <4>1 DEF AlikeBelow, Alike
    <3>4. CASE x = 0
      <4>1. Ended(x) = <<>>
        BY <3>4
      <4> HIDE DEF Ended, x
      <4> QED BY <3>2, <3>3, <4>1 DEF x
    <3>5. CASE x # 0
      <4> DEFINE l == x - 2
                 s == SubSeq(b, start + 1, start + l)
      <4>1. l \in Nat /\ start + l <= Len(b) /\ start + x - 2 = start + l /\ x = l + 2
        BY <2>1, <2>3, <2>4, <3>1, <3>5
      <4>2. s \in Octets /\ Len(s) = l
        <5> HIDE DEF l
        <5> QED BY <2>3, <4>1, PartsOf
      <4>3. Ended(x) = <<tag, s, start + x>>
        BY <3>5, <4>1
      <4>4. Value(b, i) = <<tag, s, start + x>>
        BY <3>2, <4>3
      <4>5. /\ start + x \in Nat /\ Len(s) + 2 <= start + x /\ start + x <= Len(b)
        <5> HIDE DEF s, x, l
        <5> QED BY <2>1, <2>3, <2>4, <3>1, <4>1, <4>2
      <4>6. \A j : AlikeBelow(i, j, b) => Value(b, j) = Value(b, i)
        <5> HIDE DEF Ended, x
        <5> QED BY <3>2, <3>3 DEF x
      <4>7. Value(b, i)[2] = s /\ Value(b, i)[3] = start + x
        <5> HIDE DEF s, x
        <5> QED BY <4>4
      <4> QED BY <4>2, <4>5, <4>6, <4>7
    <3> QED BY <3>4, <3>5
  <2>6. CASE length[1] # Indefinite
    <3> DEFINE l == length[1]
               s == SubSeq(b, start + 1, start + l)
    <3>1. l \in Nat /\ \A k : Value(b, k) = Counted
      BY <1>1, <1>3, <2>2, <2>6
    <3>2. CASE Len(b) < start + l
      <4>1. Counted = <<>>
        BY <3>2
      <4> HIDE DEF Counted
      <4> QED BY <3>1, <4>1
    <3>3. CASE ~(Len(b) < start + l)
      <4>1. start + l <= Len(b) /\ start + l \in Nat
        BY <2>1, <2>3, <3>1, <3>3
      <4>2. s \in Octets /\ Len(s) = l
        <5> HIDE DEF l
        <5> QED BY <2>3, <3>1, <4>1, PartsOf
      <4>3. Counted = <<tag, s, start + l>>
        BY <3>3
      <4>4. Value(b, i) = <<tag, s, start + l>>
        <5> HIDE DEF Counted, s, l
        <5> QED BY <3>1, <4>3
      <4>5. Value(b, i)[2] = s /\ Value(b, i)[3] = start + l /\ Len(s) + 2 <= start + l
        <5> HIDE DEF Counted, s, l
        <5> QED BY <2>3, <3>1, <4>2, <4>4
      <4> HIDE DEF Counted, s
      <4> QED BY <3>1, <4>1, <4>2, <4>5
    <3> QED BY <3>2, <3>3
  <2> QED BY <2>5, <2>6
<1> QED BY <1>2, <1>3

\* The calls made of b by a reading of segments, of a value and of a row of octet
\* strings are of fewer bytes; what is consumed is some of them.
LEMMA SmallerCalls ==
  ASSUME NEW b \in Octets, NEW i, Sound(i), NEW j, AlikeBelow(i, j, b)
  PROVE  /\ Rewrite(b, i) = Rewrite(b, j) /\ OctetStrings(b, i) = OctetStrings(b, j)
         /\ \A number \in {BitString, OctetString} : Flatten(number, b, i) = Flatten(number, b, j)
<1> DEFINE v == Value(b, i)
           tag == v[1]
           content == v[2]
<1>1. Value(b, j) = v
  BY FirstValue, ZenonT(60)
<1>2. Len(b) \in Nat /\ \A c \in Octets : Len(c) \in Nat
  BY Byteses
<1>3. v # <<>> => content \in Octets /\ v[3] \in Nat /\ Len(content) + 2 <= v[3] /\ v[3] <= Len(b)
  BY FirstValue, ZenonT(60)
<1>4. v # <<>> => Alike(i, j, content)
  <2> SUFFICES ASSUME v # <<>> PROVE Alike(i, j, content)
    OBVIOUS
  <2> HIDE DEF v, content
  <2>1. content \in Octets /\ Len(content) < Len(b)
    BY <1>2, <1>3
  <2> QED BY <2>1 DEF AlikeBelow
<1>5. v # <<>> => Alike(i, j, After(b, v[3]))
  <2> SUFFICES ASSUME v # <<>> PROVE Alike(i, j, After(b, v[3]))
    OBVIOUS
  <2> HIDE DEF v, content
  <2>1. v[3] \in Nat /\ v[3] >= 2 /\ v[3] <= Len(b)
    BY <1>2, <1>3
  <2>2. After(b, v[3]) \in Octets /\ Len(After(b, v[3])) = Len(b) - v[3]
    BY <2>1, PartsOf
  <2>3. Len(After(b, v[3])) < Len(b)
    BY <1>2, <2>1, <2>2
  <2> QED BY <2>2, <2>3 DEF AlikeBelow
<1> HIDE DEF v
<1>6. v # <<>> => Der(tag, content, i) = Der(tag, content, j)
  <2> SUFFICES ASSUME v # <<>> PROVE Der(tag, content, i) = Der(tag, content, j)
    OBVIOUS
  <2> HIDE DEF tag, content
  <2> DEFINE number == IF Segmented(tag) THEN TagNumber(tag) ELSE OctetString
  <2>1. number \in {BitString, OctetString}
    BY DEF Segmented
  <2>2. i.flat[number][content] = j.flat[number][content] /\ i.der[content] = j.der[content]
    <3> HIDE DEF number
    <3> QED BY <1>4, <2>1 DEF Alike
  <2>3. ImplicitOctets(tag, content, i) = ImplicitOctets(tag, content, j)
    BY <1>4 DEF Alike, ImplicitOctets
  <2> QED BY <2>2, <2>3, ZenonT(60) DEF Der
<1>7. Rewrite(b, i) = Rewrite(b, j)
  <2>1. CASE Starts(b, EndOfContents)
    BY <2>1 DEF Rewrite
  <2>2. CASE ~Starts(b, EndOfContents)
    <3>1. CASE v = <<>>
      BY <1>1, <2>2, <3>1 DEF Rewrite, v
    <3>2. CASE v # <<>>
      BY <1>1, <1>6, <2>2, <3>2, ZenonT(60) DEF Rewrite, v, tag, content
    <3> QED BY <3>1, <3>2
  <2> QED BY <2>1, <2>2
<1>8. OctetStrings(b, i) = OctetStrings(b, j)
  <2> DEFINE rest == After(b, 1)
             length == LengthOf(rest)
             end == 1 + length[2] + length[1]
  <2>1. \A k : OctetStrings(b, k) =
          (/\ b # <<>> /\ b[1] = OctetString
           /\ length # <<>> /\ length[1] # Indefinite
           /\ Len(b) >= end
           /\ Len(b) = end \/ k.octets[After(b, end)])
    BY DEF OctetStrings
  <2>2. CASE b # <<>> /\ length # <<>> /\ length[1] # Indefinite /\ Len(b) >= end
    <3>1. rest \in Octets
      <4>1. 1 \in Nat /\ 1 <= Len(b)
        BY <1>2, <2>2, Sizes
      <4> QED BY <4>1, PartsOf
    <3>2. length[1] \in Nat /\ length[2] \in Nat /\ length[2] >= 1
      <4> HIDE DEF rest
      <4> QED BY <2>2, <3>1, LengthSize
    <3> HIDE DEF length, rest
    <3>3. end \in Nat /\ end >= 2 /\ end <= Len(b)
      BY <1>2, <2>2, <3>2
    <3> HIDE DEF end
    <3>4. After(b, end) \in Octets /\ Len(After(b, end)) = Len(b) - end
      BY <3>3, PartsOf
    <3>5. Len(After(b, end)) < Len(b)
      BY <1>2, <3>3, <3>4
    <3>6. i.octets[After(b, end)] = j.octets[After(b, end)]
      BY <3>4, <3>5 DEF AlikeBelow, Alike
    <3> QED BY <2>1, <3>6, ZenonT(60)
  <2>3. CASE ~(b # <<>> /\ length # <<>> /\ length[1] # Indefinite /\ Len(b) >= end)
    <3> HIDE DEF length, end
    <3> QED BY <2>1, <2>3, ZenonT(60)
  <2> QED BY <2>2, <2>3
<1>9. ASSUME NEW number \in {BitString, OctetString} PROVE Flatten(number, b, i) = Flatten(number, b, j)
  <2>1. CASE b = <<>>
    BY <2>1 DEF Flatten
  <2>2. CASE b # <<>> /\ v = <<>>
    BY <1>1, <2>2 DEF Flatten, v
  <2>3. CASE b # <<>> /\ v # <<>>
    <3>1. /\ i.flat[number][content] = j.flat[number][content]
          /\ i.flat[number][After(b, v[3])] = j.flat[number][After(b, v[3])]
      <4> HIDE DEF content
      <4> QED BY <1>4, <1>5, <1>9, <2>3 DEF Alike
    <3> QED BY <1>1, <2>3, <3>1, ZenonT(60) DEF Flatten, v, content
  <2> QED BY <2>1, <2>2, <2>3
<1> QED BY <1>7, <1>8, <1>9

\* Those made of b by a walk to the end of contents, and by the loop of normalize, are
\* of the value in front and of fewer bytes.
LEMMA SmallerWalks ==
  ASSUME NEW b \in Octets, NEW i, Sound(i), NEW j, AlikeBelow(i, j, b), i.rewrite[b] = j.rewrite[b]
  PROVE  Extent(b, i) = Extent(b, j) /\ Normalized(b, i) = Normalized(b, j)
<1> DEFINE first == i.rewrite[b]
           rest == After(b, first[2])
<1>1. first # <<>> => i.extent[rest] = j.extent[rest] /\ i.der[rest] = j.der[rest]
  <2> SUFFICES ASSUME first # <<>> PROVE i.extent[rest] = j.extent[rest] /\ i.der[rest] = j.der[rest]
    OBVIOUS
  <2>1. first[2] \in Nat /\ first[2] >= 1 /\ first[2] <= Len(b)
    BY DEF Sound
  <2> HIDE DEF first
  <2>2. rest \in Octets /\ Len(rest) = Len(b) - first[2] /\ Len(b) \in Nat
    BY <2>1, PartsOf, Byteses
  <2>3. Len(rest) < Len(b)
    BY <2>1, <2>2
  <2> QED BY <2>2, <2>3 DEF AlikeBelow, Alike
<1>2. Extent(b, i) = Extent(b, j)
  <2>1. CASE first = <<>>
    BY <2>1, ZenonT(60) DEF Extent
  <2>2. CASE first # <<>>
    BY <1>1, <2>2, ZenonT(60) DEF Extent
  <2> QED BY <2>1, <2>2
<1>3. Normalized(b, i) = Normalized(b, j)
  <2>1. CASE first = <<>>
    BY <2>1, ZenonT(60) DEF Normalized
  <2>2. CASE first # <<>>
    BY <1>1, <2>2, ZenonT(60) DEF Normalized
  <2> QED BY <2>1, <2>2
<1> QED BY <1>2, <1>3

\* Where the end of contents is in front, there are two bytes.
LEMMA EndInFront ==
  ASSUME NEW b \in Octets, Starts(b, EndOfContents)
  PROVE  Len(b) >= 2
<1>1. Len(EndOfContents) <= Len(b)
  BY DEF Starts, IsPrefix
<1>2. Len(EndOfContents) = 2
  BY DEF EndOfContents
<1> QED BY <1>1, <1>2, Byteses

\* Answers that stay within the bytes are made of answers that do.
LEMMA SoundStep ==
  ASSUME NEW b \in Octets, NEW i, Sound(i)
  PROVE  /\ Rewrite(b, i) # <<>> =>
              Rewrite(b, i)[2] \in Nat /\ Rewrite(b, i)[2] >= 1 /\ Rewrite(b, i)[2] <= Len(b)
         /\ Extent(b, i) \in Nat /\ Extent(b, i) # 1 /\ Extent(b, i) <= Len(b)
<1>0. Len(b) \in Nat
  BY Byteses
<1>1. CASE Starts(b, EndOfContents)
  <2>1. Len(b) >= 2
    BY <1>1, EndInFront
  <2>2. Rewrite(b, i) = << <<>>, 2 >> /\ Extent(b, i) = 2
    BY <1>1 DEF Rewrite, Extent
  <2> QED BY <1>0, <2>1, <2>2
<1>2. CASE ~Starts(b, EndOfContents)
  <2>1. Rewrite(b, i) # <<>> =>
          Rewrite(b, i)[2] \in Nat /\ Rewrite(b, i)[2] >= 1 /\ Rewrite(b, i)[2] <= Len(b)
    <3> DEFINE v == Value(b, i)
               der == Der(v[1], v[2], i)
               whole == <<der[1], v[3]>>
    <3>1. Rewrite(b, i) = IF v = <<>> THEN <<>> ELSE IF der = <<>> THEN <<>> ELSE whole
      BY <1>2 DEF Rewrite
    <3>2. v # <<>> => v[2] \in Octets /\ v[3] \in Nat /\ Len(v[2]) + 2 <= v[3] /\ v[3] <= Len(b)
      BY FirstValue, ZenonT(60)
    <3>3. whole[2] = v[3]
      OBVIOUS
    <3>4. v # <<>> => Len(v[2]) \in Nat
      BY <3>2, Byteses
    <3> HIDE DEF v, der, whole
    <3>5. v # <<>> => v[3] \in Nat /\ v[3] >= 1 /\ v[3] <= Len(b)
      BY <3>2, <3>4
    <3>6. Rewrite(b, i) # <<>> => v # <<>> /\ Rewrite(b, i) = whole
      BY <3>1, ZenonT(60)
    <3> QED BY <3>3, <3>5, <3>6
  <2>2. Extent(b, i) \in Nat /\ Extent(b, i) # 1 /\ Extent(b, i) <= Len(b)
    <3> DEFINE first == i.rewrite[b]
               rest == After(b, first[2])
               x == i.extent[rest]
    <3>1. Extent(b, i) = IF first = <<>> THEN 0 ELSE IF x = 0 THEN 0 ELSE first[2] + x
      BY <1>2 DEF Extent
    <3>2. CASE first = <<>>
      <4> HIDE DEF x, first
      <4> QED BY <1>0, <3>1, <3>2
    <3>3. CASE first # <<>>
      <4>1. first[2] \in Nat /\ first[2] >= 1 /\ first[2] <= Len(b)
        BY <3>3 DEF Sound
      <4> HIDE DEF first
      <4>2. rest \in Octets /\ Len(rest) = Len(b) - first[2]
        BY <4>1, PartsOf
      <4> HIDE DEF rest
      <4>3. x \in Nat /\ x # 1 /\ x <= Len(rest)
        BY <4>2 DEF Sound
      <4> HIDE DEF x
      <4> QED BY <1>0, <3>1, <3>3, <4>1, <4>2, <4>3
    <3> QED BY <3>2, <3>3
  <2> QED BY <2>1, <2>2
<1> QED BY <1>1, <1>2

\* Calls that are answered by their definitions, from what inner ones answer.
AnsweredBy(outer, inner, b) ==
  /\ outer.rewrite[b] = Rewrite(b, inner) /\ outer.octets[b] = OctetStrings(b, inner)
  /\ \A number \in {BitString, OctetString} : outer.flat[number][b] = Flatten(number, b, inner)
  /\ outer.extent[b] = Extent(b, inner) /\ outer.der[b] = Normalized(b, inner)

\* Those of Calls are.
LEMMA CallsAnswer ==
  ASSUME NEW inner, NEW b \in Octets
  PROVE  AnsweredBy(Calls(inner), inner, b)
<1>1. /\ Calls(inner).rewrite = [c \in Octets |-> Rewrite(c, inner)]
      /\ Calls(inner).extent = [c \in Octets |-> Extent(c, inner)]
      /\ Calls(inner).octets = [c \in Octets |-> OctetStrings(c, inner)]
      /\ Calls(inner).der = [c \in Octets |-> Normalized(c, inner)]
  BY DEF Calls
<1>2. Calls(inner).flat = [number \in {BitString, OctetString} |-> [c \in Octets |-> Flatten(number, c, inner)]]
  BY DEF Calls
<1>3. \A number \in {BitString, OctetString} : Calls(inner).flat[number][b] = Flatten(number, b, inner)
  <2> TAKE number \in {BitString, OctetString}
  <2> DEFINE numbers == {BitString, OctetString}
  <2>1. number \in numbers
    OBVIOUS
  <2> HIDE DEF numbers
  <2>2. Calls(inner).flat = [q \in numbers |-> [c \in Octets |-> Flatten(q, c, inner)]]
    BY <1>2 DEF numbers
  <2>3. Calls(inner).flat[number] = [c \in Octets |-> Flatten(number, c, inner)]
    BY <2>1, <2>2
  <2> QED BY <2>3
<1>4. /\ Calls(inner).rewrite[b] = Rewrite(b, inner) /\ Calls(inner).octets[b] = OctetStrings(b, inner)
      /\ Calls(inner).extent[b] = Extent(b, inner) /\ Calls(inner).der[b] = Normalized(b, inner)
  BY <1>1, ZenonT(60)
<1> QED BY <1>3, <1>4 DEF AnsweredBy

\* No reading goes beyond the bytes it was given.
LEMMA ReadingSound == \A n \in Nat : Sound(Reading[n])
<1> DEFINE T == {n \in Nat : Sound(Reading[n])}
<1>1. 0 \in T
  <2>1. Reading[0] = Exhausted
    BY ReadingTable
  <2>2. ASSUME NEW c \in Octets PROVE Exhausted.rewrite[c] = <<>> /\ Exhausted.extent[c] = 0
    BY DEF Exhausted
  <2>3. Sound(Exhausted)
    BY <2>2, Byteses DEF Sound
  <2> QED BY <2>1, <2>3
<1>2. ASSUME NEW n \in Nat, n \in T PROVE n + 1 \in T
  <2> DEFINE i == Reading[n]
             o == Reading[n + 1]
  <2>1. Sound(i) /\ o = Calls(i)
    BY <1>2, ReadingTable
  <2> HIDE DEF i, o
  <2>2. ASSUME NEW c \in Octets
        PROVE  /\ o.rewrite[c] # <<>> => o.rewrite[c][2] \in Nat /\ o.rewrite[c][2] >= 1 /\ o.rewrite[c][2] <= Len(c)
               /\ o.extent[c] \in Nat /\ o.extent[c] # 1 /\ o.extent[c] <= Len(c)
    <3>1. o.rewrite[c] = Rewrite(c, i) /\ o.extent[c] = Extent(c, i)
      BY <2>1, CallsAnswer DEF AnsweredBy
    <3> QED BY <2>1, <3>1, SoundStep
  <2>3. Sound(o)
    BY <2>2 DEF Sound
  <2> QED BY <2>3 DEF o
<1> HIDE DEF T
<1>3. Nat \subseteq T
  BY <1>1, <1>2, InductionOn
<1> QED BY <1>3 DEF T

\* With two calls for every byte, and two more, what is answered is settled: it is
\* alike with any more.
LEMMA Settles ==
  \A b \in Octets, m, n \in Nat :
    m >= 2 * Len(b) + 2 /\ n >= 2 * Len(b) + 2 => Alike(Reading[m], Reading[n], b)
<1> DEFINE Settled(b, m, n) ==
             m >= 2 * Len(b) + 2 /\ n >= 2 * Len(b) + 2 => Alike(Reading[m], Reading[n], b)
           T == {l \in Nat : \A b \in Octets : Len(b) < l => \A m, n \in Nat : Settled(b, m, n)}
<1>1. 0 \in T
  <2>1. \A b \in Octets : Len(b) \in Nat
    BY Byteses
  <2>2. \A b \in Octets : ~(Len(b) < 0)
    BY <2>1
  <2> HIDE DEF Settled
  <2> QED BY <2>2
<1>2. ASSUME NEW l \in Nat, l \in T PROVE l + 1 \in T
  <2>1. ASSUME NEW b \in Octets, Len(b) = l, NEW m \in Nat, NEW n \in Nat, m >= 2 * l + 1, n >= 2 * l + 1
        PROVE  AlikeBelow(Reading[m - 1], Reading[n - 1], b)
    <3>1. m - 1 \in Nat /\ n - 1 \in Nat
      BY <2>1
    <3> SUFFICES ASSUME NEW c \in Octets, Len(c) < Len(b) PROVE Alike(Reading[m - 1], Reading[n - 1], c)
      BY DEF AlikeBelow
    <3>2. Len(c) \in Nat
      BY Byteses
    <3>3. m - 1 >= 2 * Len(c) + 2 /\ n - 1 >= 2 * Len(c) + 2
      BY <2>1, <3>2
    <3>4. Settled(c, m - 1, n - 1)
      <4>1. Len(c) < l
        BY <2>1
      <4> HIDE DEF Settled
      <4> QED BY <1>2, <3>1, <4>1
    <3> QED BY <3>3, <3>4
  <2>2. ASSUME NEW m \in Nat, m >= 2 * l + 1
        PROVE  /\ m - 1 \in Nat /\ Sound(Reading[m - 1]) /\ Reading[m] = Calls(Reading[m - 1])
    <3> DEFINE k == m - 1
    <3>1. k \in Nat /\ k + 1 = m
      BY <2>2
    <3> HIDE DEF k
    <3>2. Sound(Reading[k]) /\ Reading[k + 1] = Calls(Reading[k])
      BY <3>1, ReadingSound, ReadingTable
    <3> QED BY <3>1, <3>2 DEF k
  <2>3. ASSUME NEW b \in Octets, Len(b) = l, NEW m \in Nat, NEW n \in Nat, m >= 2 * l + 1, n >= 2 * l + 1
        PROVE  /\ Reading[m].rewrite[b] = Reading[n].rewrite[b] /\ Reading[m].octets[b] = Reading[n].octets[b]
               /\ \A number \in {BitString, OctetString} : Reading[m].flat[number][b] = Reading[n].flat[number][b]
    <3> DEFINE i == Reading[m - 1]
               j == Reading[n - 1]
    <3>1. Sound(i) /\ Reading[m] = Calls(i) /\ Reading[n] = Calls(j)
      BY <2>2, <2>3
    <3>2. AlikeBelow(i, j, b)
      BY <2>1, <2>3
    <3> HIDE DEF i, j
    <3>3. AnsweredBy(Reading[m], i, b) /\ AnsweredBy(Reading[n], j, b)
      BY <3>1, CallsAnswer
    <3>4. /\ Rewrite(b, i) = Rewrite(b, j) /\ OctetStrings(b, i) = OctetStrings(b, j)
          /\ \A number \in {BitString, OctetString} : Flatten(number, b, i) = Flatten(number, b, j)
      BY <3>1, <3>2, SmallerCalls
    <3> QED BY <3>3, <3>4, ZenonT(60) DEF AnsweredBy
  <2>4. ASSUME NEW b \in Octets, Len(b) = l, NEW m \in Nat, NEW n \in Nat, m >= 2 * l + 2, n >= 2 * l + 2
        PROVE  Alike(Reading[m], Reading[n], b)
    <3> DEFINE i == Reading[m - 1]
               j == Reading[n - 1]
    <3>1. m >= 2 * l + 1 /\ n >= 2 * l + 1 /\ m - 1 >= 2 * l + 1 /\ n - 1 >= 2 * l + 1
      BY <2>4
    <3>2. Sound(i) /\ Reading[m] = Calls(i) /\ Reading[n] = Calls(j)
      BY <2>2, <3>1
    <3>3. AlikeBelow(i, j, b)
      BY <2>1, <2>4, <3>1
    <3>4. i.rewrite[b] = j.rewrite[b]
      BY <2>2, <2>3, <2>4, <3>1
    <3> HIDE DEF i, j
    <3>5. AnsweredBy(Reading[m], i, b) /\ AnsweredBy(Reading[n], j, b)
      BY <3>2, CallsAnswer
    <3>6. Extent(b, i) = Extent(b, j) /\ Normalized(b, i) = Normalized(b, j)
      BY <3>2, <3>3, <3>4, SmallerWalks
    <3>7. /\ Reading[m].rewrite[b] = Reading[n].rewrite[b] /\ Reading[m].octets[b] = Reading[n].octets[b]
          /\ \A number \in {BitString, OctetString} : Reading[m].flat[number][b] = Reading[n].flat[number][b]
      BY <2>3, <2>4, <3>1
    <3>8. Reading[m].extent[b] = Reading[n].extent[b] /\ Reading[m].der[b] = Reading[n].der[b]
      BY <3>5, <3>6 DEF AnsweredBy
    <3> QED BY <3>7, <3>8 DEF Alike
  <2>5. ASSUME NEW b \in Octets, Len(b) < l + 1, NEW m \in Nat, NEW n \in Nat PROVE Settled(b, m, n)
    <3>1. Len(b) < l \/ Len(b) = l
      <4>1. Len(b) \in Nat
        BY Byteses
      <4> QED BY <2>5, <4>1
    <3>2. CASE Len(b) < l
      <4> HIDE DEF Settled
      <4> QED BY <1>2, <3>2
    <3>3. CASE Len(b) = l
      BY <2>4, <3>3
    <3> QED BY <3>1, <3>2, <3>3
  <2> HIDE DEF Settled
  <2> QED BY <2>5
<1> HIDE DEF T
<1>3. Nat \subseteq T
  BY <1>1, <1>2, InductionOn
<1>4. ASSUME NEW b \in Octets, NEW m \in Nat, NEW n \in Nat PROVE Settled(b, m, n)
  <2> DEFINE l == Len(b) + 1
  <2>1. l \in Nat /\ Len(b) < l
    <3>1. Len(b) \in Nat
      BY Byteses
    <3> QED BY <3>1
  <2> HIDE DEF l, Settled
  <2>2. l \in T
    BY <1>3, <2>1
  <2> QED BY <2>1, <2>2 DEF T
<1> QED BY <1>4

\* What the calls answer when they may be nested as deep as the bytes they are given ask for.
Settled ==
  LET at(b) == Reading[2 * Len(b) + 2]
  IN [rewrite |-> [b \in Octets |-> at(b).rewrite[b]],
      extent |-> [b \in Octets |-> at(b).extent[b]],
      flat |-> [number \in {BitString, OctetString} |-> [b \in Octets |-> at(b).flat[number][b]]],
      octets |-> [b \in Octets |-> at(b).octets[b]],
      der |-> [b \in Octets |-> at(b).der[b]]]

\* It is what any reading with more calls answers.
LEMMA SettledAt ==
  ASSUME NEW b \in Octets, NEW n \in Nat, n >= 2 * Len(b) + 2
  PROVE  Alike(Settled, Reading[n], b)
<1> DEFINE m == 2 * Len(b) + 2
           i == Reading[m]
<1>1. m \in Nat /\ m >= 2 * Len(b) + 2
  <2>1. Len(b) \in Nat
    BY Byteses
  <2> QED BY <2>1
<1>2. Alike(i, Reading[n], b)
  <2> HIDE DEF m
  <2> QED BY <1>1, Settles
<1>3. Settled.rewrite[b] = i.rewrite[b] /\ Settled.octets[b] = i.octets[b]
  BY DEF Settled
<1>4. Settled.extent[b] = i.extent[b] /\ Settled.der[b] = i.der[b]
  BY DEF Settled
<1>5. ASSUME NEW number \in {BitString, OctetString} PROVE Settled.flat[number][b] = i.flat[number][b]
  <2> DEFINE numbers == {BitString, OctetString}
             at(c) == Reading[2 * Len(c) + 2]
  <2>1. number \in numbers
    BY <1>5
  <2>2. Settled.flat = [q \in numbers |-> [c \in Octets |-> at(c).flat[q][c]]]
    BY DEF Settled
  <2> HIDE DEF numbers, at
  <2>3. Settled.flat[number] = [c \in Octets |-> at(c).flat[number][c]]
    BY <2>1, <2>2
  <2>4. Settled.flat[number][b] = at(b).flat[number][b]
    BY <2>3
  <2> QED BY <2>4 DEF at
<1> HIDE DEF i
<1> QED BY <1>2, <1>3, <1>4, <1>5, ZenonT(60) DEF Alike

\* It stays within the bytes.
LEMMA SettledSound == Sound(Settled)
<1> SUFFICES ASSUME NEW b \in Octets
             PROVE  /\ Settled.rewrite[b] # <<>> => /\ Settled.rewrite[b][2] \in Nat
                                                   /\ Settled.rewrite[b][2] >= 1 /\ Settled.rewrite[b][2] <= Len(b)
                    /\ Settled.extent[b] \in Nat /\ Settled.extent[b] # 1 /\ Settled.extent[b] <= Len(b)
  BY DEF Sound
<1> DEFINE m == 2 * Len(b) + 2
           i == Reading[m]
<1>1. m \in Nat /\ m >= 2 * Len(b) + 2
  <2>1. Len(b) \in Nat
    BY Byteses
  <2> QED BY <2>1
<1>2. Alike(Settled, i, b) /\ Sound(i)
  <2> HIDE DEF m
  <2> QED BY <1>1, SettledAt, ReadingSound
<1> HIDE DEF m, i
<1>3. Settled.rewrite[b] = i.rewrite[b] /\ Settled.extent[b] = i.extent[b]
  BY <1>2 DEF Alike
<1> QED BY <1>2, <1>3 DEF Sound

\* It answers as the definitions do from its own answers.
LEMMA SettledAnswers == \A b \in Octets : AnsweredBy(Settled, Settled, b)
<1> SUFFICES ASSUME NEW b \in Octets PROVE AnsweredBy(Settled, Settled, b)
  OBVIOUS
<1> DEFINE m == 2 * Len(b) + 2
           i == Reading[m]
           o == Reading[m + 1]
<1>1. Len(b) \in Nat /\ m \in Nat /\ m >= 2 * Len(b) + 2 /\ m + 1 \in Nat /\ m + 1 >= 2 * Len(b) + 2
  <2>1. Len(b) \in Nat
    BY Byteses
  <2> QED BY <2>1
<1>2. Sound(i) /\ o = Calls(i) /\ Alike(Settled, i, b) /\ Alike(Settled, o, b)
  <2> HIDE DEF m
  <2> QED BY <1>1, ReadingSound, ReadingTable, SettledAt
<1>3. AlikeBelow(i, Settled, b)
  <2> SUFFICES ASSUME NEW c \in Octets, Len(c) < Len(b) PROVE Alike(i, Settled, c)
    BY DEF AlikeBelow
  <2>1. Len(c) \in Nat
    BY Byteses
  <2>2. m >= 2 * Len(c) + 2
    BY <1>1, <2>1
  <2>3. Alike(Settled, i, c)
    <3> HIDE DEF m
    <3> QED BY <1>1, <2>2, SettledAt
  <2> HIDE DEF i
  <2> QED BY <2>3, ZenonT(60) DEF Alike
<1> HIDE DEF m, i, o
<1>4. AnsweredBy(o, i, b)
  BY <1>2, CallsAnswer
<1>5. /\ Rewrite(b, i) = Rewrite(b, Settled) /\ OctetStrings(b, i) = OctetStrings(b, Settled)
      /\ \A number \in {BitString, OctetString} : Flatten(number, b, i) = Flatten(number, b, Settled)
  BY <1>2, <1>3, SmallerCalls
<1>6. Extent(b, i) = Extent(b, Settled) /\ Normalized(b, i) = Normalized(b, Settled)
  <2>1. i.rewrite[b] = Settled.rewrite[b]
    BY <1>2 DEF Alike
  <2> QED BY <1>2, <1>3, <2>1, SmallerWalks
<1> QED BY <1>2, <1>4, <1>5, <1>6, ZenonT(60) DEF AnsweredBy, Alike

\* Nothing else does.
LEMMA NothingElse ==
  ASSUME NEW j, \A b \in Octets : AnsweredBy(j, j, b)
  PROVE  \A b \in Octets : Alike(Settled, j, b)
<1> DEFINE T == {l \in Nat : \A b \in Octets : Len(b) < l => Alike(Settled, j, b)}
<1>1. 0 \in T
  <2>1. \A b \in Octets : Len(b) \in Nat
    BY Byteses
  <2>2. \A b \in Octets : ~(Len(b) < 0)
    BY <2>1
  <2> QED BY <2>2
<1>2. ASSUME NEW l \in Nat, l \in T PROVE l + 1 \in T
  <2>1. ASSUME NEW b \in Octets, Len(b) < l + 1 PROVE Alike(Settled, j, b)
    <3>1. AlikeBelow(Settled, j, b)
      <4> SUFFICES ASSUME NEW c \in Octets, Len(c) < Len(b) PROVE Alike(Settled, j, c)
        BY DEF AlikeBelow
      <4>1. Len(c) \in Nat /\ Len(b) \in Nat
        BY Byteses
      <4>2. Len(c) < l
        BY <2>1, <4>1
      <4> QED BY <1>2, <4>2
    <3>2. Sound(Settled)
      BY SettledSound
    <3>3. AnsweredBy(Settled, Settled, b) /\ AnsweredBy(j, j, b)
      BY SettledAnswers
    <3>4. /\ Rewrite(b, Settled) = Rewrite(b, j) /\ OctetStrings(b, Settled) = OctetStrings(b, j)
          /\ \A number \in {BitString, OctetString} : Flatten(number, b, Settled) = Flatten(number, b, j)
      BY <3>1, <3>2, SmallerCalls
    <3>5. /\ Settled.rewrite[b] = j.rewrite[b] /\ Settled.octets[b] = j.octets[b]
          /\ \A number \in {BitString, OctetString} : Settled.flat[number][b] = j.flat[number][b]
      BY <3>3, <3>4, ZenonT(60) DEF AnsweredBy
    <3>6. Extent(b, Settled) = Extent(b, j) /\ Normalized(b, Settled) = Normalized(b, j)
      BY <3>1, <3>2, <3>5, SmallerWalks
    <3>7. Settled.extent[b] = j.extent[b] /\ Settled.der[b] = j.der[b]
      BY <3>3, <3>6 DEF AnsweredBy
    <3> QED BY <3>5, <3>7 DEF Alike
  <2> QED BY <2>1
<1> HIDE DEF T
<1>3. Nat \subseteq T
  BY <1>1, <1>2, InductionOn
<1> SUFFICES ASSUME NEW b \in Octets PROVE Alike(Settled, j, b)
  OBVIOUS
<1> DEFINE l == Len(b) + 1
<1>4. l \in Nat /\ Len(b) < l
  <2>1. Len(b) \in Nat
    BY Byteses
  <2> QED BY <2>1
<1> HIDE DEF l
<1>5. l \in T
  BY <1>3, <1>4
<1> QED BY <1>4, <1>5 DEF T

\* The rewriting of ber_to_der.rs ends on every input: there is one answer, and no other,
\* of each of its functions for all bytes that is what its text makes of the answers of
\* the calls it makes (a call that waited for itself would leave it open), and that of
\* normalize is the one the model computes under its bound on nested calls, or under any
\* larger one.
THEOREM RewritingEnds ==
  /\ \A b \in Octets : AnsweredBy(Settled, Settled, b)
  /\ \A other : (\A b \in Octets : AnsweredBy(other, other, b)) => \A b \in Octets : Alike(Settled, other, b)
  /\ \A b \in Octets : Settled.der[b] = Normalize(b)
  /\ \A b \in Octets, n \in Nat : n >= 2 * Len(b) + 2 => Reading[n].der[b] = Normalize(b)
<1>1. ASSUME NEW b \in Octets, NEW n \in Nat, n >= 2 * Len(b) + 2
      PROVE  Reading[n].der[b] = Settled.der[b]
  <2>1. Alike(Settled, Reading[n], b)
    BY <1>1, SettledAt
  <2> QED BY <2>1 DEF Alike
<1>2. ASSUME NEW b \in Octets PROVE Settled.der[b] = Normalize(b)
  BY DEF Settled, Normalize
<1> QED BY <1>1, <1>2, SettledAnswers, NothingElse

-----------------------------------------------------------------------------
(* The DER of one value, and of no other. *)

\* The DER of one value.
Coded == {d \in Octets : \E t \in Tag, c \in Octets : Brief(c) /\ d = Short(t, c)}

\* It is a tag and a content that can be told.
LEMMA CodedShort ==
  /\ \A t \in Tag, c \in Octets : Brief(c) => Short(t, c) \in Coded
  /\ \A d \in Coded : d \in Octets /\ d # <<>>
  /\ \A t, u \in Tag : \A c, e \in Octets :
       Brief(c) /\ Brief(e) /\ Short(t, c) = Short(u, e) => t = u /\ c = e
<1>1. ASSUME NEW t \in Tag, NEW c \in Octets, Brief(c)
      PROVE  Plain(Short(t, c), t, c) /\ Short(t, c) \in Octets /\ Short(t, c) # <<>>
  <2>1. Plain(Short(t, c), t, c)
    BY <1>1, FormOf, ZenonT(60)
  <2> QED BY <2>1 DEF Plain
<1>2. ASSUME NEW t \in Tag, NEW c \in Octets, Brief(c) PROVE Short(t, c) \in Coded
  BY <1>1, <1>2 DEF Coded
<1>3. ASSUME NEW d \in Coded PROVE d \in Octets /\ d # <<>>
  <2>1. PICK t \in Tag, c \in Octets : Brief(c) /\ d = Short(t, c)
    BY DEF Coded
  <2> QED BY <1>1, <2>1
<1>4. ASSUME NEW t \in Tag, NEW u \in Tag, NEW c \in Octets, NEW e \in Octets,
             Brief(c), Brief(e), Short(t, c) = Short(u, e)
      PROVE  t = u /\ c = e
  <2> DEFINE b == Short(t, c)
             s == Glue(b, <<>>)
             v == Value(s, Exhausted)
             l == Len(b)
  <2>1. Plain(b, t, c) /\ Plain(b, u, e)
    BY <1>1, <1>4
  <2>2. <<>> \in Octets
    BY Byteses
  <2> HIDE DEF b
  <2>3. v = << <<t>>, c, l >> /\ v = << <<u>>, e, l >>
    BY <2>1, <2>2 DEF Plain
  <2> HIDE DEF v, l
  <2> QED BY <2>3
<1> QED BY <1>2, <1>3, <1>4

\* The DER of a value, with other bytes behind it, is told from them.
LEMMA CodedApart ==
  ASSUME NEW d \in Coded, NEW e \in Coded, NEW x \in Octets, NEW y \in Octets, Glue(d, x) = Glue(e, y)
  PROVE  d = e /\ x = y
<1>1. PICK t \in Tag, c \in Octets : Brief(c) /\ d = Short(t, c)
  BY DEF Coded
<1>2. PICK u \in Tag, f \in Octets : Brief(f) /\ e = Short(u, f)
  BY DEF Coded
<1>3. Plain(d, t, c) /\ Plain(e, u, f)
  <2>1. Plain(Short(t, c), t, c)
    BY <1>1, FormOf, ZenonT(60)
  <2>2. Plain(Short(u, f), u, f)
    BY <1>2, FormOf, ZenonT(60)
  <2> QED BY <1>1, <1>2, <2>1, <2>2
<1> DEFINE v == Value(Glue(d, x), Exhausted)
           l == Len(d)
           m == Len(e)
<1>4. v = << <<t>>, c, l >> /\ v = << <<u>>, f, m >>
  <2>1. v = << <<t>>, c, l >>
    BY <1>3 DEF Plain
  <2>2. Value(Glue(e, y), Exhausted) = << <<u>>, f, m >>
    BY <1>3 DEF Plain
  <2> HIDE DEF l, m
  <2> QED BY <2>1, <2>2
<1> HIDE DEF v
<1>5. t = u /\ c = f /\ l = m
  <2> HIDE DEF l, m
  <2> QED BY <1>4
<1>6. d = e
  BY <1>1, <1>2, <1>5
<1>7. After(Glue(d, x), l) = x /\ After(Glue(e, y), m) = y
  BY CodedShort, Cuts
<1> HIDE DEF l, m
<1> QED BY <1>5, <1>6, <1>7

\* So a row of them is told value by value.
LEMMA CodedRows ==
  \A A, B \in Seq(Coded) : FlattenSeq(A) = FlattenSeq(B) => A = B
<1> DEFINE S == Coded
           T == {A \in Seq(S) : \A B \in Seq(S) : FlattenSeq(A) = FlattenSeq(B) => A = B}
<1>0. \A A \in Seq(S) : A \in Seq(Octets)
  <2>1. S \subseteq Octets
    BY DEF Coded
  <2> HIDE DEF S
  <2> QED BY <2>1, SeqMonotonic
<1>1. ASSUME NEW x, x \in S, NEW B, B \in Seq(S)
      PROVE  /\ x \in Octets /\ x # <<>> /\ FlattenSeq(B) \in Octets
             /\ FlattenSeq(Cons(x, B)) = Glue(x, FlattenSeq(B)) /\ FlattenSeq(Cons(x, B)) # <<>>
  <2>1. x \in Octets /\ x # <<>> /\ B \in Seq(Octets)
    BY <1>0, <1>1, CodedShort
  <2>2. FlattenSeq(B) \in Octets /\ FlattenSeq(Cons(x, B)) = Glue(x, FlattenSeq(B))
    BY <2>1, RowBytes
  <2>3. Glue(x, FlattenSeq(B)) # <<>>
    BY <2>1, <2>2, FirstBytes
  <2> QED BY <2>1, <2>2, <2>3
<1>2. ASSUME NEW B, B \in Seq(S)
      PROVE  B = <<>> \/ \E y \in S, D \in Seq(S) : B = Cons(y, D)
  <2> HIDE DEF S
  <2> QED BY <1>2, Leads
<1>3. <<>> \in T
  <2>1. ASSUME NEW B, B \in Seq(S), FlattenSeq(<<>>) = FlattenSeq(B) PROVE <<>> = B
    <3>1. FlattenSeq(B) = <<>>
      BY <2>1, RowBytes
    <3> HIDE DEF S
    <3> QED BY <1>1, <1>2, <2>1, <3>1
  <2>2. <<>> \in Seq(S)
    OBVIOUS
  <2> HIDE DEF S
  <2> QED BY <2>1, <2>2
<1>4. ASSUME NEW C, C \in Seq(S), C \in T, NEW x, x \in S PROVE Cons(x, C) \in T
  <2>1. ASSUME NEW B, B \in Seq(S), FlattenSeq(Cons(x, C)) = FlattenSeq(B) PROVE Cons(x, C) = B
    <3>1. B # <<>>
      <4>1. FlattenSeq(Cons(x, C)) # <<>>
        BY <1>1, <1>4
      <4> QED BY <2>1, <4>1, RowBytes
    <3>2. PICK y \in S, D \in Seq(S) : B = Cons(y, D)
      BY <1>2, <2>1, <3>1
    <3>3. Glue(x, FlattenSeq(C)) = Glue(y, FlattenSeq(D))
      BY <1>1, <1>4, <2>1, <3>2
    <3>4. FlattenSeq(C) \in Octets /\ FlattenSeq(D) \in Octets
      BY <1>1, <1>4, <3>2
    <3>5. x = y /\ FlattenSeq(C) = FlattenSeq(D)
      BY <1>4, <3>3, <3>4, CodedApart
    <3>6. C = D
      <4> HIDE DEF S
      <4> QED BY <1>4, <3>2, <3>5
    <3> QED BY <3>2, <3>5, <3>6
  <2>2. Cons(x, C) \in Seq(S)
    <3> HIDE DEF S
    <3> QED BY <1>4, Leads
  <2> HIDE DEF S
  <2> QED BY <2>1, <2>2
<1> HIDE DEF T
<1>5. Seq(S) \subseteq T
  <2> HIDE DEF S
  <2>1. \A C \in Seq(S) : C \in T => \A x \in S : Cons(x, C) \in T
    BY <1>4
  <2> QED BY <1>3, <2>1, FrontInduction
<1> QED BY <1>5 DEF T

\* The DER of values, by their depth.
DerBy(der) ==
  /\ \A n \in 1..BerDepth : der[n] = [v \in Tree[n] |-> DerForm(v, der[n - 1])]
  /\ \A v : DerOf(v) = der[BerDepth][v]

\* What is around what: a value of bytes, or of values.
LEMMA LayerForm ==
  ASSUME NEW values, NEW v, v \in Layer(values), NEW der
  PROVE  \/ /\ v[1] # "node" /\ v[2] \in AtomTag /\ v[3] \in Octets /\ DerForm(v, der) = Short(v[2], v[3])
         \/ /\ v[1] = "node" /\ v[2] \in NodeTag /\ v[3] \in Seq(values)
            /\ DerForm(v, der) = Short(v[2], FlattenSeq([i \in DOMAIN v[3] |-> der[v[3][i]]]))
<1>1. CASE v \in {"atom"} \X AtomTag \X Octets
  BY <1>1 DEF DerForm
<1>2. CASE v \in {"octets"} \X StringTag \X Octets
  BY <1>2 DEF DerForm, StringTag
<1>3. CASE v \in Nodes(values)
  <2>1. v[1] = "node" /\ v[2] \in NodeTag /\ v[3] \in Seq(values)
    BY <1>3 DEF Nodes
  <2> QED BY <2>1 DEF DerForm
<1> QED BY <1>1, <1>2, <1>3 DEF Layer

\* The encodings of the values in a row, in a row.
LEMMA RowOf ==
  ASSUME NEW S, NEW values, NEW c, c \in Seq(values), NEW f, \A x \in values : f[x] \in S
  PROVE  /\ [i \in DOMAIN c |-> f[c[i]]] \in Seq(S) /\ Len([i \in DOMAIN c |-> f[c[i]]]) = Len(c)
         /\ Len(c) \in Nat /\ DOMAIN c = 1..Len(c)
<1> DEFINE n == Len(c)
           A == [i \in DOMAIN c |-> f[c[i]]]
<1>1. n \in Nat /\ DOMAIN c = 1..n /\ \A i \in 1..n : c[i] \in values
  OBVIOUS
<1> HIDE DEF n
<1>2. A = [i \in 1..n |-> A[i]] /\ \A i \in 1..n : A[i] \in S
  BY <1>1
<1> HIDE DEF A
<1>3. A \in Seq(S) /\ Len(A) = n
  BY <1>1, <1>2, Filling
<1> QED BY <1>1, <1>3 DEF A, n

\* What a value holds, of which inner is the DER.
Held(v, inner) == [i \in DOMAIN v[3] |-> inner[v[3][i]]]
Content(v, inner) == IF v[1] = "node" THEN FlattenSeq(Held(v, inner)) ELSE v[3]

\* DER that is short is of bytes.
Fine(d) == d \in Seq(Nat) /\ (Brief(d) => d \in Coded)

\* It is so of a value whose values have such DER, and it is that of its tag and content.
LEMMA FineLayer ==
  ASSUME NEW values, NEW v, v \in Layer(values), NEW in, \A x \in values : Fine(in[x])
  PROVE  /\ Fine(DerForm(v, in))
         /\ v[2] \in Tag /\ DerForm(v, in) = Short(v[2], Content(v, in))
         /\ Brief(DerForm(v, in)) => Content(v, in) \in Octets /\ Brief(Content(v, in))
         /\ v[1] = "node" /\ Brief(DerForm(v, in)) => Held(v, in) \in Seq(Coded)
         /\ v[1] = "node" => /\ v[3] \in Seq(values) /\ Constructed(<<v[2]>>)
                             /\ Len(v[3]) \in Nat /\ DOMAIN v[3] = 1..Len(v[3]) /\ Len(Held(v, in)) = Len(v[3])
         /\ v[1] # "node" => ~Constructed(<<v[2]>>)
<1> DEFINE t == v[2]
           c == v[3]
           A == Held(v, in)
           f == Content(v, in)
           d == DerForm(v, in)
<1>1. CASE v[1] # "node" /\ t \in AtomTag /\ c \in Octets /\ DerForm(v, in) = Short(t, c)
  <2>0. f = c
    BY <1>1 DEF Content
  <2>1. t \in Tag /\ t \in Nat /\ c \in Seq(Nat) /\ ~Constructed(<<t>>)
    BY <1>1, TagNumbers, LongRows DEF AtomTag
  <2>2. d \in Seq(Nat) /\ Len(d) >= Len(c)
    <3> HIDE DEF t, c
    <3>1. Short(t, c) \in Seq(Nat) /\ Len(Short(t, c)) >= Len(c)
      BY <2>1, FormSize
    <3> QED BY <1>1, <3>1
  <2>3. d = Short(t, c) /\ c \in Octets /\ v[1] # "node"
    BY <1>1
  <2> HIDE DEF d, f, t, c
  <2>4. Brief(d) => Brief(c)
    BY <2>1, <2>2, BriefIn
  <2>5. Brief(c) => d \in Coded
    BY <2>1, <2>3, CodedShort
  <2>6. Fine(d)
    BY <2>2, <2>4, <2>5 DEF Fine
  <2> QED BY <2>0, <2>1, <2>3, <2>4, <2>6 DEF d, f, t, c
<1>2. CASE v[1] = "node" /\ t \in NodeTag /\ c \in Seq(values) /\ d = Short(t, FlattenSeq([i \in DOMAIN c |-> in[c[i]]]))
  <2> DEFINE S == Seq(Nat)
  <2>0. f = FlattenSeq(A) /\ A = [i \in DOMAIN c |-> in[c[i]]]
    BY <1>2 DEF Content, Held
  <2>1. t \in Tag /\ t \in Nat /\ Constructed(<<t>>)
    BY <1>2, TagNumbers DEF NodeTag
  <2>2. v[1] = "node" /\ c \in Seq(values) /\ d = Short(t, f)
    BY <1>2, <2>0
  <2> HIDE DEF t, c, A, f, d
  <2>3. A \in Seq(S) /\ Len(A) = Len(c) /\ Len(c) \in Nat /\ DOMAIN c = 1..Len(c)
    <3>1. \A x \in values : in[x] \in S
      BY DEF Fine
    <3> HIDE DEF S
    <3> QED BY <2>0, <2>2, <3>1, RowOf
  <2>4. \A i \in 1..Len(A) : Fine(A[i])
    <3> SUFFICES ASSUME NEW i \in 1..Len(A) PROVE Fine(A[i])
      OBVIOUS
    <3>1. c[i] \in values /\ A[i] = in[c[i]]
      BY <2>0, <2>2, <2>3
    <3> QED BY <3>1
  <2>5. f \in Seq(Nat) /\ \A i \in 1..Len(A) : Len(f) >= Len(A[i])
    BY <2>0, <2>3, RowSize
  <2>6. d \in Seq(Nat) /\ Len(d) >= Len(f)
    BY <2>1, <2>2, <2>5, FormSize
  <2>7. ASSUME Brief(d) PROVE d \in Coded /\ f \in Octets /\ Brief(f) /\ A \in Seq(Coded)
    <3>1. Brief(f)
      BY <2>5, <2>6, <2>7, BriefIn
    <3>2. ASSUME NEW i \in 1..Len(A) PROVE A[i] \in Coded
      <4> DEFINE x == A[i]
      <4>1. x \in Seq(Nat) /\ Len(f) >= Len(x) /\ (Brief(x) => x \in Coded)
        BY <2>4, <2>5 DEF Fine
      <4> HIDE DEF x
      <4>2. Brief(x)
        BY <2>5, <3>1, <4>1, BriefIn
      <4> QED BY <4>1, <4>2 DEF x
    <3>3. A \in Seq(Coded)
      <4> DEFINE k == Len(A)
      <4>1. k \in Nat /\ A = [i \in 1..k |-> A[i]]
        BY <2>3
      <4> DEFINE O == Coded
      <4> HIDE DEF O
      <4>2. \A i \in 1..k : A[i] \in O
        BY <3>2 DEF O
      <4> HIDE DEF k
      <4>3. A \in Seq(O)
        BY <4>1, <4>2, Filling
      <4> QED BY <4>3 DEF O
    <3>4. A \in Seq(Octets)
      <4>1. Coded \subseteq Octets
        BY DEF Coded
      <4> QED BY <3>3, <4>1, SeqMonotonic
    <3>5. f \in Octets
      BY <2>0, <3>4, RowBytes
    <3> QED BY <2>1, <2>2, <3>1, <3>3, <3>5, CodedShort
  <2>8. Fine(d)
    BY <2>6, <2>7 DEF Fine
  <2> QED BY <2>1, <2>2, <2>3, <2>7, <2>8 DEF d, f, t, c, A
<1> QED BY <1>1, <1>2, LayerForm

\* So it is of every value.
LEMMA DerCoded ==
  ASSUME NEW der, DerBy(der)
  PROVE  \A n \in 0..BerDepth : \A v \in Tree[n] : Fine(der[n][v])
<1> DEFINE T == {n \in 0..BerDepth : \A v \in Tree[n] : Fine(der[n][v])}
<1>0. BerDepth \in Nat
  BY BerAssumption
<1>1. 0 \in T
  BY <1>0, TreeTable
<1>2. ASSUME NEW n \in 0..(BerDepth - 1), n \in T PROVE n + 1 \in T
  <2> DEFINE m == n + 1
             values == Tree[n]
             in == der[n]
  <2>1. m \in 1..BerDepth /\ m \in 0..BerDepth /\ m - 1 = n
    BY <1>0, <1>2
  <2>2. \A x \in values : Fine(in[x])
    BY <1>2
  <2> HIDE DEF m
  <2>3. Tree[m] = Layer(values) /\ der[m] = [w \in Tree[m] |-> DerForm(w, in)]
    BY <2>1, TreeTable DEF DerBy
  <2> HIDE DEF values, in
  <2>4. ASSUME NEW v, v \in Tree[m] PROVE Fine(der[m][v])
    <3>1. der[m][v] = DerForm(v, in) /\ v \in Layer(values)
      BY <2>3, <2>4
    <3>2. Fine(DerForm(v, in))
      BY <2>2, <3>1, FineLayer
    <3> QED BY <3>1, <3>2
  <2>5. m \in T
    BY <2>1, <2>4
  <2> HIDE DEF T
  <2> QED BY <2>5 DEF m
<1>3. 0..BerDepth \subseteq T
  <2> HIDE DEF T
  <2> QED BY <1>0, <1>1, <1>2, InductionUpTo
<1> QED BY <1>3

\* Two values, as deep in others, of one DER.
SameDer(der, v, w) ==
  \E n \in 1..BerDepth : /\ v \in Tree[n] /\ w \in Tree[n]
                         /\ der[n][v] = der[n][w] /\ Brief(der[n][v])

\* They have one tag, and hold the same bytes or values of one DER.
LEMMA SameDerHolds ==
  ASSUME NEW der, DerBy(der), NEW v, NEW w, SameDer(der, v, w)
  PROVE  /\ v[2] = w[2] /\ (v[1] = "node" <=> w[1] = "node")
         /\ v[1] # "node" => v[3] = w[3]
         /\ v[1] = "node" =>
              /\ Len(v[3]) \in Nat /\ Len(w[3]) = Len(v[3])
              /\ DOMAIN v[3] = 1..Len(v[3]) /\ DOMAIN w[3] = 1..Len(v[3])
              /\ \A i \in 1..Len(v[3]) : SameDer(der, v[3][i], w[3][i])
<1>1. PICK n \in 1..BerDepth : /\ v \in Tree[n] /\ w \in Tree[n]
                               /\ der[n][v] = der[n][w] /\ Brief(der[n][v])
  BY DEF SameDer
<1> DEFINE m == n - 1
           values == Tree[m]
           in == der[m]
<1>2. m \in 0..BerDepth /\ (m # 0 => m \in 1..BerDepth) /\ BerDepth \in Nat
  BY <1>1, BerAssumption
<1>3. /\ Tree[n] = Layer(values) /\ der[n] = [x \in Tree[n] |-> DerForm(x, in)]
      /\ \A x \in values : Fine(in[x])
  <2>1. Tree[n] = Layer(values) /\ der[n] = [x \in Tree[n] |-> DerForm(x, in)]
    BY <1>1, TreeTable DEF DerBy
  <2>2. \A x \in values : Fine(in[x])
    <3> HIDE DEF m
    <3> QED BY <1>2, DerCoded
  <2> QED BY <2>1, <2>2
<1> HIDE DEF m, values, in
<1>4. /\ v \in Layer(values) /\ w \in Layer(values)
      /\ DerForm(v, in) = DerForm(w, in) /\ Brief(DerForm(v, in)) /\ Brief(DerForm(w, in))
  BY <1>1, <1>3
<1> DEFINE t == v[2]
           u == w[2]
           f == Content(v, in)
           g == Content(w, in)
<1>5. /\ t \in Tag /\ f \in Octets /\ Brief(f) /\ DerForm(v, in) = Short(t, f)
      /\ v[1] = "node" => /\ Constructed(<<t>>) /\ v[3] \in Seq(values) /\ Held(v, in) \in Seq(Coded)
                          /\ Len(v[3]) \in Nat /\ DOMAIN v[3] = 1..Len(v[3]) /\ Len(Held(v, in)) = Len(v[3])
      /\ v[1] # "node" => ~Constructed(<<t>>)
  <2> HIDE DEF t, f
  <2> QED BY <1>3, <1>4, FineLayer, ZenonT(60) DEF t, f
<1>6. /\ u \in Tag /\ g \in Octets /\ Brief(g) /\ DerForm(w, in) = Short(u, g)
      /\ w[1] = "node" => /\ Constructed(<<u>>) /\ w[3] \in Seq(values) /\ Held(w, in) \in Seq(Coded)
                          /\ Len(w[3]) \in Nat /\ DOMAIN w[3] = 1..Len(w[3]) /\ Len(Held(w, in)) = Len(w[3])
      /\ w[1] # "node" => ~Constructed(<<u>>)
  <2> HIDE DEF u, g
  <2> QED BY <1>3, <1>4, FineLayer, ZenonT(60) DEF u, g
<1>7. t = u /\ f = g
  <2> HIDE DEF t, u, f, g
  <2>1. Short(t, f) = Short(u, g)
    BY <1>4, <1>5, <1>6
  <2> QED BY <1>5, <1>6, <2>1, CodedShort
<1>8. CASE v[1] # "node"
  <2>1. w[1] # "node"
    <3> HIDE DEF t, u
    <3> QED BY <1>5, <1>6, <1>7, <1>8
  <2> QED BY <1>7, <1>8, <2>1 DEF Content
<1>9. CASE v[1] = "node"
  <2>1. w[1] = "node"
    <3> HIDE DEF t, u
    <3> QED BY <1>5, <1>6, <1>7, <1>9
  <2>2. Held(v, in) = Held(w, in)
    <3>1. FlattenSeq(Held(v, in)) = FlattenSeq(Held(w, in))
      BY <1>7, <1>9, <2>1 DEF Content
    <3> QED BY <1>5, <1>6, <1>9, <2>1, <3>1, CodedRows
  <2> DEFINE l == Len(v[3])
  <2>3. /\ l \in Nat /\ Len(w[3]) = l /\ DOMAIN v[3] = 1..l /\ DOMAIN w[3] = 1..l
        /\ v[3] \in Seq(values) /\ w[3] \in Seq(values)
    BY <1>5, <1>6, <1>9, <2>1, <2>2
  <2>4. ASSUME NEW i \in 1..l PROVE SameDer(der, v[3][i], w[3][i])
    <3> DEFINE x == v[3][i]
               y == w[3][i]
    <3>1. x \in values /\ y \in values
      BY <2>3
    <3>2. in[x] = Held(v, in)[i] /\ in[y] = Held(w, in)[i]
      BY <2>3 DEF Held
    <3>3. Held(v, in)[i] \in Coded
      <4>1. Held(v, in) \in Seq(Coded) /\ Len(Held(v, in)) = l
        BY <1>5, <1>9
      <4> HIDE DEF l
      <4> QED BY <4>1
    <3> HIDE DEF x, y
    <3>4. in[x] = in[y] /\ in[x] \in Coded
      BY <2>2, <3>2, <3>3
    <3>5. Brief(in[x])
      <4> DEFINE A == Held(v, in)
      <4>1. A \in Seq(Coded) /\ f = FlattenSeq(A) /\ Len(A) = l
        BY <1>5, <1>9 DEF Content
      <4> HIDE DEF A
      <4>2. A \in Seq(Octets) /\ A \in Seq(Seq(Nat))
        <5>1. Coded \subseteq Octets /\ Octets \subseteq Seq(Nat)
          BY LongRows DEF Coded
        <5>2. \A P, Q : P \subseteq Q => Seq(P) \subseteq Seq(Q)
          BY SeqMonotonic
        <5> QED BY <4>1, <5>1, <5>2
      <4>3. Len(f) >= Len(A[i]) /\ f \in Seq(Nat)
        <5> HIDE DEF l, f
        <5> QED BY <4>1, <4>2, RowSize
      <4>4. A[i] = in[x] /\ in[x] \in Seq(Nat)
        BY <3>1, <3>2, <1>3 DEF A, Fine
      <4> HIDE DEF f
      <4> QED BY <1>5, <4>3, <4>4, BriefIn
    <3>6. m # 0
      BY <3>1, TreeTable DEF values
    <3>7. SameDer(der, x, y)
      BY <1>2, <3>1, <3>4, <3>5, <3>6 DEF SameDer, values, in
    <3> QED BY <3>7 DEF x, y
  <2> QED BY <1>7, <1>9, <2>1, <2>3, <2>4
<1> QED BY <1>8, <1>9

\* Values of one DER to begin with.
LEMMA SameDerBegins ==
  ASSUME NEW v \in Tree[BerDepth], NEW w \in Tree[BerDepth], Brief(DerOf(v)), DerOf(v) = DerOf(w)
  PROVE  \E der : DerBy(der) /\ SameDer(der, v, w)
<1>1. PICK der : DerBy(der)
  BY DerTable DEF DerBy
<1>2. BerDepth \in 1..BerDepth
  <2>1. BerDepth \in Nat /\ BerDepth # 0
    BY BerAssumption, TreeTable
  <2> QED BY <2>1
<1>3. SameDer(der, v, w)
  <2>1. DerOf(v) = der[BerDepth][v] /\ DerOf(w) = der[BerDepth][w]
    BY <1>1 DEF DerBy
  <2> QED BY <1>2, <2>1 DEF SameDer
<1> QED BY <1>1, <1>3

\* The style that is DER already.
DerStyle == [length |-> [q \in 0..2 |-> "short"], segments |-> "whole"]

\* An encoding in it is the DER encoding.
LEMMA DerStyleOf ==
  ASSUME NEW v, v \in Tree[BerDepth]
  PROVE  BerOf(v, DerStyle) = DerOf(v) /\ DerStyle \in Styles
<1> DEFINE style == DerStyle
<1>0. BerDepth \in Nat /\ style.segments = "whole" /\ \A q \in 0..2 : style.length[q] = "short"
  BY BerAssumption DEF DerStyle
<1>1. PICK der : DerBy(der)
  BY DerTable DEF DerBy
<1>2. PICK ber : BerTable(ber, style)
  BY BerTables
<1>3. style \in Styles
  BY DEF DerStyle, Styles, Forms
<1> HIDE DEF style
<1> DEFINE T == {n \in 0..BerDepth : \A w \in Tree[n] : \A q \in 0..2 : ber[n][q][w] = der[n][w]}
<1>4. 0 \in T
  BY <1>0, TreeTable
<1>5. ASSUME NEW n \in 0..(BerDepth - 1), n \in T PROVE n + 1 \in T
  <2> DEFINE m == n + 1
             values == Tree[n]
             inBer == ber[n]
             inDer == der[n]
  <2>1. m \in 1..BerDepth /\ m \in 0..BerDepth /\ m - 1 = n
    BY <1>0, <1>5
  <2>2. \A x \in values : \A q \in 0..2 : inBer[q][x] = inDer[x]
    BY <1>5
  <2> HIDE DEF m
  <2>3. /\ Tree[m] = Layer(values)
        /\ der[m] = [w \in Tree[m] |-> DerForm(w, inDer)]
        /\ ber[m] = [q \in 0..2 |-> [w \in Tree[m] |-> BerForm(w, style, q, inBer)]]
    BY <1>1, <1>2, <2>1, TreeTable DEF BerTable, DerBy
  <2> HIDE DEF values, inBer, inDer
  <2>4. ASSUME NEW w, w \in Tree[m], NEW q \in 0..2 PROVE ber[m][q][w] = der[m][w]
    <3> DEFINE c == w[3]
    <3>1. ber[m][q][w] = BerForm(w, style, q, inBer) /\ der[m][w] = DerForm(w, inDer) /\ w \in Layer(values)
      BY <2>3, <2>4
    <3>2. \A t, d : InForm(style.length[q], t, d) = Short(t, d)
      <4>1. style.length[q] = "short"
        BY <1>0
      <4> QED BY <4>1 DEF InForm
    <3>3. CASE w[1] # "node"
      <4>1. BerForm(w, style, q, inBer) = InForm(style.length[q], w[2], c)
        BY <1>0, <3>3 DEF BerForm
      <4>2. DerForm(w, inDer) = Short(w[2], c)
        BY <3>3 DEF DerForm
      <4> QED BY <3>1, <3>2, <4>1, <4>2
    <3>4. CASE w[1] = "node"
      <4> DEFINE A == [i \in DOMAIN c |-> inBer[(q + i) % 3][c[i]]]
                 B == [i \in DOMAIN c |-> inDer[c[i]]]
      <4>1. BerForm(w, style, q, inBer) = InForm(style.length[q], w[2], FlattenSeq(A))
        BY <3>4 DEF BerForm
      <4>2. DerForm(w, inDer) = Short(w[2], FlattenSeq(B))
        BY <3>4 DEF DerForm
      <4>3. c \in Seq(values)
        BY <3>1, <3>4 DEF Layer, Nodes
      <4> HIDE DEF c
      <4>4. ASSUME NEW i \in DOMAIN c PROVE inBer[(q + i) % 3][c[i]] = inDer[c[i]]
        <5>1. i \in Nat /\ c[i] \in values
          BY <4>3
        <5>2. (q + i) % 3 \in 0..2
          BY <5>1
        <5> DEFINE r == (q + i) % 3
        <5>3. r \in 0..2
          BY <5>2
        <5> HIDE DEF r
        <5>4. inBer[r][c[i]] = inDer[c[i]]
          BY <2>2, <5>1, <5>3
        <5> QED BY <5>4 DEF r
      <4>5. A = B
        BY <4>4
      <4> HIDE DEF A, B
      <4> QED BY <3>1, <3>2, <4>1, <4>2, <4>5
    <3> QED BY <3>3, <3>4
  <2>5. m \in T
    BY <2>1, <2>4
  <2> HIDE DEF T
  <2> QED BY <2>5 DEF m
<1>6. BerDepth \in T
  <2> HIDE DEF T
  <2>1. 0..BerDepth \subseteq T
    BY <1>0, <1>4, <1>5, InductionUpTo
  <2> QED BY <1>0, <2>1
<1>7. BerOf(v, style) = ber[BerDepth][0][v] /\ DerOf(v) = der[BerDepth][v]
  BY <1>1, <1>2 DEF BerTable, DerBy
<1> QED BY <1>3, <1>6, <1>7 DEF style

\* What the rewriting makes of an encoding of a value, it leaves as it is: the form that
\* ber_to_der.rs returns is one that it would accept, and return, again.
THEOREM RewrittenOnce ==
  \A v \in Tree[BerDepth], style \in Styles :
    Brief(DerOf(v)) /\ Brief(BerOf(v, style)) =>
      \E d : Normalize(BerOf(v, style)) = <<d>> /\ Normalize(d) = <<d>>
<1> SUFFICES ASSUME NEW v \in Tree[BerDepth], NEW style \in Styles, Brief(DerOf(v)), Brief(BerOf(v, style))
             PROVE  Normalize(BerOf(v, style)) = <<DerOf(v)>> /\ Normalize(DerOf(v)) = <<DerOf(v)>>
  OBVIOUS
<1>1. Normalize(BerOf(v, style)) = <<DerOf(v)>>
  BY Rewriting
<1>2. BerOf(v, DerStyle) = DerOf(v)
  BY DerStyleOf
<1>3. Normalize(BerOf(v, DerStyle)) = <<DerOf(v)>>
  BY <1>2, Rewriting
<1> QED BY <1>1, <1>2, <1>3
=============================================================================
