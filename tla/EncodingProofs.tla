-------------------------- MODULE EncodingProofs --------------------------
(***************************************************************************)
(* Lemmas about the encodings, for every base, length, text and width of   *)
(* an integer: what Positional, ByteCodec and Amounts compute; that the    *)
(* decoder of perpetuals instructions reads what Borsh writes; and that no *)
(* two keys, digests or attestations are equal that were made of different *)
(* things.  Induction goes over sets in the place of predicates, and a     *)
(* recursive function is one of the tables that satisfy its equation.      *)
(***************************************************************************)
EXTENDS
  Amounts, PerpsDecode, SigningDomains, SequenceTheorems, WellFoundedInduction, TLAPS

-----------------------------------------------------------------------------
(* Induction, and tables filled step by step. *)

Less == {p \in Nat \X Nat : p[1] < p[2]}

LEMMA LessWellFounded == IsWellFoundedOn(Less, Nat)
BY NatLessThanWellFounded DEF OpToRel, Less

LEMMA LeastElement ==
  ASSUME NEW T \in SUBSET Nat, T # {}
  PROVE  \E y \in T : \A z \in T : y <= z
<1>1. PICK y \in T : \A z \in T : ~(<<z, y>> \in Less)
  BY LessWellFounded, WFMin
<1>2. ASSUME NEW z \in T PROVE y <= z
  <2>1. <<z, y>> \in Nat \X Nat /\ <<z, y>>[1] = z /\ <<z, y>>[2] = y
    OBVIOUS
  <2> QED BY <1>1, <2>1 DEF Less
<1> QED BY <1>2

\* Induction, for a set in the place of a predicate.
LEMMA InductionOn ==
  ASSUME NEW T, 0 \in T, \A n \in Nat : n \in T => n + 1 \in T
  PROVE  Nat \subseteq T
<1> SUFFICES ASSUME Nat \ T # {} PROVE FALSE
  OBVIOUS
<1>1. PICK y \in Nat \ T : \A z \in Nat \ T : y <= z
  BY LeastElement
<1>2. y - 1 \in Nat
  OBVIOUS
<1>3. y - 1 \in T
  BY <1>1, <1>2
<1> QED BY <1>1, <1>2, <1>3

LEMMA InductionUpTo ==
  ASSUME NEW T, NEW N \in Nat, 0 \in T, \A n \in 0..(N - 1) : n \in T => n + 1 \in T
  PROVE  0..N \subseteq T
<1> DEFINE U == {n \in Nat : n <= N => n \in T}
<1>1. Nat \subseteq U
  <2>1. 0 \in U
    OBVIOUS
  <2>2. \A n \in Nat : n \in U => n + 1 \in U
    OBVIOUS
  <2> HIDE DEF U
  <2> QED BY <2>1, <2>2, InductionOn
<1> QED BY <1>1

\* A table filled from step to step exists.
LEMMA TableExists ==
  ASSUME NEW S, NEW first \in S, NEW N \in Nat, NEW step \in [1..N -> [S -> S]]
  PROVE  \E g \in [0..N -> S] : g[0] = first /\ \A k \in 1..N : g[k] = step[k][g[k - 1]]
<1> DEFINE Filled(g, n) == g[0] = first /\ \A k \in 1..n : g[k] = step[k][g[k - 1]]
           T == {n \in 0..N : \E g \in [0..n -> S] : Filled(g, n)}
<1>1. 0 \in T
  <2> DEFINE g == [k \in 0..0 |-> first]
  <2>1. g \in [0..0 -> S] /\ Filled(g, 0)
    OBVIOUS
  <2> HIDE DEF g
  <2>2. 0 \in 0..N
    OBVIOUS
  <2> QED BY <2>1, <2>2
<1>2. ASSUME NEW n \in 0..(N - 1), n \in T PROVE n + 1 \in T
  <2>1. PICK g \in [0..n -> S] : Filled(g, n)
    BY <1>2
  <2> DEFINE h == [k \in 0..(n + 1) |-> IF k = n + 1 THEN step[n + 1][g[n]] ELSE g[k]]
  <2>2. h \in [0..(n + 1) -> S]
    <3>1. step[n + 1] \in [S -> S] /\ g[n] \in S
      OBVIOUS
    <3> QED BY <3>1
  <2>3. h[0] = first
    BY <2>1
  <2>4. ASSUME NEW k \in 1..(n + 1) PROVE h[k] = step[k][h[k - 1]]
    <3>1. CASE k = n + 1
      BY <3>1
    <3>2. CASE k # n + 1
      <4>1. k \in 1..n /\ k - 1 \in 0..n
        BY <3>2
      <4> QED BY <4>1, <2>1
    <3> QED BY <3>1, <3>2
  <2> HIDE DEF h
  <2>5. Filled(h, n + 1)
    BY <2>3, <2>4
  <2> QED BY <2>2, <2>5
<1> HIDE DEF T
<1>3. 0..N \subseteq T
  BY <1>1, <1>2, InductionUpTo
<1> QED BY <1>3 DEF T

\* And there is only one.
LEMMA TableUnique ==
  ASSUME NEW N \in Nat, NEW step, NEW g, NEW h, g[0] = h[0],
         \A k \in 1..N : g[k] = step[k][g[k - 1]],
         \A k \in 1..N : h[k] = step[k][h[k - 1]]
  PROVE  \A k \in 0..N : g[k] = h[k]
<1> DEFINE T == {k \in 0..N : g[k] = h[k]}
<1>1. 0 \in T
  OBVIOUS
<1>2. ASSUME NEW n \in 0..(N - 1), n \in T PROVE n + 1 \in T
  <2>1. n + 1 \in 1..N /\ (n + 1) - 1 = n
    OBVIOUS
  <2> QED BY <1>2, <2>1
<1> HIDE DEF T
<1>3. 0..N \subseteq T
  BY <1>1, <1>2, InductionUpTo
<1> QED BY <1>3 DEF T

-----------------------------------------------------------------------------
(* Powers. *)

LEMMA PowerTable ==
  ASSUME NEW b \in Nat, NEW n \in Nat
  PROVE  \E g \in [0..n -> Nat] :
           /\ g[0] = 1 /\ \A k \in 1..n : g[k] = b * g[k - 1]
           /\ Power(b, n) = g[n]
<1> DEFINE Is(g) == g = [k \in 0..n |-> IF k = 0 THEN 1 ELSE b * g[k - 1]]
           step == [k \in 1..n |-> [x \in Nat |-> b * x]]
<1>1. \E g : Is(g)
  <2> DEFINE S == Nat
             one == 1
  <2>1. one \in S /\ step \in [1..n -> [S -> S]]
    OBVIOUS
  <2> HIDE DEF S, one, step
  <2>2. PICK g \in [0..n -> S] : g[0] = one /\ \A k \in 1..n : g[k] = step[k][g[k - 1]]
    BY <2>1, TableExists
  <2> USE DEF S, one
  <2>3. \A k \in 1..n : g[k] = b * g[k - 1]
    <3> TAKE k \in 1..n
    <3>1. g[k - 1] \in Nat
      OBVIOUS
    <3> QED BY <2>2, <3>1 DEF step
  <2>4. \A k \in 0..n : g[k] = IF k = 0 THEN 1 ELSE b * g[k - 1]
    BY <2>2, <2>3
  <2> QED BY <2>4
<1> DEFINE p == CHOOSE g : Is(g)
<1>2. Is(p)
  BY <1>1
<1>3. Power(b, n) = p[n]
  BY DEF Power
<1> HIDE DEF p
<1>4. p[0] = 1 /\ \A k \in 1..n : p[k] = b * p[k - 1]
  BY <1>2
<1> DEFINE T == {k \in 0..n : p[k] \in Nat}
<1>5. 0..n \subseteq T
  <2>1. 0 \in T /\ \A k \in 0..(n - 1) : k \in T => k + 1 \in T
    BY <1>4
  <2> HIDE DEF T
  <2> QED BY <2>1, InductionUpTo
<1>6. p \in [0..n -> Nat]
  BY <1>2, <1>5
<1> QED BY <1>3, <1>4, <1>6

\* One power from the one before.
LEMMA PowerStep ==
  ASSUME NEW b \in Nat
  PROVE  /\ Power(b, 0) = 1
         /\ \A n \in Nat : Power(b, n) \in Nat /\ Power(b, n + 1) = b * Power(b, n)
<1>1. Power(b, 0) = 1
  BY PowerTable
<1>2. ASSUME NEW n \in Nat PROVE Power(b, n) \in Nat /\ Power(b, n + 1) = b * Power(b, n)
  <2>1. PICK g \in [0..n -> Nat] :
          g[0] = 1 /\ (\A k \in 1..n : g[k] = b * g[k - 1]) /\ Power(b, n) = g[n]
    BY PowerTable
  <2>2. n + 1 \in Nat
    OBVIOUS
  <2>3. PICK h \in [0..(n + 1) -> Nat] :
          h[0] = 1 /\ (\A k \in 1..(n + 1) : h[k] = b * h[k - 1]) /\ Power(b, n + 1) = h[n + 1]
    BY <2>2, PowerTable
  <2> DEFINE T == {k \in 0..n : g[k] = h[k]}
  <2>4. 0..n \subseteq T
    <3>1. 0 \in T /\ \A k \in 0..(n - 1) : k \in T => k + 1 \in T
      BY <2>1, <2>3
    <3> HIDE DEF T
    <3> QED BY <3>1, InductionUpTo
  <2>5. g[n] = h[n] /\ h[n + 1] = b * h[n]
    BY <2>3, <2>4
  <2> QED BY <2>1, <2>3, <2>5
<1> QED BY <1>1, <1>2

LEMMA PowerPositive ==
  ASSUME NEW b \in Nat \ {0}
  PROVE  \A n \in Nat : Power(b, n) \in Nat \ {0}
<1> DEFINE T == {n \in Nat : Power(b, n) # 0}
<1>1. 0 \in T /\ \A n \in Nat : n \in T => n + 1 \in T
  <2>1. 0 \in T
    BY PowerStep
  <2>2. ASSUME NEW n \in Nat, n \in T PROVE n + 1 \in T
    <3>1. Power(b, n) \in Nat /\ Power(b, n + 1) = b * Power(b, n)
      BY PowerStep
    <3> QED BY <2>2, <3>1
  <2> QED BY <2>1, <2>2
<1> HIDE DEF T
<1>2. Nat \subseteq T
  BY <1>1, InductionOn
<1> QED BY <1>2, PowerStep DEF T

LEMMA PowerSum ==
  ASSUME NEW b \in Nat, NEW m \in Nat
  PROVE  \A n \in Nat : Power(b, m + n) = Power(b, m) * Power(b, n)
<1> DEFINE T == {n \in Nat : Power(b, m + n) = Power(b, m) * Power(b, n)}
<1>1. 0 \in T
  BY PowerStep
<1>2. ASSUME NEW n \in Nat, n \in T PROVE n + 1 \in T
  <2>1. Power(b, n) \in Nat /\ Power(b, n + 1) = b * Power(b, n)
    BY PowerStep
  <2>2. m + n \in Nat /\ m + (n + 1) = (m + n) + 1
    OBVIOUS
  <2>3. Power(b, (m + n) + 1) = b * Power(b, m + n)
    BY <2>2, PowerStep
  <2>4. Power(b, m) \in Nat
    BY PowerStep
  <2>5. b * (Power(b, m) * Power(b, n)) = Power(b, m) * (b * Power(b, n))
    BY <2>1, <2>4
  <2> QED BY <1>2, <2>1, <2>2, <2>3, <2>5
<1> HIDE DEF T
<1>3. Nat \subseteq T
  BY <1>1, <1>2, InductionOn
<1> QED BY <1>3 DEF T

-----------------------------------------------------------------------------
(* Digits. *)

LEMMA HornerRecursion ==
  ASSUME NEW b \in Nat, NEW N \in Nat, NEW s, \A k \in 1..N : s[k] \in Nat
  PROVE  \E g : g = [k \in 0..N |-> IF k = 0 THEN 0 ELSE b * g[k - 1] + s[k]]
<1> DEFINE S == Nat
           zero == 0
           step == [k \in 1..N |-> [x \in Nat |-> b * x + s[k]]]
<1>1. zero \in S /\ step \in [1..N -> [S -> S]]
  OBVIOUS
<1> HIDE DEF S, zero, step
<1>2. PICK g \in [0..N -> S] : g[0] = zero /\ \A k \in 1..N : g[k] = step[k][g[k - 1]]
  BY <1>1, TableExists
<1> USE DEF S, zero
<1>3. \A k \in 1..N : g[k] = b * g[k - 1] + s[k]
  <2> TAKE k \in 1..N
  <2>1. g[k - 1] \in Nat
    OBVIOUS
  <2> QED BY <1>2, <2>1 DEF step
<1>4. \A k \in 0..N : g[k] = IF k = 0 THEN 0 ELSE b * g[k - 1] + s[k]
  BY <1>2, <1>3
<1> QED BY <1>4

LEMMA HornerTable ==
  ASSUME NEW b \in Nat, NEW s \in Seq(Nat)
  PROVE  \E g \in [0..Len(s) -> Nat] :
           /\ g[0] = 0 /\ \A k \in 1..Len(s) : g[k] = b * g[k - 1] + s[k]
           /\ Horner(b, s) = g[Len(s)]
<1>0. PICK N \in Nat : N = Len(s)
  OBVIOUS
<1> DEFINE Is(g) == g = [k \in 0..N |-> IF k = 0 THEN 0 ELSE b * g[k - 1] + s[k]]
<1>1. \E g : Is(g)
  <2>1. \A k \in 1..N : s[k] \in Nat
    BY <1>0
  <2>2. \A f : (\A k \in 1..N : f[k] \in Nat) =>
                 \E g : g = [k \in 0..N |-> IF k = 0 THEN 0 ELSE b * g[k - 1] + f[k]]
    BY HornerRecursion
  <2> QED BY <2>1, <2>2
<1> DEFINE p == CHOOSE g : Is(g)
<1>2. Is(p)
  BY <1>1
<1>3. Horner(b, s) = p[N]
  BY <1>0 DEF Horner
<1> HIDE DEF p
<1>4. p[0] = 0 /\ \A k \in 1..N : p[k] = b * p[k - 1] + s[k]
  BY <1>2
<1> DEFINE T == {k \in 0..N : p[k] \in Nat}
<1>5. 0..N \subseteq T
  <2>1. 0 \in T
    BY <1>4
  <2>2. ASSUME NEW k \in 0..(N - 1), k \in T PROVE k + 1 \in T
    <3>1. k + 1 \in 1..N /\ (k + 1) - 1 = k
      OBVIOUS
    <3>2. s[k + 1] \in Nat /\ p[k + 1] = b * p[k] + s[k + 1]
      BY <1>0, <1>4, <3>1
    <3>3. p[k + 1] \in Nat
      BY <2>2, <3>2, SMTT(60)
    <3> QED BY <3>1, <3>3
  <2> HIDE DEF T
  <2> QED BY <2>1, <2>2, InductionUpTo
<1>6. p \in [0..N -> Nat]
  BY <1>2, <1>5
<1> QED BY <1>0, <1>3, <1>4, <1>6

LEMMA HornerEmpty ==
  ASSUME NEW b \in Nat
  PROVE  Horner(b, <<>>) = 0
<1>1. <<>> \in Seq(Nat) /\ Len(<<>>) = 0
  OBVIOUS
<1> DEFINE e == <<>>
<1> HIDE DEF e
<1>2. e \in Seq(Nat) => \E g : g[0] = 0 /\ Horner(b, e) = g[Len(e)]
  BY HornerTable
<1> QED BY <1>1, <1>2 DEF e

LEMMA HornerNat ==
  ASSUME NEW b \in Nat, NEW s \in Seq(Nat)
  PROVE  Horner(b, s) \in Nat
<1>1. PICK g \in [0..Len(s) -> Nat] : Horner(b, s) = g[Len(s)]
  BY HornerTable
<1> QED BY <1>1

LEMMA HornerAppend ==
  ASSUME NEW b \in Nat, NEW s \in Seq(Nat), NEW d \in Nat
  PROVE  Horner(b, Append(s, d)) = b * Horner(b, s) + d
<1> DEFINE t == Append(s, d)
<1>1. /\ t \in Seq(Nat) /\ Len(s) \in Nat /\ Len(t) = Len(s) + 1
      /\ t[Len(s) + 1] = d /\ \A k \in 1..Len(s) : t[k] = s[k]
  OBVIOUS
<1> HIDE DEF t
<1>2. PICK g \in [0..Len(s) -> Nat] :
        /\ g[0] = 0 /\ \A k \in 1..Len(s) : g[k] = b * g[k - 1] + s[k]
        /\ Horner(b, s) = g[Len(s)]
  BY HornerTable
<1>3. PICK h \in [0..Len(t) -> Nat] :
        /\ h[0] = 0 /\ \A k \in 1..Len(t) : h[k] = b * h[k - 1] + t[k]
        /\ Horner(b, t) = h[Len(t)]
  BY <1>1, HornerTable
<1> DEFINE T == {k \in 0..Len(s) : g[k] = h[k]}
<1>4. 0..Len(s) \subseteq T
  <2>1. 0 \in T
    BY <1>1, <1>2, <1>3
  <2>2. ASSUME NEW k \in 0..(Len(s) - 1), k \in T PROVE k + 1 \in T
    <3>1. k + 1 \in 1..Len(s) /\ k + 1 \in 1..Len(t) /\ (k + 1) - 1 = k
      BY <1>1
    <3> QED BY <1>1, <1>2, <1>3, <2>2, <3>1
  <2> HIDE DEF T
  <2> QED BY <1>1, <2>1, <2>2, InductionUpTo
<1>5. h[Len(t)] = b * h[Len(s)] + d
  <2>1. Len(t) \in 1..Len(t) /\ Len(t) - 1 = Len(s)
    BY <1>1
  <2>2. h[Len(t)] = b * h[Len(t) - 1] + t[Len(t)]
    BY <1>3, <2>1
  <2> QED BY <1>1, <2>1, <2>2
<1> QED BY <1>1, <1>2, <1>3, <1>4, <1>5 DEF t

LEMMA LastApart ==
  ASSUME NEW S, NEW s \in Seq(S), s # <<>>
  PROVE  \E r \in Seq(S) : \E d \in S : s = Append(r, d)
<1> DEFINE r == SubSeq(s, 1, Len(s) - 1)
<1>1. Len(s) \in Nat \ {0}
  OBVIOUS
<1>2. r \in Seq(S) /\ s[Len(s)] \in S
  BY <1>1
<1>3. s = Append(r, s[Len(s)])
  BY <1>1
<1> HIDE DEF r
<1> QED BY <1>2, <1>3

\* Induction on sequences.
LEMMA SeqInductionOn ==
  ASSUME NEW S, NEW T, <<>> \in T,
         \A s \in Seq(S) : s \in T => \A d \in S : Append(s, d) \in T
  PROVE  Seq(S) \subseteq T
<1> DEFINE N == {n \in Nat : \A s \in Seq(S) : Len(s) = n => s \in T}
<1>1. 0 \in N
  <2> SUFFICES ASSUME NEW s \in Seq(S), Len(s) = 0 PROVE s \in T
    OBVIOUS
  <2>1. s = <<>>
    OBVIOUS
  <2> QED BY <2>1
<1>2. ASSUME NEW n \in Nat, n \in N PROVE n + 1 \in N
  <2> SUFFICES ASSUME NEW s \in Seq(S), Len(s) = n + 1 PROVE s \in T
    OBVIOUS
  <2>1. s # <<>>
    OBVIOUS
  <2>2. PICK r \in Seq(S), d \in S : s = Append(r, d)
    BY <2>1, LastApart
  <2>3. Len(r) = n
    BY <2>2
  <2> QED BY <1>2, <2>2, <2>3
<1> HIDE DEF N
<1>3. Nat \subseteq N
  BY <1>1, <1>2, InductionOn
<1> QED
  <2> SUFFICES ASSUME NEW s \in Seq(S) PROVE s \in T
    OBVIOUS
  <2>1. Len(s) \in Nat
    OBVIOUS
  <2> QED BY <1>3, <2>1 DEF N

LEMMA HornerConcat ==
  ASSUME NEW b \in Nat, NEW s \in Seq(Nat), NEW t \in Seq(Nat)
  PROVE  Horner(b, s \o t) = Horner(b, s) * Power(b, Len(t)) + Horner(b, t)
<1> DEFINE S == Nat
           T == {u \in Seq(Nat) : Horner(b, s \o u) = Horner(b, s) * Power(b, Len(u)) + Horner(b, u)}
<1>1. <<>> \in T
  <2>1. s \o <<>> = s /\ Len(<<>>) = 0
    OBVIOUS
  <2>2. Horner(b, s) \in Nat
    BY HornerNat
  <2> QED BY <2>1, <2>2, HornerEmpty, PowerStep
<1>2. ASSUME NEW u \in Seq(Nat), u \in T, NEW d \in Nat PROVE Append(u, d) \in T
  <2>1. /\ s \o Append(u, d) = Append(s \o u, d) /\ s \o u \in Seq(Nat)
        /\ Append(u, d) \in Seq(Nat)
        /\ Len(u) \in Nat /\ Len(Append(u, d)) = Len(u) + 1
    OBVIOUS
  <2>2. Horner(b, Append(s \o u, d)) = b * Horner(b, s \o u) + d
    BY <2>1, HornerAppend
  <2>3. Horner(b, Append(u, d)) = b * Horner(b, u) + d
    BY HornerAppend
  <2>4. Power(b, Len(u) + 1) = b * Power(b, Len(u)) /\ Power(b, Len(u)) \in Nat
    BY <2>1, PowerStep
  <2>5. Horner(b, s) \in Nat /\ Horner(b, u) \in Nat
    BY HornerNat
  <2>6. Horner(b, s \o u) = Horner(b, s) * Power(b, Len(u)) + Horner(b, u)
    BY <1>2
  <2>7. \A x, p, y \in Nat : b * (x * p + y) + d = x * (b * p) + (b * y + d)
    OBVIOUS
  <2> HIDE DEF T
  <2>8. Horner(b, s \o Append(u, d))
          = Horner(b, s) * Power(b, Len(Append(u, d))) + Horner(b, Append(u, d))
    BY <2>1, <2>2, <2>3, <2>4, <2>5, <2>6, <2>7
  <2> QED BY <2>1, <2>8 DEF T
<1>3. <<>> \in T /\ \A u \in Seq(S) : u \in T => \A d \in S : Append(u, d) \in T
  BY <1>1, <1>2
<1> HIDE DEF T, S
<1>4. Seq(S) \subseteq T
  BY <1>3, SeqInductionOn
<1> QED BY <1>4 DEF T, S

LEMMA HornerBound ==
  ASSUME NEW b \in Nat \ {0}, NEW s \in Seq(0..(b - 1))
  PROVE  Horner(b, s) \in Nat /\ Horner(b, s) < Power(b, Len(s))
<1> DEFINE S == 0..(b - 1)
           T == {u \in Seq(S) : Horner(b, u) < Power(b, Len(u))}
<1>1. <<>> \in T
  <2>1. <<>> \in Seq(S) /\ Len(<<>>) = 0
    OBVIOUS
  <2> QED BY <2>1, HornerEmpty, PowerStep
<1>2. ASSUME NEW u \in Seq(S), u \in T, NEW d \in S PROVE Append(u, d) \in T
  <2>1. /\ u \in Seq(Nat) /\ Len(u) \in Nat /\ Len(Append(u, d)) = Len(u) + 1
        /\ d \in Nat /\ d < b
    OBVIOUS
  <2>2. Horner(b, Append(u, d)) = b * Horner(b, u) + d /\ Horner(b, u) \in Nat
    BY <2>1, HornerAppend, HornerNat
  <2>3. Power(b, Len(u) + 1) = b * Power(b, Len(u)) /\ Power(b, Len(u)) \in Nat
    BY <2>1, PowerStep
  <2>4. \A x, p \in Nat : x < p => b * x + d < b * p
    <3> TAKE x \in Nat, p \in Nat
    <3> HAVE x < p
    <3>1. b * x + b <= b * p
      <4>1. b * (x + 1) <= b * p
        OBVIOUS
      <4> QED BY <4>1
    <3>2. b * x \in Nat /\ b * p \in Nat
      OBVIOUS
    <3> QED BY <2>1, <3>1, <3>2
  <2>5. Horner(b, u) < Power(b, Len(u))
    BY <1>2
  <2> HIDE DEF T
  <2>6. Horner(b, Append(u, d)) < Power(b, Len(Append(u, d)))
    BY <2>1, <2>2, <2>3, <2>4, <2>5
  <2>7. Append(u, d) \in Seq(S)
    OBVIOUS
  <2> QED BY <2>6, <2>7 DEF T
<1> HIDE DEF T
<1>3. Seq(S) \subseteq T
  <2> HIDE DEF S
  <2> QED BY <1>1, <1>2, SeqInductionOn
<1>4. s \in Seq(Nat)
  OBVIOUS
<1> QED BY <1>3, <1>4, HornerNat DEF T

\* A sequence is its two parts.
LEMMA SplitAt ==
  ASSUME NEW S, NEW s \in Seq(S), NEW d \in 0..Len(s)
  PROVE  LET a == SubSeq(s, 1, d)
             b == SubSeq(s, d + 1, Len(s))
         IN /\ a \in Seq(S) /\ b \in Seq(S) /\ Len(a) = d /\ Len(b) = Len(s) - d
            /\ s = a \o b
<1>1. /\ Len(s) \in Nat /\ d \in Int /\ d + 1 \in Int /\ 0 <= d /\ d <= Len(s)
      /\ \A i \in 1..d : s[i] \in S
      /\ \A i \in (d + 1)..Len(s) : s[i] \in S
  BY LenProperties
<1>2. SubSeq(s, 1, d) \in Seq(S) /\ Len(SubSeq(s, 1, d)) = d
  BY <1>1, SubSeqProperties
<1>3. SubSeq(s, d + 1, Len(s)) \in Seq(S) /\ Len(SubSeq(s, d + 1, Len(s))) = Len(s) - d
  BY <1>1, SubSeqProperties
<1>4. s = SubSeq(s, 1, d) \o SubSeq(s, d + 1, Len(s))
  <2> DEFINE one == 1
             n == Len(s)
  <2>1. one \in 1..(n + 1) /\ d \in (one - 1)..n /\ n \in d..n
    BY <1>1
  <2>2. SubSeq(s, one, d) \o SubSeq(s, d + 1, n) = SubSeq(s, one, n)
    <3> HIDE DEF one
    <3> QED BY <2>1, ConcatAdjacentSubSeq
  <2> QED BY <2>2, SubSeqFull
<1> QED BY <1>2, <1>3, <1>4

-----------------------------------------------------------------------------
(* Integers in bytes. *)

LEMMA Quotient ==
  ASSUME NEW m \in Nat \ {0}, NEW q \in Nat, NEW r \in 0..(m - 1)
  PROVE  (m * q + r) \div m = q /\ (m * q + r) % m = r
OBVIOUS

LEMMA DivisionNat ==
  ASSUME NEW n \in Nat, NEW m \in Nat \ {0}
  PROVE  n \div m \in Nat /\ n % m \in 0..(m - 1) /\ n = m * (n \div m) + (n % m)
OBVIOUS

LEMMA DivisionTwice ==
  ASSUME NEW n \in Nat, NEW m \in Nat \ {0}, NEW k \in Nat \ {0}
  PROVE  (n \div m) \div k = n \div (m * k)
OBVIOUS

LEMMA HornerInjective ==
  ASSUME NEW b \in Nat \ {0}, NEW s \in Seq(0..(b - 1)), NEW t \in Seq(0..(b - 1)),
         Len(s) = Len(t), Horner(b, s) = Horner(b, t)
  PROVE  s = t
<1> DEFINE S == 0..(b - 1)
           T == {u \in Seq(S) : \A v \in Seq(S) :
                   Len(u) = Len(v) /\ Horner(b, u) = Horner(b, v) => u = v}
<1>1. <<>> \in T
  OBVIOUS
<1>2. ASSUME NEW u \in Seq(S), u \in T, NEW d \in S PROVE Append(u, d) \in T
  <2>1. Append(u, d) \in Seq(S) /\ Len(Append(u, d)) = Len(u) + 1 /\ Len(u) \in Nat
    OBVIOUS
  <2>2. ASSUME NEW v \in Seq(S), Len(v) = Len(u) + 1, Horner(b, Append(u, d)) = Horner(b, v)
        PROVE  Append(u, d) = v
    <3>1. PICK w \in Seq(S), e \in S : v = Append(w, e)
      <4>1. v # <<>>
        BY <2>1, <2>2
      <4> HIDE DEF S
      <4> QED BY <4>1, LastApart
    <3>2. Len(w) = Len(u)
      BY <2>1, <2>2, <3>1
    <3>3. u \in Seq(Nat) /\ w \in Seq(Nat) /\ d \in Nat /\ e \in Nat /\ d < b /\ e < b
      OBVIOUS
    <3>4. b * Horner(b, u) + d = b * Horner(b, w) + e
      <4>1. Horner(b, Append(u, d)) = b * Horner(b, u) + d
        BY <3>3, HornerAppend
      <4>2. Horner(b, Append(w, e)) = b * Horner(b, w) + e
        BY <3>3, HornerAppend
      <4> QED BY <2>2, <3>1, <4>1, <4>2
    <3>5. Horner(b, u) \in Nat /\ Horner(b, w) \in Nat
      BY <3>3, HornerNat
    <3>6. \A x \in Nat : /\ (b * x + d) \div b = x /\ (b * x + d) % b = d
                       /\ (b * x + e) \div b = x /\ (b * x + e) % b = e
      BY Quotient
    <3>7. Horner(b, u) = Horner(b, w) /\ d = e
      BY <3>4, <3>5, <3>6
    <3>8. u = w
      BY <1>2, <3>2, <3>7
    <3> QED BY <3>1, <3>7, <3>8
  <2> QED BY <2>1, <2>2
<1> HIDE DEF T
<1>3. Seq(S) \subseteq T
  <2> HIDE DEF S
  <2> QED BY <1>1, <1>2, SeqInductionOn
<1> QED BY <1>3 DEF T

-----------------------------------------------------------------------------
(* Bytes. *)

LEMMA PowerOfBase ==
  /\ ByteBase \in Nat \ {0} /\ ByteBase - 1 \in Nat
  /\ \A w \in Nat : Power(ByteBase, w) \in Nat \ {0}
  /\ U64Bytes \in Nat \ {0}
<1>1. ByteBase \in Nat \ {0} /\ ByteBase - 1 \in Nat /\ U64Bytes \in Nat \ {0}
  BY ByteAssumption
<1> QED BY <1>1, PowerPositive

LEMMA BytesOfType ==
  ASSUME NEW n \in Nat, NEW w \in Nat
  PROVE  BytesOf(n, w) \in Seq(Byte) /\ Len(BytesOf(n, w)) = w
<1>1. \A i \in 1..w : (n \div Power(ByteBase, i - 1)) % ByteBase \in Byte
  <2> TAKE i \in 1..w
  <2>1. i - 1 \in Nat
    OBVIOUS
  <2>2. n \div Power(ByteBase, i - 1) \in Nat
    BY <2>1, PowerOfBase, DivisionNat
  <2> QED BY <2>2, PowerOfBase, DivisionNat DEF Byte
<1> QED BY <1>1 DEF BytesOf

LEMMA ReverseAppend ==
  ASSUME NEW S, NEW s \in Seq(S), NEW d \in S
  PROVE  /\ Reverse(s) \in Seq(S) /\ Len(Reverse(s)) = Len(s)
         /\ Reverse(<<d>> \o s) = Append(Reverse(s), d)
<1>1. Reverse(s) \in Seq(S) /\ Len(Reverse(s)) = Len(s)
  BY DEF Reverse
<1> DEFINE t == <<d>> \o s
<1>2. /\ t \in Seq(S) /\ Len(t) = Len(s) + 1 /\ t[1] = d /\ Len(s) \in Nat
      /\ \A i \in 1..Len(s) : t[i + 1] = s[i]
  OBVIOUS
<1> HIDE DEF t
<1>3. Reverse(t) = Append(Reverse(s), d)
  <2>1. /\ Reverse(t) \in Seq(S) /\ Len(Reverse(t)) = Len(s) + 1
        /\ \A i \in 1..(Len(s) + 1) : Reverse(t)[i] = t[Len(s) + 2 - i]
    BY <1>2 DEF Reverse
  <2>2. \A i \in 1..Len(s) : Reverse(s)[i] = s[Len(s) + 1 - i]
    BY <1>2 DEF Reverse
  <2>3. \A i \in 1..(Len(s) + 1) : Reverse(t)[i] = Append(Reverse(s), d)[i]
    <3> TAKE i \in 1..(Len(s) + 1)
    <3>1. CASE i = Len(s) + 1
      BY <1>1, <1>2, <2>1, <3>1, SMTT(60)
    <3>2. CASE i # Len(s) + 1
      <4>1. i \in 1..Len(s) /\ Len(s) + 1 - i \in 1..Len(s) /\ (Len(s) + 1 - i) + 1 = Len(s) + 2 - i
        BY <1>2, <3>2
      <4>2. Reverse(t)[i] = s[Len(s) + 1 - i]
        BY <1>2, <2>1, <4>1
      <4>3. Append(Reverse(s), d)[i] = Reverse(s)[i]
        BY <1>1, <1>2, <4>1
      <4> QED BY <2>2, <4>1, <4>2, <4>3
    <3> QED BY <3>1, <3>2
  <2> QED BY <1>1, <1>2, <2>1, <2>3
<1> QED BY <1>1, <1>3 DEF t

\* A number's bytes are the number's.
LEMMA BytesFaithful ==
  \A w \in Nat : \A n \in Nat :
    n < Power(ByteBase, w) => LittleEndian(BytesOf(n, w)) = n
<1> DEFINE T == {w \in Nat : \A n \in Nat :
                   n < Power(ByteBase, w) => LittleEndian(BytesOf(n, w)) = n}
<1>1. 0 \in T
  <2> SUFFICES ASSUME NEW n \in Nat, n < Power(ByteBase, 0) PROVE LittleEndian(BytesOf(n, 0)) = n
    OBVIOUS
  <2>1. n = 0
    BY PowerOfBase, PowerStep
  <2>2. Reverse(BytesOf(n, 0)) = <<>>
    BY DEF BytesOf, Reverse
  <2> QED BY <2>1, <2>2, PowerOfBase, HornerEmpty DEF LittleEndian
<1>2. ASSUME NEW w \in Nat, w \in T PROVE w + 1 \in T
  <2> SUFFICES ASSUME NEW n \in Nat, n < Power(ByteBase, w + 1)
               PROVE  LittleEndian(BytesOf(n, w + 1)) = n
    OBVIOUS
  <2> DEFINE q == n \div ByteBase
             d == n % ByteBase
  <2>1. q \in Nat /\ d \in 0..(ByteBase - 1) /\ n = ByteBase * q + d
    BY PowerOfBase, DivisionNat
  <2> HIDE DEF q, d
  <2>2. q < Power(ByteBase, w)
    <3>1. Power(ByteBase, w + 1) = ByteBase * Power(ByteBase, w) /\ Power(ByteBase, w) \in Nat
      BY PowerOfBase, PowerStep
    <3>2. \A x, p \in Nat : x >= p => ByteBase * x >= ByteBase * p
      BY PowerOfBase
    <3> QED BY <2>1, <3>1, <3>2, PowerOfBase
  <2>3. LittleEndian(BytesOf(q, w)) = q
    BY <1>2, <2>1, <2>2
  <2>4. BytesOf(n, w + 1) = <<d>> \o BytesOf(q, w)
    <3> DEFINE f == BytesOf(n, w + 1)
               g == <<d>> \o BytesOf(q, w)
    <3>1. f \in Seq(Byte) /\ Len(f) = w + 1
      BY BytesOfType
    <3>2. BytesOf(q, w) \in Seq(Byte) /\ Len(BytesOf(q, w)) = w
      BY <2>1, BytesOfType
    <3>3. g \in Seq(Byte) /\ Len(g) = w + 1 /\ g[1] = d
          /\ \A i \in 2..(w + 1) : g[i] = BytesOf(q, w)[i - 1]
      BY <2>1, <3>2 DEF Byte
    <3>4. ASSUME NEW i \in 1..(w + 1) PROVE f[i] = g[i]
      <4>0. f[i] = (n \div Power(ByteBase, i - 1)) % ByteBase
        BY DEF BytesOf
      <4>1. CASE i = 1
        <5>1. i - 1 = 0 /\ n \div 1 = n
          BY <4>1
        <5> QED BY <3>3, <4>0, <4>1, <5>1, PowerOfBase, PowerStep DEF d
      <4>2. CASE i # 1
        <5>1. i - 1 \in 1..w /\ i - 2 \in Nat /\ (i - 2) + 1 = i - 1
          BY <4>2
        <5>2. BytesOf(q, w)[i - 1] = (q \div Power(ByteBase, i - 2)) % ByteBase
          BY <5>1 DEF BytesOf
        <5>3. Power(ByteBase, i - 1) = ByteBase * Power(ByteBase, i - 2)
          BY <5>1, PowerOfBase, PowerStep
        <5>4. q \div Power(ByteBase, i - 2) = n \div (ByteBase * Power(ByteBase, i - 2))
          BY <5>1, PowerOfBase, DivisionTwice DEF q
        <5> QED BY <3>3, <4>0, <4>2, <5>1, <5>2, <5>3, <5>4
      <4> QED BY <4>1, <4>2
    <3> HIDE DEF f, g
    <3>5. f = g
      BY <3>1, <3>3, <3>4
    <3> QED BY <3>5 DEF f, g
  <2>5. BytesOf(q, w) \in Seq(Byte) /\ d \in Byte
    BY <2>1, BytesOfType DEF Byte
  <2>6. Reverse(<<d>> \o BytesOf(q, w)) = Append(Reverse(BytesOf(q, w)), d)
        /\ Reverse(BytesOf(q, w)) \in Seq(Byte)
    BY <2>5, ReverseAppend
  <2>7. Reverse(BytesOf(q, w)) \in Seq(Nat) /\ d \in Nat
    BY <2>1, <2>6, PowerOfBase, SMTT(60) DEF Byte
  <2>8. Horner(ByteBase, Append(Reverse(BytesOf(q, w)), d))
          = ByteBase * Horner(ByteBase, Reverse(BytesOf(q, w))) + d
    BY <2>7, PowerOfBase, HornerAppend
  <2> QED BY <2>1, <2>3, <2>4, <2>6, <2>8 DEF LittleEndian
<1> HIDE DEF T
<1>3. Nat \subseteq T
  BY <1>1, <1>2, InductionOn
<1> QED BY <1>3 DEF T

LEMMA BytesInjective ==
  ASSUME NEW w \in Nat, NEW m \in Nat, NEW n \in Nat,
         m < Power(ByteBase, w), n < Power(ByteBase, w), BytesOf(m, w) = BytesOf(n, w)
  PROVE  m = n
BY BytesFaithful

LEMMA EndianRange ==
  ASSUME NEW s \in Seq(Byte)
  PROVE  /\ BigEndian(s) \in Nat /\ BigEndian(s) < Power(ByteBase, Len(s))
         /\ LittleEndian(s) \in Nat /\ LittleEndian(s) < Power(ByteBase, Len(s))
<1>1. Reverse(s) \in Seq(Byte) /\ Len(Reverse(s)) = Len(s)
  BY DEF Reverse
<1> QED BY <1>1, PowerOfBase, HornerBound DEF BigEndian, LittleEndian, Byte

\* Bytes are the bytes of the number they are read as.
LEMMA NumberFaithful ==
  ASSUME NEW s \in Seq(Byte)
  PROVE  BytesOf(LittleEndian(s), Len(s)) = s
<1> DEFINE n == LittleEndian(s)
           t == BytesOf(n, Len(s))
<1>1. n \in Nat /\ n < Power(ByteBase, Len(s)) /\ Len(s) \in Nat
  BY EndianRange
<1>2. t \in Seq(Byte) /\ Len(t) = Len(s) /\ LittleEndian(t) = n
  BY <1>1, BytesOfType, BytesFaithful
<1> HIDE DEF n, t
<1>3. /\ Reverse(s) \in Seq(Byte) /\ Len(Reverse(s)) = Len(s)
      /\ Reverse(t) \in Seq(Byte) /\ Len(Reverse(t)) = Len(t)
  BY <1>2 DEF Reverse
<1>4. Horner(ByteBase, Reverse(s)) = Horner(ByteBase, Reverse(t))
  BY <1>2 DEF LittleEndian, n
<1>5. Reverse(s) = Reverse(t)
  BY <1>2, <1>3, <1>4, PowerOfBase, HornerInjective DEF Byte
<1>6. ASSUME NEW i \in 1..Len(s) PROVE s[i] = t[i]
  <2>1. /\ Len(s) + 1 - i \in 1..Len(s) /\ Len(s) - (Len(s) + 1 - i) + 1 = i
        /\ Len(s) \in Nat
    OBVIOUS
  <2>2. Reverse(s)[Len(s) + 1 - i] = s[i] /\ Reverse(t)[Len(s) + 1 - i] = t[i]
    BY <1>2, <2>1 DEF Reverse
  <2> QED BY <1>5, <2>2
<1> QED BY <1>2, <1>6 DEF n, t

-----------------------------------------------------------------------------
(* Texts of amounts: what a parser refuses and what it reads. *)

LEMMA DotFirst ==
  ASSUME NEW s \in Seq(Char)
  PROVE  /\ DotAt(s) \in 0..Len(s)
         /\ DotAt(s) = 0 => \A i \in 1..Len(s) : s[i] # Dot
         /\ DotAt(s) # 0 => s[DotAt(s)] = Dot /\ \A i \in 1..(DotAt(s) - 1) : s[i] # Dot
<1> DEFINE I == {i \in 1..Len(s) : s[i] = Dot}
<1>1. DotAt(s) = IF I # {} THEN Min(I) ELSE 0
  BY DEF DotAt, SelectInSeq
<1>2. I # {} => Min(I) \in I /\ \A i \in I : Min(I) <= i
  <2> SUFFICES ASSUME I # {} PROVE Min(I) \in I /\ \A i \in I : Min(I) <= i
    OBVIOUS
  <2>1. I \in SUBSET Nat
    OBVIOUS
  <2> HIDE DEF I
  <2>2. \E y \in I : \A z \in I : y <= z
    BY <2>1, LeastElement
  <2> QED BY <2>2 DEF Min
<1>3. CASE I = {}
  BY <1>1, <1>3
<1>4. CASE I # {}
  <2> DEFINE m == Min(I)
  <2>1. m \in I /\ DotAt(s) = m /\ \A i \in I : m <= i
    BY <1>1, <1>2, <1>4
  <2> HIDE DEF m
  <2>2. m \in 1..Len(s) /\ s[m] = Dot
    BY <2>1
  <2>3. ASSUME NEW i \in 1..(m - 1) PROVE s[i] # Dot
    <3>1. i \in 1..Len(s) /\ ~(m <= i)
      BY <2>2
    <3> QED BY <2>1, <3>1
  <2> QED BY <2>1, <2>2, <2>3
<1> QED BY <1>3, <1>4

LEMMA Parts ==
  ASSUME NEW s \in Seq(Char)
  PROVE  /\ Whole(s) \in Seq(Char) /\ Fraction(s) \in Seq(Char)
         /\ Whole(s) \o Fraction(s) \in Seq(Char)
         /\ Len(Fraction(s)) \in Nat
<1>1. Len(s) \in Nat /\ DotAt(s) \in 0..Len(s)
  BY DotFirst
<1>2. Whole(s) \in Seq(Char)
  BY <1>1 DEF Whole
<1>3. Fraction(s) \in Seq(Char)
  BY <1>1 DEF Fraction
<1> QED BY <1>2, <1>3

LEMMA DigitText ==
  ASSUME NEW s \in Seq(Char), Digits(s)
  PROVE  s \in Seq(0..9) /\ s \in Seq(Nat) /\ Number(s) \in Nat
<1>1. s \in Seq(0..9) /\ s \in Seq(Nat)
  BY DEF Digits
<1> QED BY <1>1, HornerNat DEF Number

\* Text without a point.
LEMMA NoPoint ==
  ASSUME NEW s \in Seq(Char), DotAt(s) = 0
  PROVE  /\ Whole(s) = s /\ Fraction(s) = <<>> /\ Len(Fraction(s)) = 0
         /\ Whole(s) \o Fraction(s) = s /\ Numerator(s) = Number(s)
         /\ IsDecimal(s) <=> Digits(s)
<1>1. Whole(s) = s /\ Fraction(s) = <<>>
  BY DEF Whole, Fraction
<1>2. s \o <<>> = s
  OBVIOUS
<1> QED BY <1>1, <1>2 DEF Numerator, IsDecimal

LEMMA DigitsNoPoint ==
  ASSUME NEW s \in Seq(Char), Digits(s)
  PROVE  DotAt(s) = 0
<1>1. DotAt(s) # 0 => DotAt(s) \in DOMAIN s /\ s[DotAt(s)] = 10
  BY DotFirst DEF Dot
<1> QED BY <1>1 DEF Digits

LEMMA DigitsConcat ==
  ASSUME NEW s \in Seq(Char), NEW t \in Seq(Char)
  PROVE  Digits(s \o t) <=> Digits(s) /\ Digits(t)
<1>1. /\ Len(s \o t) = Len(s) + Len(t) /\ Len(s) \in Nat /\ Len(t) \in Nat
      /\ \A i \in 1..Len(s) : (s \o t)[i] = s[i]
      /\ \A i \in 1..Len(t) : (s \o t)[Len(s) + i] = t[i]
  OBVIOUS
<1>2. ASSUME Digits(s \o t) PROVE Digits(s) /\ Digits(t)
  <2>1. \A i \in 1..Len(s) : s[i] \in 0..9
    BY <1>1, <1>2 DEF Digits
  <2>2. \A i \in 1..Len(t) : Len(s) + i \in DOMAIN (s \o t)
    BY <1>1
  <2>3. \A i \in 1..Len(t) : t[i] \in 0..9
    BY <1>1, <1>2, <2>2 DEF Digits
  <2> QED BY <2>1, <2>3 DEF Digits
<1>3. ASSUME Digits(s), Digits(t) PROVE Digits(s \o t)
  <2> SUFFICES ASSUME NEW i \in 1..(Len(s) + Len(t)) PROVE (s \o t)[i] \in 0..9
    BY <1>1 DEF Digits
  <2>1. CASE i <= Len(s)
    BY <1>1, <1>3, <2>1 DEF Digits
  <2>2. CASE i > Len(s)
    <3>1. i - Len(s) \in 1..Len(t) /\ Len(s) + (i - Len(s)) = i
      BY <1>1, <2>2
    <3> QED BY <1>1, <1>3, <3>1 DEF Digits
  <2> QED BY <1>1, <2>1, <2>2
<1> QED BY <1>2, <1>3

LEMMA FitsRange ==
  ASSUME NEW n \in Nat
  PROVE  /\ Fits(n) \in {Refused} \cup 0..MaxU256
         /\ Fits(n) = Refused <=> n > MaxU256
         /\ Fits(n) # Refused => Fits(n) = n
BY AmountsAssumption DEF Fits, Refused

\* What from_str_radix accepts.
LEMMA RadixParsed ==
  ASSUME NEW s \in Seq(Char)
  PROVE  /\ FromStrRadix(s) \in {Refused} \cup 0..MaxU256
         /\ FromStrRadix(s) # Refused => Digits(s) /\ FromStrRadix(s) = Number(s)
         /\ FromStrRadix(s) = Refused => ~Digits(s) \/ Number(s) > MaxU256
BY DigitText, FitsRange DEF FromStrRadix

-----------------------------------------------------------------------------
(* Zeros and powers of ten. *)

LEMMA ZerosSeq ==
  ASSUME NEW n \in Nat
  PROVE  /\ Zeros(n) \in Seq(0..9) /\ Zeros(n) \in Seq(Char) /\ Zeros(n) \in Seq(Nat) /\ Len(Zeros(n)) = n /\ Digits(Zeros(n))
         /\ Zeros(n + 1) = Append(Zeros(n), 0)
BY DEF Zeros, Digits, Char, Other

LEMMA ZerosAreZero == \A n \in Nat : Number(Zeros(n)) = 0
<1> DEFINE T == {n \in Nat : Number(Zeros(n)) = 0}
<1>1. 0 \in T
  <2>1. Zeros(0) = <<>>
    BY DEF Zeros
  <2> QED BY <2>1, HornerEmpty DEF Number
<1>2. ASSUME NEW n \in Nat, n \in T PROVE n + 1 \in T
  <2>1. Zeros(n) \in Seq(Nat) /\ Zeros(n + 1) = Append(Zeros(n), 0)
    BY ZerosSeq
  <2>2. Horner(10, Append(Zeros(n), 0)) = 10 * Horner(10, Zeros(n)) + 0
    BY <2>1, HornerAppend
  <2>3. Horner(10, Zeros(n)) = 0
    BY <1>2 DEF Number
  <2>4. Horner(10, Append(Zeros(n), 0)) = 0
    BY <2>2, <2>3
  <2>5. Number(Zeros(n + 1)) = 0
    BY <2>1, <2>4, Zenon DEF Number
  <2> QED BY <2>5
<1> HIDE DEF T
<1>3. Nat \subseteq T
  BY <1>1, <1>2, InductionOn
<1> QED BY <1>3 DEF T

LEMMA TenPower == \A n \in Nat : Power(10, n) \in Nat \ {0}
BY PowerPositive

LEMMA NumberConcat ==
  ASSUME NEW s \in Seq(Char), NEW t \in Seq(Char), Digits(s), Digits(t)
  PROVE  /\ Number(s \o t) = Number(s) * Power(10, Len(t)) + Number(t)
         /\ Number(t) < Power(10, Len(t))
         /\ s \o t \in Seq(Char)
<1>1. s \in Seq(Nat) /\ t \in Seq(Nat) /\ t \in Seq(0..(10 - 1))
  BY DigitText
<1>2. Number(t) < Power(10, Len(t))
  <2> DEFINE b == 10
  <2>1. b \in Nat \ {0} /\ t \in Seq(0..(b - 1))
    BY <1>1
  <2> HIDE DEF b
  <2>2. Horner(b, t) < Power(b, Len(t))
    BY <2>1, HornerBound
  <2> QED BY <2>2 DEF Number, b
<1> QED BY <1>1, <1>2, HornerConcat DEF Number

LEMMA TenSplit ==
  ASSUME NEW m \in Nat, NEW n \in Nat, n - m \in Nat
  PROVE  Power(10, n) = Power(10, m) * Power(10, n - m)
<1>1. m + (n - m) = n
  OBVIOUS
<1>2. \A k \in Nat : Power(10, m + k) = Power(10, m) * Power(10, k)
  BY PowerSum
<1> QED BY <1>1, <1>2

-----------------------------------------------------------------------------
(* The parsers, one by one. *)

LEMMA BaseUnitsParsed ==
  ASSUME NEW s \in Seq(Char)
  PROVE  LET n == BaseUnits(s)
             L == Len(Fraction(s))
         IN /\ n \in {Refused} \cup 0..MaxU256
            /\ n # Refused => IsDecimal(s) /\ L <= Decimals /\ IsExactly(s, Decimals, n)
            /\ n = Refused => \/ ~IsDecimal(s) \/ L > Decimals
                              \/ Numerator(s) * Power(10, Decimals) >= (MaxU256 + 1) * Power(10, L)
<1> DEFINE L == Len(Fraction(s))
           body == Whole(s) \o Fraction(s)
           z == Zeros(Decimals - L)
<1>0. Decimals \in Nat /\ MaxU256 \in Nat /\ L \in Nat /\ body \in Seq(Char)
  BY AmountsAssumption, Parts
<1>1. CASE L > Decimals
  BY <1>0, <1>1 DEF BaseUnits, Refused
<1>2. CASE L <= Decimals
  <2>1. BaseUnits(s) = FromStrRadix(body \o z)
    BY <1>0, <1>2 DEF BaseUnits
  <2>2. Decimals - L \in Nat
    BY <1>0, <1>2
  <2>3. z \in Seq(Char) /\ Len(z) = Decimals - L /\ Digits(z) /\ Number(z) = 0
    BY <2>2, ZerosSeq, ZerosAreZero
  <2>4. body \o z \in Seq(Char) /\ (Digits(body \o z) <=> Digits(body))
    <3> HIDE DEF body, z
    <3>1. \A f, g \in Seq(Char) : Digits(f \o g) <=> Digits(f) /\ Digits(g)
      BY DigitsConcat
    <3>2. \A f, g \in Seq(Char) : f \o g \in Seq(Char)
      OBVIOUS
    <3> QED BY <1>0, <2>3, <3>1, <3>2
  <2>5. Digits(body) => Number(body) \in Nat /\ Number(body \o z) = Number(body) * Power(10, Decimals - L)
    <3> SUFFICES ASSUME Digits(body)
                 PROVE  Number(body) \in Nat /\ Number(body \o z) = Number(body) * Power(10, Decimals - L)
      OBVIOUS
    <3>1. Number(body \o z) = Number(body) * Power(10, Len(z)) + Number(z)
      BY <1>0, <2>3, NumberConcat
    <3>2. Number(body) \in Nat
      BY <1>0, DigitText
    <3>3. Power(10, Decimals - L) \in Nat
      BY <2>2, TenPower
    <3> QED BY <2>3, <3>1, <3>2, <3>3
  <2>6. Power(10, Decimals) = Power(10, L) * Power(10, Decimals - L)
    BY <1>0, <2>2, TenSplit
  <2>7. Power(10, L) \in Nat \ {0} /\ Power(10, Decimals - L) \in Nat \ {0}
    BY <1>0, <2>2, TenPower
  <2>8. Numerator(s) = Number(body) /\ (IsDecimal(s) <=> Digits(body))
    BY DEF Numerator, IsDecimal
  <2> DEFINE n == BaseUnits(s)
             N == Number(body)
             P == Power(10, L)
             Q == Power(10, Decimals - L)
  <2>9. /\ n \in {Refused} \cup 0..MaxU256
        /\ n # Refused => Digits(body) /\ N \in Nat /\ n = N * Q
        /\ n = Refused /\ Digits(body) => N \in Nat /\ N * Q > MaxU256
    BY <2>1, <2>4, <2>5, RadixParsed
  <2> HIDE DEF n, N, P, Q, L, body, z
  <2>10. ASSUME n # Refused PROVE n * P = N * (P * Q)
    BY <2>7, <2>9, <2>10 DEF P, Q
  <2>11. ASSUME N \in Nat, N * Q > MaxU256 PROVE N * (P * Q) >= (MaxU256 + 1) * P
    <3>1. \A x, p \in Nat : x >= MaxU256 + 1 => x * p >= (MaxU256 + 1) * p
      <4>1. \A m, x, p \in Nat : x >= m + 1 => x * p >= (m + 1) * p
        OBVIOUS
      <4> QED BY <1>0, <4>1
    <3>2. N * (P * Q) = (N * Q) * P /\ N * Q \in Nat
      BY <2>7, <2>11 DEF P, Q
    <3>3. P \in Nat /\ N * Q >= MaxU256 + 1
      BY <1>0, <2>7, <2>11, <3>2 DEF P
    <3>4. (N * Q) * P >= (MaxU256 + 1) * P
      BY <3>1, <3>2, <3>3
    <3> QED BY <3>2, <3>4
  <2> QED BY <1>2, <2>6, <2>8, <2>9, <2>10, <2>11 DEF IsExactly, n, N, P, Q, L
<1> QED BY <1>0, <1>1, <1>2
-----------------------------------------------------------------------------
(* parse_decimal_to_scaled. *)

LEMMA Products ==
  \A w, f, p, q, r \in Nat :
    p * r <= f * q /\ f * q < (p + 1) * r =>
      /\ (w * q + p) * r <= (w * r + f) * q
      /\ (w * r + f) * q < (w * q + p + 1) * r
<1> TAKE w, f, p, q, r \in Nat
<1>1. (w * q + p) * r = w * q * r + p * r
  OBVIOUS
<1>2. (w * r + f) * q = w * q * r + f * q
  OBVIOUS
<1>3. (w * q + p + 1) * r = w * q * r + (p + 1) * r
  OBVIOUS
<1>4. w * q * r \in Int /\ p * r \in Int /\ f * q \in Int /\ (p + 1) * r \in Int
  OBVIOUS
<1> QED BY <1>1, <1>2, <1>3, <1>4

LEMMA Scale == \A x, y, p \in Nat : x >= y => x * p >= y * p
OBVIOUS

LEMMA ScaleStrict == \A x, y \in Nat, p \in Nat \ {0} : x < y => x * p < y * p
OBVIOUS

\* The padded or cut fraction is the fraction rounded down.
LEMMA PaddedParsed ==
  ASSUME NEW s \in Seq(Char), NEW d \in Nat, Digits(Fraction(s))
  PROVE  LET f == Number(Fraction(s))
             p == Number(Padded(s, d))
             r == Power(10, Len(Fraction(s)))
             q == Power(10, d)
         IN f \in Nat /\ p \in Nat /\ p * r <= f * q /\ f * q < (p + 1) * r
<1> DEFINE F == Fraction(s)
           L == Len(F)
<1>0. F \in Seq(Char) /\ L \in Nat /\ Digits(F) /\ Number(F) \in Nat
  BY Parts, DigitText
<1>1. CASE L <= d
  <2> DEFINE z == Zeros(d - L)
  <2>1. d - L \in Nat
    BY <1>0, <1>1
  <2>2. z \in Seq(Char) /\ Len(z) = d - L /\ Digits(z) /\ Number(z) = 0
    BY <2>1, ZerosSeq, ZerosAreZero
  <2>3. Padded(s, d) = F \o z
    <3> DEFINE t == F \o Zeros(d)
    <3>1. Zeros(d) \in Seq(Char) /\ Len(Zeros(d)) = d
      BY ZerosSeq
    <3>2. SubSeq(t, 1, d) = [i \in 1..d |-> t[i]]
      BY <1>0, <3>1
    <3>3. \A i \in 1..d : t[i] = IF i <= L THEN F[i] ELSE 0
      BY <1>0, <3>1 DEF Zeros
    <3>4. F \o z = [i \in 1..d |-> IF i <= L THEN F[i] ELSE 0]
      BY <1>0, <1>1, <2>2 DEF Zeros
    <3> QED BY <3>2, <3>3, <3>4 DEF Padded
  <2>4. Number(F \o z) = Number(F) * Power(10, d - L) + 0
    <3> HIDE DEF F, z
    <3>1. \A a, b \in Seq(Char) : Digits(a) /\ Digits(b) => Number(a \o b) = Number(a) * Power(10, Len(b)) + Number(b)
      BY NumberConcat
    <3> QED BY <1>0, <2>2, <3>1
  <2>5. Power(10, d) = Power(10, L) * Power(10, d - L)
    BY <1>0, <2>1, TenSplit
  <2>6. Power(10, L) \in Nat \ {0} /\ Power(10, d - L) \in Nat \ {0}
    BY <1>0, <2>1, TenPower
  <2> DEFINE f == Number(F)
             p == Number(Padded(s, d))
             r == Power(10, L)
             e == Power(10, d - L)
  <2>7. f \in Nat /\ p = f * e /\ r \in Nat \ {0} /\ e \in Nat \ {0} /\ Power(10, d) = r * e
    BY <1>0, <2>3, <2>4, <2>5, <2>6
  <2> HIDE DEF f, p, r, e
  <2>8. p \in Nat /\ p * r = f * (r * e)
    BY <2>7
  <2>9. p * r < (p + 1) * r
    BY <2>7, <2>8
  <2> QED BY <2>7, <2>8, <2>9 DEF f, p, r, F, L
<1>2. CASE L > d
  <2> DEFINE a == SubSeq(F, 1, d)
             b == SubSeq(F, d + 1, L)
  <2>1. /\ a \in Seq(Char) /\ b \in Seq(Char) /\ Len(a) = d /\ Len(b) = L - d
        /\ F = a \o b /\ L - d \in Nat
    <3>1. d \in 0..L /\ L - d \in Nat
      BY <1>0, <1>2
    <3>2. \A f \in Seq(Char), i \in Nat : i \in 0..Len(f) =>
            LET u == SubSeq(f, 1, i)
                v == SubSeq(f, i + 1, Len(f))
            IN /\ u \in Seq(Char) /\ v \in Seq(Char) /\ Len(u) = i /\ Len(v) = Len(f) - i
               /\ f = u \o v
      BY SplitAt
    <3> HIDE DEF F
    <3> QED BY <1>0, <3>1, <3>2
  <2>2. Padded(s, d) = a
    <3>1. Zeros(d) \in Seq(Char)
      BY ZerosSeq
    <3> QED BY <1>0, <1>2, <3>1 DEF Padded
  <2> HIDE DEF a, b, F
  <2>3. Digits(a) /\ Digits(b)
    BY <1>0, <2>1, DigitsConcat
  <2>4. Number(a) \in Nat /\ Number(b) \in Nat
    BY <2>1, <2>3, DigitText
  <2>5. Number(F) = Number(a) * Power(10, L - d) + Number(b) /\ Number(b) < Power(10, L - d)
    <3>1. Number(a \o b) = Number(a) * Power(10, Len(b)) + Number(b) /\ Number(b) < Power(10, Len(b))
      BY <2>1, <2>3, NumberConcat
    <3> QED BY <2>1, <3>1
  <2>6. Power(10, L) = Power(10, d) * Power(10, L - d)
    BY <1>0, <2>1, TenSplit
  <2>7. Power(10, d) \in Nat \ {0} /\ Power(10, L - d) \in Nat \ {0}
    BY <2>1, TenPower
  <2> DEFINE f == Number(F)
             p == Number(a)
             g == Number(b)
             q == Power(10, d)
             e == Power(10, L - d)
  <2>8. /\ p \in Nat /\ g \in Nat /\ q \in Nat \ {0} /\ e \in Nat \ {0}
        /\ f = p * e + g /\ g < e /\ Power(10, L) = q * e
    BY <2>4, <2>5, <2>6, <2>7
  <2> HIDE DEF f, p, g, q, e
  <2>9. p * (q * e) <= f * q
    <3>1. f * q = p * (q * e) + g * q /\ g * q \in Nat
      BY <2>8
    <3> QED BY <2>8, <3>1
  <2>10. f * q < (p + 1) * (q * e)
    <3>1. f \in Nat /\ (p + 1) * e \in Nat /\ f < (p + 1) * e
      BY <2>8
    <3>2. f * q < ((p + 1) * e) * q
      BY <2>8, <3>1, ScaleStrict
    <3>3. ((p + 1) * e) * q = (p + 1) * (q * e)
      BY <2>8
    <3> QED BY <3>2, <3>3
  <2>11. f \in Nat
    BY <2>8
  <2> QED BY <2>2, <2>8, <2>9, <2>10, <2>11 DEF f, p, q, F, L
<1> QED BY <1>0, <1>1, <1>2

LEMMA ScaledParsed ==
  ASSUME NEW s \in Seq(Char), NEW d \in 0..Decimals
  PROVE  LET n == ParseScaled(s, d)
             WellFormed == /\ Whole(s) # <<>> /\ IsDecimal(s)
                           /\ DotAt(s) # 0 => Fraction(s) # <<>>
         IN /\ n \in {Refused} \cup 0..MaxU256
            /\ n # Refused => WellFormed /\ RoundsTo(s, d, n)
            /\ n = Refused => \/ ~WellFormed
                              \/ Numerator(s) * Power(10, d) >= (MaxU256 + 1) * Power(10, Len(Fraction(s)))
<1> DEFINE W == Whole(s)
           F == Fraction(s)
           L == Len(F)
           WellFormed == /\ W # <<>> /\ Digits(W)
                         /\ DotAt(s) # 0 => F # <<>> /\ Digits(F)
<1>0. Decimals \in Nat /\ MaxU256 \in Nat /\ d \in Nat /\ L \in Nat /\ W \in Seq(Char) /\ F \in Seq(Char)
  BY AmountsAssumption, Parts
<1>1. IsDecimal(s) <=> Digits(W) /\ Digits(F)
  BY <1>0, DigitsConcat DEF IsDecimal
<1>2. DotAt(s) = 0 => Digits(F)
  BY DEF Fraction, Digits
<1>3. WellFormed <=> /\ W # <<>> /\ IsDecimal(s) /\ (DotAt(s) # 0 => F # <<>>)
  BY <1>1, <1>2
<1>4. ~WellFormed => ParseScaled(s, d) = Refused
  BY DEF ParseScaled
<1>5. CASE WellFormed
  <2> DEFINE w == Number(W)
             f == Number(F)
             p == Number(Padded(s, d))
             r == Power(10, L)
             q == Power(10, d)
  <2>1. Digits(W) /\ Digits(F)
    BY <1>1, <1>3, <1>5
  <2>2. w \in Nat /\ f \in Nat /\ p \in Nat /\ p * r <= f * q /\ f * q < (p + 1) * r
    BY <1>0, <2>1, DigitText, PaddedParsed
  <2>3. Numerator(s) = w * r + f
    BY <1>0, <2>1, NumberConcat DEF Numerator
  <2>4. r \in Nat \ {0} /\ q \in Nat \ {0}
    BY <1>0, TenPower
  <2>5. q <= MaxU256
    <3>0. Decimals - d \in Nat
      BY <1>0
    <3>1. Decimals - d \in Nat /\ Power(10, Decimals - d) \in Nat \ {0}
      BY <3>0, TenPower
    <3>2. Power(10, Decimals) = q * Power(10, Decimals - d)
      BY <1>0, <3>1, TenSplit
    <3> DEFINE e == Power(10, Decimals - d)
    <3>3. e \in Nat \ {0} /\ Power(10, Decimals) = q * e
      BY <3>1, <3>2
    <3> HIDE DEF e, q
    <3>4. q <= q * e
      BY <2>4, <3>3 DEF q
    <3>5. q * e <= MaxU256
      BY <3>3, AmountsAssumption
    <3> QED BY <1>0, <2>4, <3>3, <3>4, <3>5, SMTT(60)
  <2>6. ParseScaled(s, d) = IF w * q <= MaxU256 THEN Fits(w * q + p) ELSE Refused
    BY <1>5, <2>5 DEF ParseScaled
  <2> HIDE DEF w, f, p, r, q
  <2>7. w * q \in Nat /\ w * q + p \in Nat
    BY <2>2, <2>4
  <2> DEFINE n == w * q + p
  <2>8. n * r <= (w * r + f) * q /\ (w * r + f) * q < (n + 1) * r
    BY <2>2, <2>4, Products
  <2>9. ASSUME n > MaxU256 PROVE (w * r + f) * q >= (MaxU256 + 1) * r
    <3>1. n >= MaxU256 + 1 /\ n \in Nat /\ MaxU256 + 1 \in Nat /\ r \in Nat
      BY <1>0, <2>4, <2>7, <2>9
    <3> HIDE DEF n
    <3>2. n * r >= (MaxU256 + 1) * r
      BY <3>1, Scale
    <3>3. n * r \in Int /\ (MaxU256 + 1) * r \in Int /\ (w * r + f) * q \in Int
      BY <2>2, <2>4, <3>1
    <3> QED BY <2>8, <3>2, <3>3
  <2>10. w * q > MaxU256 => n > MaxU256
    BY <1>0, <2>2, <2>7
  <2>11. n <= MaxU256 => w * q <= MaxU256
    BY <1>0, <2>2, <2>7
  <2>12. /\ ParseScaled(s, d) \in {Refused} \cup 0..MaxU256
         /\ ParseScaled(s, d) # Refused => ParseScaled(s, d) = n
         /\ ParseScaled(s, d) = Refused => n > MaxU256
    BY <2>6, <2>7, <2>10, FitsRange
  <2> QED BY <1>3, <1>5, <2>3, <2>8, <2>9, <2>12 DEF RoundsTo, r, q, F, L
<1> QED BY <1>3, <1>4, <1>5

-----------------------------------------------------------------------------
(* The perpetuals decoder. *)

Types == {"u64", "side", "option u64", "option bool"}

\* The values of a type and their bytes.
Values(type) ==
  CASE type = "u64" -> 0..U64Max
    [] type = "side" -> 0..2
    [] type = "option u64" -> 0..U64Max \cup {Absent}
    [] type = "option bool" -> {0, 1, Absent}

Encoded(type, v) ==
  CASE type = "u64" -> U64(v)
    [] type = "side" -> <<v>>
    [] type = "option u64" -> Option(U64(v), v)
    [] type = "option bool" -> Option(<<v>>, v)

LEMMA U64Type ==
  /\ U64Bytes \in Nat \ {0} /\ U64Max \in Nat
  /\ \A v \in 0..U64Max : /\ v \in Nat /\ v < Power(ByteBase, U64Bytes) /\ LittleEndian(U64(v)) = v
                         /\ U64(v) \in Seq(Nat) /\ U64(v) \in Seq(Byte) /\ Len(U64(v)) = U64Bytes
<1>1. U64Bytes \in Nat \ {0} /\ Power(ByteBase, U64Bytes) \in Nat \ {0}
  BY PowerOfBase
<1>2. U64Max \in Nat
  BY <1>1 DEF U64Max
<1>3. ASSUME NEW v \in 0..U64Max
      PROVE  /\ v \in Nat /\ v < Power(ByteBase, U64Bytes) /\ LittleEndian(U64(v)) = v
             /\ U64(v) \in Seq(Nat) /\ U64(v) \in Seq(Byte) /\ Len(U64(v)) = U64Bytes
  <2>1. v \in Nat /\ v < Power(ByteBase, U64Bytes)
    BY <1>1, <1>2 DEF U64Max
  <2>2. LittleEndian(U64(v)) = v
    BY <1>1, <2>1, BytesFaithful DEF U64
  <2>3. U64(v) \in Seq(Byte) /\ Len(U64(v)) = U64Bytes
    BY <1>1, <2>1, BytesOfType DEF U64
  <2>4. Byte \subseteq Nat
    BY DEF Byte
  <2>5. U64(v) \in Seq(Nat)
    BY <2>3, <2>4, SeqMonotonic
  <2> QED BY <2>1, <2>2, <2>3, <2>5
<1> QED BY <1>1, <1>2, <1>3

-----------------------------------------------------------------------------
(* What is read is what is written there. *)

LEMMA ReadU64Faithful ==
  ASSUME NEW buf \in Seq(Byte), ReadU64(buf) # <<>>
  PROVE  LET r == ReadU64(buf)
         IN r[1] \in 0..U64Max /\ r[2] \in Seq(Byte) /\ U64(r[1]) \o r[2] = buf
<1>1. ~(Len(buf) < U64Bytes)
  BY DEF ReadU64
<1>2. U64Bytes \in Nat /\ Len(buf) \in Nat
  BY U64Type
<1>3. U64Bytes \in 0..Len(buf)
  BY <1>1, <1>2
<1> DEFINE a == SubSeq(buf, 1, U64Bytes)
           b == SubSeq(buf, U64Bytes + 1, Len(buf))
<1>4. a \in Seq(Byte) /\ b \in Seq(Byte) /\ Len(a) = U64Bytes /\ buf = a \o b
  BY <1>3, SplitAt
<1>5. ReadU64(buf) = <<LittleEndian(a), b>>
  BY <1>1 DEF ReadU64
<1> HIDE DEF a, b
<1>6. LittleEndian(a) \in Nat /\ LittleEndian(a) < Power(ByteBase, U64Bytes)
  BY <1>4, EndianRange
<1>7. LittleEndian(a) \in 0..U64Max
  BY <1>6, PowerOfBase DEF U64Max
<1>8. U64(LittleEndian(a)) = a
  BY <1>4, NumberFaithful DEF U64
<1> QED BY <1>4, <1>5, <1>7, <1>8

LEMMA ReadUpToFaithful ==
  ASSUME NEW buf \in Seq(Byte), NEW max \in Nat, ReadUpTo(max, buf) # <<>>
  PROVE  LET r == ReadUpTo(max, buf)
         IN /\ r[1] \in 0..max /\ r[2] \in Seq(Byte) /\ <<r[1]>> \o r[2] = buf
            /\ r[2] = Tail(buf)
<1>1. buf # <<>> /\ ~(buf[1] > max) /\ ReadUpTo(max, buf) = <<buf[1], Tail(buf)>>
  BY DEF ReadUpTo
<1>2. buf[1] \in Byte /\ Tail(buf) \in Seq(Byte) /\ buf = <<buf[1]>> \o Tail(buf)
  <2>1. 1 \in 1..Len(buf) /\ Len(buf) \in 1..Len(buf)
    BY <1>1
  <2>2. SubSeq(buf, 1, Len(buf)) = <<buf[1]>> \o SubSeq(buf, 1 + 1, Len(buf))
    <3> DEFINE one == 1
    <3>1. one \in 1..Len(buf) /\ Len(buf) \in one..Len(buf)
      BY <2>1
    <3> HIDE DEF one
    <3>2. SubSeq(buf, one, Len(buf)) = <<buf[one]>> \o SubSeq(buf, one + 1, Len(buf))
      BY <3>1, SubSeqRecursiveFirst
    <3> QED BY <3>2 DEF one
  <2>3. Tail(buf) = SubSeq(buf, 2, Len(buf)) /\ SubSeq(buf, 1, Len(buf)) = buf
    BY <1>1, TailIsSubSeq, SubSeqFull
  <2> QED BY <1>1, <2>1, <2>2, <2>3
<1>3. buf[1] \in 0..max
  BY <1>1, <1>2, PowerOfBase DEF Byte
<1> QED BY <1>1, <1>2, <1>3

\* An option is one tag byte, and after a 1 the value.
LEMMA OptionFaithful ==
  ASSUME NEW buf \in Seq(Byte), NEW value, ReadOption(ReadUpTo(1, buf), value) # <<>>
  PROVE  LET r == ReadOption(ReadUpTo(1, buf), value)
         IN /\ Tail(buf) \in Seq(Byte)
            /\ \/ r = <<Absent, Tail(buf)>> /\ <<0>> \o Tail(buf) = buf
               \/ r = value /\ <<1>> \o Tail(buf) = buf
<1> DEFINE tag == ReadUpTo(1, buf)
<1>1. tag # <<>>
  BY DEF ReadOption
<1>2. tag[1] \in 0..1 /\ tag[2] = Tail(buf) /\ <<tag[1]>> \o Tail(buf) = buf /\ Tail(buf) \in Seq(Byte)
  <2>1. 1 \in Nat
    OBVIOUS
  <2> QED BY <1>1, <2>1, ReadUpToFaithful
<1> HIDE DEF tag
<1>3. CASE tag[1] = 0
  <2>1. ReadOption(tag, value) = <<Absent, tag[2]>>
    BY <1>1, <1>3 DEF ReadOption
  <2> QED BY <1>2, <1>3, <2>1 DEF tag
<1>4. CASE tag[1] # 0
  <2>1. ReadOption(tag, value) = value
    BY <1>1, <1>4 DEF ReadOption
  <2>2. tag[1] = 1
    BY <1>2, <1>4
  <2> QED BY <1>2, <2>1, <2>2 DEF tag
<1> QED BY <1>3, <1>4

LEMMA OptionBytes ==
  ASSUME NEW x \in Seq(Byte), NEW y \in Seq(Byte), NEW v, v # Absent
  PROVE  Option(x, v) \o y = <<1>> \o (x \o y)
<1> DEFINE one == <<1>>
<1>1. one \in Seq(Byte)
  BY PowerOfBase, ByteAssumption DEF Byte
<1>2. Option(x, v) = one \o x
  BY DEF Option
<1> HIDE DEF one
<1>3. (one \o x) \o y = one \o (x \o y)
  BY <1>1, ConcatAssociative
<1> QED BY <1>2, <1>3 DEF one

LEMMA OptionTypes ==
  \A type \in {"option u64", "option bool"} :
    Absent \in Values(type) /\ Encoded(type, Absent) = <<0>>
<1>1. \A bytes : Option(bytes, Absent) = <<0>>
  BY DEF Option
<1>2. Values("option u64") = 0..U64Max \cup {Absent} /\ Values("option bool") = {0, 1, Absent}
  BY DEF Values
<1>3. /\ Encoded("option u64", Absent) = Option(U64(Absent), Absent)
      /\ Encoded("option bool", Absent) = Option(<<Absent>>, Absent)
  BY DEF Encoded
<1> QED BY <1>1, <1>2, <1>3

LEMMA ReadFaithful ==
  ASSUME NEW type \in Types, NEW buf \in Seq(Byte), ReadType(type, buf) # <<>>
  PROVE  LET r == ReadType(type, buf)
         IN r[1] \in Values(type) /\ r[2] \in Seq(Byte) /\ Encoded(type, r[1]) \o r[2] = buf
<1> DEFINE r == ReadType(type, buf)
<1>1. CASE type = "u64"
  <2>1. r = ReadU64(buf)
    BY <1>1 DEF ReadType
  <2> QED BY <1>1, <2>1, ReadU64Faithful DEF Values, Encoded
<1>2. CASE type = "side"
  <2>1. r = ReadUpTo(2, buf) /\ 2 \in Nat
    BY <1>2 DEF ReadType
  <2> QED BY <1>2, <2>1, ReadUpToFaithful DEF Values, Encoded
<1>3. CASE type = "option u64"
  <2> DEFINE value == ReadU64(Tail(buf))
  <2>1. r = ReadOption(ReadUpTo(1, buf), value)
    BY <1>3 DEF ReadType
  <2>2. /\ Tail(buf) \in Seq(Byte)
        /\ \/ r = <<Absent, Tail(buf)>> /\ <<0>> \o Tail(buf) = buf
           \/ r = value /\ <<1>> \o Tail(buf) = buf
    BY <2>1, OptionFaithful
  <2>3. CASE r = <<Absent, Tail(buf)>> /\ <<0>> \o Tail(buf) = buf
    <3>1. Absent \in Values(type) /\ Encoded(type, Absent) = <<0>>
      BY <1>3, OptionTypes
    <3>2. r[1] = Absent /\ r[2] = Tail(buf)
      BY <2>3
    <3> HIDE DEF r
    <3> QED BY <2>2, <2>3, <3>1, <3>2 DEF r
  <2>4. CASE r = value /\ <<1>> \o Tail(buf) = buf
    <3>1. value # <<>>
      BY <2>4
    <3>2. value[1] \in 0..U64Max /\ value[2] \in Seq(Byte) /\ U64(value[1]) \o value[2] = Tail(buf)
      BY <2>2, <3>1, ReadU64Faithful
    <3>3. value[1] # Absent /\ U64(value[1]) \in Seq(Byte)
      BY <3>2, U64Type DEF Absent
    <3> HIDE DEF value, r
    <3>4. Option(U64(value[1]), value[1]) \o value[2] = buf
      <4>1. Option(U64(value[1]), value[1]) \o value[2] = <<1>> \o (U64(value[1]) \o value[2])
        <5> DEFINE x == U64(value[1])
                   y == value[2]
                   v == value[1]
        <5>1. x \in Seq(Byte) /\ y \in Seq(Byte) /\ v # Absent
          BY <3>2, <3>3
        <5> HIDE DEF x, y, v
        <5>2. Option(x, v) \o y = <<1>> \o (x \o y)
          BY <5>1, OptionBytes
        <5> QED BY <5>2 DEF x, y, v
      <4> QED BY <2>4, <3>2, <4>1
    <3> QED BY <1>3, <2>4, <3>2, <3>4 DEF Values, Encoded, r
  <2> QED BY <2>2, <2>3, <2>4
<1>4. CASE type = "option bool"
  <2> DEFINE value == ReadUpTo(1, Tail(buf))
  <2>1. r = ReadOption(ReadUpTo(1, buf), value)
    BY <1>4 DEF ReadType
  <2>2. /\ Tail(buf) \in Seq(Byte)
        /\ \/ r = <<Absent, Tail(buf)>> /\ <<0>> \o Tail(buf) = buf
           \/ r = value /\ <<1>> \o Tail(buf) = buf
    BY <2>1, OptionFaithful
  <2>3. CASE r = <<Absent, Tail(buf)>> /\ <<0>> \o Tail(buf) = buf
    <3>1. Absent \in Values(type) /\ Encoded(type, Absent) = <<0>>
      BY <1>4, OptionTypes
    <3>2. r[1] = Absent /\ r[2] = Tail(buf)
      BY <2>3
    <3> HIDE DEF r
    <3> QED BY <2>2, <2>3, <3>1, <3>2 DEF r
  <2>4. CASE r = value /\ <<1>> \o Tail(buf) = buf
    <3>1. value # <<>> /\ 1 \in Nat
      BY <2>4
    <3>2. value[1] \in 0..1 /\ value[2] \in Seq(Byte) /\ <<value[1]>> \o value[2] = Tail(buf)
      BY <2>2, <3>1, ReadUpToFaithful
    <3>3. value[1] # Absent /\ <<value[1]>> \in Seq(Byte) /\ value[1] \in {0, 1}
      BY <3>2, ByteAssumption DEF Absent, Byte
    <3> HIDE DEF value, r
    <3> DEFINE x == <<value[1]>>
    <3>4. Option(x, value[1]) \o value[2] = <<1>> \o (x \o value[2])
      <4>1. x \in Seq(Byte)
        BY <3>3
      <4> HIDE DEF x
      <4> QED BY <3>2, <3>3, <4>1, OptionBytes
    <3>5. Option(<<value[1]>>, value[1]) \o value[2] = buf
      BY <2>4, <3>2, <3>4
    <3> QED BY <1>4, <2>4, <3>2, <3>3, <3>5 DEF Values, Encoded, r
  <2> QED BY <2>2, <2>3, <2>4
<1> QED BY <1>1, <1>2, <1>3, <1>4 DEF Types

-----------------------------------------------------------------------------
(* What is written is read. *)

LEMMA First ==
  ASSUME NEW S, NEW v \in S, NEW rest \in Seq(S)
  PROVE  LET s == <<v>> \o rest
         IN s \in Seq(S) /\ s # <<>> /\ s[1] = v /\ Tail(s) = rest
<1> DEFINE e == <<v>>
           s == e \o rest
<1>1. e \in Seq(S) /\ Len(e) = 1 /\ e[1] = v /\ Len(rest) \in Nat
  OBVIOUS
<1> HIDE DEF e
<1>2. s \in Seq(S) /\ Len(s) = 1 + Len(rest) /\ \A j \in 1..(1 + Len(rest)) : s[j] = IF j <= 1 THEN e[j] ELSE rest[j - 1]
  <2>1. /\ s \in Seq(S) /\ Len(s) = Len(e) + Len(rest)
        /\ \A j \in 1..(Len(e) + Len(rest)) : s[j] = IF j <= Len(e) THEN e[j] ELSE rest[j - Len(e)]
    BY <1>1, ConcatProperties, Zenon
  <2> QED BY <1>1, <2>1, Zenon
<1>3. s # <<>> /\ s[1] = v
  BY <1>1, <1>2
<1> HIDE DEF s
<1>4. Tail(s) \in Seq(S) /\ Len(Tail(s)) = Len(rest) /\ \A j \in 1..Len(Tail(s)) : Tail(s)[j] = s[j + 1]
  BY <1>1, <1>2, <1>3, HeadTailProperties
<1>5. \A j \in 1..Len(rest) : s[j + 1] = rest[j]
  BY <1>1, <1>2
<1>6. Tail(s) = rest
  BY <1>4, <1>5, SeqEqual
<1> QED BY <1>2, <1>3, <1>6 DEF s, e

LEMMA ReadUpToComplete ==
  ASSUME NEW max \in Nat, NEW v \in 0..max, NEW rest \in Seq(Nat)
  PROVE  ReadUpTo(max, <<v>> \o rest) = <<v, rest>>
<1> DEFINE s == <<v>> \o rest
<1>1. v \in Nat /\ ~(v > max)
  OBVIOUS
<1>2. s # <<>> /\ s[1] = v /\ Tail(s) = rest
  <2> DEFINE N == Nat
  <2>1. v \in N /\ rest \in Seq(N)
    BY <1>1
  <2> HIDE DEF N
  <2> QED BY <2>1, First
<1> HIDE DEF s
<1>3. ReadUpTo(max, s) = <<v, rest>>
  BY <1>1, <1>2 DEF ReadUpTo
<1> QED BY <1>3 DEF s

\* The two parts of a concatenation.
LEMMA Apart ==
  ASSUME NEW S, NEW x \in Seq(S), NEW y \in Seq(S)
  PROVE  /\ Len(x \o y) = Len(x) + Len(y) /\ x \o y \in Seq(S)
         /\ SubSeq(x \o y, 1, Len(x)) = x
         /\ SubSeq(x \o y, Len(x) + 1, Len(x \o y)) = y
<1> DEFINE s == x \o y
           m == Len(x)
           n == Len(y)
<1>1. s \in Seq(S) /\ Len(s) = m + n /\ m \in Nat /\ n \in Nat
      /\ \A i \in 1..(m + n) : s[i] = IF i <= m THEN x[i] ELSE y[i - m]
  BY ConcatProperties, LenProperties
<1> HIDE DEF s
<1>2. m \in 0..Len(s)
  BY <1>1
<1> DEFINE a == SubSeq(s, 1, m)
           b == SubSeq(s, m + 1, Len(s))
<1>3. a \in Seq(S) /\ b \in Seq(S) /\ Len(a) = m /\ Len(b) = Len(s) - m /\ s = a \o b
  BY <1>1, <1>2, SplitAt
<1> HIDE DEF a, b, m, n
<1>4. \A i \in 1..(m + n) : s[i] = IF i <= m THEN a[i] ELSE b[i - m]
  <2>1. Len(b) = n
    BY <1>1, <1>3
  <2> QED BY <1>3, <2>1, ConcatProperties
<1>5. \A i \in 1..m : a[i] = x[i]
  BY <1>1, <1>4
<1>6. \A i \in 1..n : b[i] = y[i]
  <2> TAKE i \in 1..n
  <2>1. m + i \in 1..(m + n) /\ ~(m + i <= m) /\ (m + i) - m = i
    BY <1>1
  <2>2. s[m + i] = y[(m + i) - m] /\ s[m + i] = b[(m + i) - m]
    BY <1>1, <1>4, <2>1
  <2> QED BY <2>1, <2>2
<1>7. a = x
  BY <1>3, <1>5, SeqEqual DEF m
<1>8. b = y
  <2>1. Len(b) = Len(y)
    BY <1>1, <1>3 DEF n
  <2> QED BY <1>3, <1>6, <2>1, SeqEqual DEF n
<1> QED BY <1>1, <1>7, <1>8 DEF s, a, b, m, n

LEMMA ReadU64Complete ==
  ASSUME NEW v \in 0..U64Max, NEW rest \in Seq(Nat)
  PROVE  ReadU64(U64(v) \o rest) = <<v, rest>>
<1> DEFINE x == U64(v)
           s == x \o rest
           N == Nat
<1>1. x \in Seq(N) /\ Len(x) = U64Bytes /\ LittleEndian(x) = v /\ U64Bytes \in Nat /\ rest \in Seq(N) /\ Len(rest) \in Nat
  BY U64Type
<1> HIDE DEF x, N
<1>2. Len(s) = U64Bytes + Len(rest) /\ SubSeq(s, 1, U64Bytes) = x /\ SubSeq(s, U64Bytes + 1, Len(s)) = rest
  <2>1. /\ Len(s) = Len(x) + Len(rest)
        /\ SubSeq(s, 1, Len(x)) = x
        /\ SubSeq(s, Len(x) + 1, Len(s)) = rest
    <3>1. \A a, b \in Seq(N) :
            /\ Len(a \o b) = Len(a) + Len(b)
            /\ SubSeq(a \o b, 1, Len(a)) = a
            /\ SubSeq(a \o b, Len(a) + 1, Len(a \o b)) = b
      BY Apart
    <3> QED BY <1>1, <3>1, Zenon
  <2> QED BY <1>1, <2>1, Zenon
<1>3. ~(Len(s) < U64Bytes)
  BY <1>1, <1>2
<1> HIDE DEF s
<1>4. ReadU64(s) = <<v, rest>>
  BY <1>1, <1>2, <1>3 DEF ReadU64
<1> QED BY <1>4 DEF s, x

LEMMA Associative ==
  \A x, y, z \in Seq(Nat) : (x \o y) \o z = x \o (y \o z) /\ y \o z \in Seq(Nat)
<1> DEFINE N == Nat
<1> SUFFICES ASSUME NEW x \in Seq(N), NEW y \in Seq(N), NEW z \in Seq(N)
             PROVE  (x \o y) \o z = x \o (y \o z) /\ y \o z \in Seq(N)
  OBVIOUS
<1> HIDE DEF N
<1>1. (x \o y) \o z = x \o (y \o z)
  BY ConcatAssociative
<1>2. y \o z \in Seq(N)
  BY ConcatProperties
<1> QED BY <1>1, <1>2

LEMMA AbsentComplete ==
  ASSUME NEW rest \in Seq(Nat), NEW value
  PROVE  ReadOption(ReadUpTo(1, <<0>> \o rest), value) = <<Absent, rest>>
<1>1. 1 \in Nat /\ 0 \in 0..1
  OBVIOUS
<1>2. ReadUpTo(1, <<0>> \o rest) = <<0, rest>>
  BY <1>1, ReadUpToComplete
<1> QED BY <1>2 DEF ReadOption

LEMMA PresentComplete ==
  ASSUME NEW bytes \in Seq(Nat), NEW rest \in Seq(Nat), NEW v \in Nat, NEW value
  PROVE  /\ Tail(Option(bytes, v) \o rest) = bytes \o rest
         /\ ReadOption(ReadUpTo(1, Option(bytes, v) \o rest), value) = value
<1> DEFINE tail == bytes \o rest
           buf == Option(bytes, v) \o rest
           one == <<1>>
<1>1. one \in Seq(Nat)
  OBVIOUS
<1>2. buf = (one \o bytes) \o rest
  <2>1. v # Absent
    BY DEF Absent
  <2> QED BY <2>1 DEF Option
<1> HIDE DEF one, buf
<1>3. buf = one \o tail /\ tail \in Seq(Nat)
  BY <1>1, <1>2, Associative
<1> HIDE DEF tail
<1>4. 1 \in Nat /\ 1 \in 0..1
  OBVIOUS
<1>5. ReadUpTo(1, one \o tail) = <<1, tail>>
  BY <1>3, <1>4, ReadUpToComplete DEF one
<1>6. Tail(one \o tail) = tail
  BY <1>3, <1>4, First DEF one
<1>7. ReadOption(<<1, tail>>, value) = value
  BY DEF ReadOption
<1>8. Tail(buf) = tail /\ ReadOption(ReadUpTo(1, buf), value) = value
  BY <1>3, <1>5, <1>6, <1>7
<1> QED BY <1>8 DEF tail, buf

LEMMA ZeroByte == <<0>> \in Seq(Nat)
OBVIOUS

LEMMA EncodedType ==
  ASSUME NEW type \in Types, NEW v \in Values(type)
  PROVE  Encoded(type, v) \in Seq(Nat)
<1>1. CASE type = "u64"
  BY <1>1, U64Type DEF Values, Encoded
<1>2. CASE type = "side"
  <2>1. v \in 0..2 /\ Encoded(type, v) = <<v>>
    BY <1>2 DEF Values, Encoded
  <2> QED BY <2>1
<1>3. \A bytes \in Seq(Nat) : \A w : Option(bytes, w) \in Seq(Nat)
  <2>1. \A bytes \in Seq(Nat) : <<0>> \in Seq(Nat) /\ <<1>> \o bytes \in Seq(Nat)
    OBVIOUS
  <2> QED BY <2>1 DEF Option
<1>4. CASE type = "option u64"
  <2>1. v \in 0..U64Max \cup {Absent} /\ Encoded(type, v) = Option(U64(v), v)
    BY <1>4 DEF Values, Encoded
  <2>2. v \in 0..U64Max => Encoded(type, v) \in Seq(Nat)
    BY <1>3, <2>1, U64Type
  <2>3. v = Absent => Encoded(type, v) \in Seq(Nat)
    BY <1>3, <1>4, OptionTypes, ZeroByte
  <2> QED BY <2>1, <2>2, <2>3
<1>5. CASE type = "option bool"
  <2>1. v \in {0, 1, Absent} /\ Encoded(type, v) = Option(<<v>>, v)
    BY <1>5 DEF Values, Encoded
  <2>2. v \in {0, 1} => <<v>> \in Seq(Nat)
    OBVIOUS
  <2>3. v = Absent => Encoded(type, v) \in Seq(Nat)
    BY <1>5, OptionTypes, ZeroByte
  <2> QED BY <1>3, <2>1, <2>2, <2>3
<1> QED BY <1>1, <1>2, <1>4, <1>5 DEF Types

LEMMA ReadComplete ==
  ASSUME NEW type \in Types, NEW v \in Values(type), NEW rest \in Seq(Nat)
  PROVE  ReadType(type, Encoded(type, v) \o rest) = <<v, rest>>
<1> DEFINE buf == Encoded(type, v) \o rest
<1>1. CASE type = "u64"
  <2>1. v \in 0..U64Max /\ buf = U64(v) \o rest
    BY <1>1 DEF Values, Encoded
  <2> HIDE DEF buf
  <2>2. ReadType(type, buf) = ReadU64(buf)
    BY <1>1 DEF ReadType
  <2> QED BY <2>1, <2>2, ReadU64Complete DEF buf
<1>2. CASE type = "side"
  <2>1. v \in 0..2 /\ buf = <<v>> \o rest /\ 2 \in Nat
    BY <1>2 DEF Values, Encoded
  <2> HIDE DEF buf
  <2>2. ReadType(type, buf) = ReadUpTo(2, buf)
    BY <1>2 DEF ReadType
  <2> QED BY <2>1, <2>2, ReadUpToComplete DEF buf
<1>3. CASE type = "option u64"
  <2>1. v \in 0..U64Max \cup {Absent} /\ buf = Option(U64(v), v) \o rest
    BY <1>3 DEF Values, Encoded
  <2> DEFINE value == ReadU64(Tail(buf))
  <2> HIDE DEF buf
  <2>2. ReadType(type, buf) = ReadOption(ReadUpTo(1, buf), value)
    BY <1>3 DEF ReadType
  <2>3. CASE v = Absent
    <3>1. buf = <<0>> \o rest
      BY <2>1, <2>3 DEF Option
    <3> HIDE DEF value
    <3>2. ReadOption(ReadUpTo(1, buf), value) = <<v, rest>>
      BY <2>3, <3>1, AbsentComplete
    <3> QED BY <2>2, <3>2 DEF buf
  <2>4. CASE v # Absent
    <3>1. v \in 0..U64Max /\ v \in Nat /\ U64(v) \in Seq(Nat)
      BY <2>1, <2>4, U64Type
    <3>2. Tail(buf) = U64(v) \o rest /\ ReadOption(ReadUpTo(1, buf), value) = value
      <4> HIDE DEF value
      <4>1. /\ Tail(Option(U64(v), v) \o rest) = U64(v) \o rest
            /\ ReadOption(ReadUpTo(1, Option(U64(v), v) \o rest), value) = value
        <5>1. Tail(Option(U64(v), v) \o rest) = U64(v) \o rest
          BY <3>1, PresentComplete
        <5>2. ReadOption(ReadUpTo(1, Option(U64(v), v) \o rest), value) = value
          BY <3>1, PresentComplete
        <5> QED BY <5>1, <5>2
      <4> QED BY <2>1, <4>1
    <3>3. value = <<v, rest>>
      BY <3>1, <3>2, ReadU64Complete
    <3> QED BY <2>2, <3>2, <3>3 DEF buf
  <2> QED BY <2>3, <2>4
<1>4. CASE type = "option bool"
  <2>1. v \in {0, 1, Absent} /\ buf = Option(<<v>>, v) \o rest
    BY <1>4 DEF Values, Encoded
  <2> DEFINE value == ReadUpTo(1, Tail(buf))
  <2> HIDE DEF buf
  <2>2. ReadType(type, buf) = ReadOption(ReadUpTo(1, buf), value)
    BY <1>4 DEF ReadType
  <2>3. CASE v = Absent
    <3>1. buf = <<0>> \o rest
      BY <2>1, <2>3 DEF Option
    <3> HIDE DEF value
    <3>2. ReadOption(ReadUpTo(1, buf), value) = <<v, rest>>
      BY <2>3, <3>1, AbsentComplete
    <3> QED BY <2>2, <3>2 DEF buf
  <2>4. CASE v # Absent
    <3>1. v \in 0..1 /\ v \in Nat /\ 1 \in Nat /\ <<v>> \in Seq(Nat)
      BY <2>1, <2>4
    <3>2. Tail(buf) = <<v>> \o rest /\ ReadOption(ReadUpTo(1, buf), value) = value
      <4> DEFINE one == <<v>>
      <4> HIDE DEF value, one
      <4>1. one \in Seq(Nat) /\ buf = Option(one, v) \o rest
        BY <2>1, <3>1 DEF one
      <4>2. /\ Tail(Option(one, v) \o rest) = one \o rest
            /\ ReadOption(ReadUpTo(1, Option(one, v) \o rest), value) = value
        <5>1. Tail(Option(one, v) \o rest) = one \o rest
          BY <3>1, <4>1, PresentComplete
        <5>2. ReadOption(ReadUpTo(1, Option(one, v) \o rest), value) = value
          BY <3>1, <4>1, PresentComplete
        <5> QED BY <5>1, <5>2
      <4> QED BY <4>1, <4>2 DEF one
    <3>3. value = <<v, rest>>
      BY <3>1, <3>2, ReadUpToComplete
    <3> QED BY <2>2, <3>2, <3>3 DEF buf
  <2> QED BY <2>3, <2>4
<1> QED BY <1>1, <1>2, <1>3, <1>4 DEF Types

-----------------------------------------------------------------------------
(* The six fields of a request, one after another. *)

Discs == {Increase, Decrease}

NameAt(disc, n) == Fields(disc)[n][1]
TypeAt(disc, n) == Fields(disc)[n][2]

LEMMA FieldTypes ==
  ASSUME NEW disc \in Discs
  PROVE  /\ Len(Fields(disc)) = 6
         /\ \A n \in 1..6 : TypeAt(disc, n) \in Types
         /\ \A m, n \in 1..6 : m # n => NameAt(disc, m) # NameAt(disc, n)
<1>1. CASE disc = Increase
  BY <1>1 DEF Fields, NameAt, TypeAt, Types
<1>2. CASE disc = Decrease
  <2>1. disc # Increase
    BY <1>2 DEF Increase, Decrease
  <2> QED BY <2>1 DEF Fields, NameAt, TypeAt, Types
<1> QED BY <1>1, <1>2 DEF Discs

LEMMA FieldRead ==
  ASSUME NEW sofar, NEW field, field[2] \in Types, sofar # <<>> => sofar[2] \in Seq(Byte),
         ReadField(sofar, field) # <<>>
  PROVE  LET r == ReadField(sofar, field)
         IN /\ sofar # <<>>
            /\ \A f \in DOMAIN sofar[1] : f # field[1] => f \in DOMAIN r[1] /\ r[1][f] = sofar[1][f]
            /\ field[1] \in DOMAIN r[1] /\ r[1][field[1]] \in Values(field[2])
            /\ r[2] \in Seq(Byte)
            /\ Encoded(field[2], r[1][field[1]]) \o r[2] = sofar[2]
<1> DEFINE read == ReadType(field[2], sofar[2])
           a == [f \in DOMAIN sofar[1] \cup {field[1]} |-> IF f = field[1] THEN read[1] ELSE sofar[1][f]]
<1>1. sofar # <<>>
  BY DEF ReadField
<1>2. read # <<>> /\ ReadField(sofar, field) = <<a, read[2]>>
  BY <1>1 DEF ReadField
<1>3. read[1] \in Values(field[2]) /\ read[2] \in Seq(Byte) /\ Encoded(field[2], read[1]) \o read[2] = sofar[2]
  BY <1>1, <1>2, ReadFaithful
<1>4. field[1] \in DOMAIN a /\ a[field[1]] = read[1]
  OBVIOUS
<1>5. \A f \in DOMAIN sofar[1] : f # field[1] => f \in DOMAIN a /\ a[f] = sofar[1][f]
  OBVIOUS
<1> DEFINE r == ReadField(sofar, field)
<1> HIDE DEF a, read
<1>6. r[1] = a /\ r[2] = read[2]
  BY <1>2
<1>7. /\ \A f \in DOMAIN sofar[1] : f # field[1] => f \in DOMAIN r[1] /\ r[1][f] = sofar[1][f]
      /\ field[1] \in DOMAIN r[1] /\ r[1][field[1]] \in Values(field[2])
  BY <1>3, <1>4, <1>5, <1>6, Zenon
<1>8. r[2] \in Seq(Byte) /\ Encoded(field[2], r[1][field[1]]) \o r[2] = sofar[2]
  BY <1>3, <1>4, <1>6, Zenon
<1> QED BY <1>1, <1>7, <1>8, Zenon

LEMMA FieldComplete ==
  ASSUME NEW sofar, NEW field, field[2] \in Types, sofar # <<>>,
         NEW v \in Values(field[2]), NEW rest \in Seq(Nat), sofar[2] = Encoded(field[2], v) \o rest
  PROVE  ReadField(sofar, field) # <<>> /\ ReadField(sofar, field)[2] = rest
<1> DEFINE read == ReadType(field[2], sofar[2])
           a == [f \in DOMAIN sofar[1] \cup {field[1]} |-> IF f = field[1] THEN read[1] ELSE sofar[1][f]]
<1>1. read = <<v, rest>>
  BY ReadComplete
<1>2. ReadField(sofar, field) = <<a, read[2]>>
  BY <1>1 DEF ReadField
<1> HIDE DEF a, read
<1> QED BY <1>1, <1>2

\* What has been read before and after each field.
Unrolled(disc, buf, p) ==
  /\ p[0] = <<[f \in {} |-> 0], buf>>
  /\ \A n \in 1..6 : p[n] = ReadField(p[n - 1], Fields(disc)[n])
  /\ ReadArgs(disc, buf) = p[6]

LEMMA Unrolling ==
  ASSUME NEW disc \in Discs, NEW buf
  PROVE  \E p : Unrolled(disc, buf, p)
<1> DEFINE F == Fields(disc)
           zero == <<[f \in {} |-> 0], buf>>
           Is(g) == g = [n \in 0..Len(F) |-> IF n = 0 THEN zero ELSE ReadField(g[n - 1], F[n])]
           r1 == ReadField(zero, F[1])
           r2 == ReadField(r1, F[2])
           r3 == ReadField(r2, F[3])
           r4 == ReadField(r3, F[4])
           r5 == ReadField(r4, F[5])
           r6 == ReadField(r5, F[6])
           g == [n \in 0..6 |-> IF n = 0 THEN zero ELSE IF n = 1 THEN r1 ELSE IF n = 2 THEN r2
                                ELSE IF n = 3 THEN r3 ELSE IF n = 4 THEN r4
                                ELSE IF n = 5 THEN r5 ELSE r6]
           p == CHOOSE h : Is(h)
<1>1. Len(F) = 6
  BY FieldTypes
<1>2. ReadArgs(disc, buf) = p[Len(F)]
  BY DEF ReadArgs
<1> HIDE DEF F, zero
<1>3. /\ g[0] = zero /\ g[1] = r1 /\ g[2] = r2 /\ g[3] = r3 /\ g[4] = r4 /\ g[5] = r5 /\ g[6] = r6
  <2> HIDE DEF r1, r2, r3, r4, r5, r6
  <2> QED OBVIOUS
<1>4. Is(g)
  <2> DEFINE h == [n \in 0..Len(F) |-> IF n = 0 THEN zero ELSE ReadField(g[n - 1], F[n])]
  <2>1. DOMAIN h = 0..6 /\ DOMAIN g = 0..6
    BY <1>1
  <2> HIDE DEF g
  <2>2. \A n \in 0..6 : h[n] = IF n = 0 THEN zero ELSE ReadField(g[n - 1], F[n])
    BY <1>1
  <2> HIDE DEF h
  <2>3. h[0] = g[0]
    BY <1>3, <2>2
  <2>4. h[1] = g[1] /\ h[2] = g[2]
    BY <1>3, <2>2
  <2>5. h[3] = g[3] /\ h[4] = g[4]
    BY <1>3, <2>2
  <2>6. h[5] = g[5] /\ h[6] = g[6]
    BY <1>3, <2>2
  <2>7. \A n \in 0..6 : h[n] = g[n]
    <3>1. \A n \in 0..6 : n = 0 \/ n = 1 \/ n = 2 \/ n = 3 \/ n = 4 \/ n = 5 \/ n = 6
      OBVIOUS
    <3> QED BY <2>3, <2>4, <2>5, <2>6, <3>1
  <2>8. h = g
    <3>1. h = [n \in DOMAIN h |-> h[n]]
      BY DEF h
    <3>2. g = [n \in DOMAIN g |-> g[n]]
      BY DEF g
    <3> QED BY <2>1, <2>7, <3>1, <3>2
  <2> QED BY <2>8 DEF h
<1> HIDE DEF g
<1>5. Is(p)
  <2>1. \E h : Is(h)
    BY <1>4
  <2> QED BY <2>1
<1> HIDE DEF p
<1>6. p[0] = zero /\ \A n \in 1..6 : p[n] = ReadField(p[n - 1], F[n])
  BY <1>1, <1>5
<1>7. Unrolled(disc, buf, p)
  BY <1>1, <1>2, <1>6 DEF Unrolled, F, zero
<1> QED BY <1>7

\* s is x and then y.
Cat(x, y, s) == x \in Seq(Nat) /\ y \in Seq(Nat) /\ s \in Seq(Nat) /\ x \o y = s

LEMMA Join == \A x, y, rest, tail, s : Cat(y, rest, tail) /\ Cat(x, tail, s) => Cat(x \o y, rest, s)
<1>0. SUFFICES ASSUME NEW x, NEW y, NEW rest, NEW tail, NEW s, Cat(y, rest, tail), Cat(x, tail, s)
               PROVE  Cat(x \o y, rest, s)
  OBVIOUS
<1>1. /\ x \in Seq(Nat) /\ y \in Seq(Nat) /\ rest \in Seq(Nat) /\ s \in Seq(Nat)
      /\ y \o rest = tail /\ x \o tail = s
  BY <1>0 DEF Cat
<1>2. (x \o y) \o rest = x \o (y \o rest) /\ x \o y \in Seq(Nat)
  <2>1. x \in Seq(Nat) /\ y \in Seq(Nat) /\ rest \in Seq(Nat)
    BY <1>1
  <2> QED BY <2>1, Associative
<1>3. (x \o y) \o rest = s
  BY <1>1, <1>2, Zenon
<1> QED BY <1>1, <1>2, <1>3 DEF Cat

LEMMA Joined ==
  ASSUME NEW a, NEW b, NEW c, NEW d, NEW e, NEW f, NEW s1, NEW s2, NEW s3, NEW s4, NEW s5, NEW r, NEW s,
         Cat(f, r, s5), Cat(e, s5, s4), Cat(d, s4, s3), Cat(c, s3, s2), Cat(b, s2, s1), Cat(a, s1, s)
  PROVE  Cat(a \o b \o c \o d \o e \o f, r, s)
<1>1. Cat(a \o b, s2, s)
  BY Join
<1>2. Cat(a \o b \o c, s3, s)
  BY <1>1, Join
<1>3. Cat(a \o b \o c \o d, s4, s)
  BY <1>2, Join
<1>4. Cat(a \o b \o c \o d \o e, s5, s)
  BY <1>3, Join
<1> QED BY <1>4, Join

\* The bytes of a field of a.
Part(disc, a, n) == Encoded(TypeAt(disc, n), a[NameAt(disc, n)])

LEMMA BorshParts ==
  ASSUME NEW disc \in Discs, NEW a
  PROVE  Borsh(disc, a) =
           Part(disc, a, 1) \o Part(disc, a, 2) \o Part(disc, a, 3) \o
           Part(disc, a, 4) \o Part(disc, a, 5) \o Part(disc, a, 6)
<1>1. CASE disc = Increase
  <2>1. /\ Part(disc, a, 1) = U64(a.size) /\ Part(disc, a, 2) = U64(a.collateral)
        /\ Part(disc, a, 3) = <<a.side>> /\ Part(disc, a, 4) = U64(a.slippage)
        /\ Part(disc, a, 5) = Option(U64(a.minimum_out), a.minimum_out)
        /\ Part(disc, a, 6) = U64(a.counter)
    BY <1>1 DEF Part, Encoded, TypeAt, NameAt, Fields
  <2> QED BY <1>1, <2>1 DEF Borsh
<1>2. CASE disc = Decrease
  <2>0. disc # Increase
    BY <1>2 DEF Increase, Decrease
  <2>1. /\ Part(disc, a, 1) = U64(a.collateral) /\ Part(disc, a, 2) = U64(a.size)
        /\ Part(disc, a, 3) = U64(a.slippage)
        /\ Part(disc, a, 4) = Option(U64(a.minimum_out), a.minimum_out)
        /\ Part(disc, a, 5) = Option(<<a.entire>>, a.entire)
        /\ Part(disc, a, 6) = U64(a.counter)
    BY <2>0 DEF Part, Encoded, TypeAt, NameAt, Fields
  <2> QED BY <2>0, <2>1 DEF Borsh
<1> QED BY <1>1, <1>2 DEF Discs

LEMMA BorshBytes ==
  ASSUME NEW disc \in Discs, NEW a,
         \A n \in 1..6 : a[NameAt(disc, n)] \in Values(TypeAt(disc, n))
  PROVE  Borsh(disc, a) \in Seq(Nat)
<1> DEFINE y1 == Part(disc, a, 1)
           y2 == Part(disc, a, 2)
           y3 == Part(disc, a, 3)
           y4 == Part(disc, a, 4)
           y5 == Part(disc, a, 5)
           y6 == Part(disc, a, 6)
<1>1. \A n \in 1..6 : Part(disc, a, n) \in Seq(Nat)
  BY FieldTypes, EncodedType DEF Part
<1>2. /\ y1 \in Seq(Nat) /\ y2 \in Seq(Nat) /\ y3 \in Seq(Nat)
      /\ y4 \in Seq(Nat) /\ y5 \in Seq(Nat) /\ y6 \in Seq(Nat)
  BY <1>1
<1>3. Borsh(disc, a) = y1 \o y2 \o y3 \o y4 \o y5 \o y6
  BY BorshParts
<1> HIDE DEF y1, y2, y3, y4, y5, y6
<1>4. \A x, y : x \in Seq(Nat) /\ y \in Seq(Nat) => x \o y \in Seq(Nat)
  BY Associative
<1>5. y1 \o y2 \in Seq(Nat)
  BY <1>2, <1>4
<1>6. y1 \o y2 \o y3 \in Seq(Nat)
  BY <1>2, <1>4, <1>5
<1>7. y1 \o y2 \o y3 \o y4 \in Seq(Nat)
  BY <1>2, <1>4, <1>6
<1>8. y1 \o y2 \o y3 \o y4 \o y5 \in Seq(Nat)
  BY <1>2, <1>4, <1>7
<1> QED BY <1>2, <1>3, <1>4, <1>8

LEMMA ByteSeqs == \A s \in Seq(Byte) : s \in Seq(Nat)
<1>1. Byte \subseteq Nat
  BY DEF Byte
<1> QED BY <1>1, SeqMonotonic

LEMMA ArgsFaithful ==
  ASSUME NEW disc \in Discs, NEW buf \in Seq(Byte), ReadArgs(disc, buf) # <<>>
  PROVE  LET r == ReadArgs(disc, buf)
         IN r[2] \in Seq(Byte) /\ Borsh(disc, r[1]) \in Seq(Nat) /\ Borsh(disc, r[1]) \o r[2] = buf
<1>1. PICK p : Unrolled(disc, buf, p)
  BY Unrolling
<1> DEFINE F == Fields(disc)
           Done(n) == /\ p[n] # <<>> /\ p[n][2] \in Seq(Byte)
                      /\ \A m \in 1..n : NameAt(disc, m) \in DOMAIN p[n][1]
           Piece(n) == Encoded(TypeAt(disc, n), p[n][1][NameAt(disc, n)])
<1>2. /\ p[0] = <<[f \in {} |-> 0], buf>> /\ ReadArgs(disc, buf) = p[6]
      /\ \A n \in 1..6 : p[n] = ReadField(p[n - 1], F[n])
  BY <1>1 DEF Unrolled
<1>3. p[6] # <<>>
  BY <1>2
<1>4. \A n \in 1..6 : p[n] # <<>> => p[n - 1] # <<>>
  BY <1>2 DEF ReadField
<1>5. p[5] # <<>> /\ p[4] # <<>> /\ p[3] # <<>> /\ p[2] # <<>> /\ p[1] # <<>>
  BY <1>3, <1>4
<1>6. Done(0)
  BY <1>2
<1>7. ASSUME NEW n \in 1..6, p[n] # <<>>, Done(n - 1)
      PROVE  /\ Done(n) /\ Cat(Piece(n), p[n][2], p[n - 1][2])
             /\ \A m \in 1..(n - 1) : p[n][1][NameAt(disc, m)] = p[n - 1][1][NameAt(disc, m)]
  <2> DEFINE q == p[n - 1]
             field == F[n]
  <2>1. p[n] = ReadField(q, field) /\ p[n] # <<>>
    BY <1>2, <1>7
  <2>2. q # <<>> /\ q[2] \in Seq(Byte) /\ \A m \in 1..(n - 1) : NameAt(disc, m) \in DOMAIN q[1]
    BY <1>7
  <2>3. /\ field[1] = NameAt(disc, n) /\ field[2] = TypeAt(disc, n) /\ field[2] \in Types
        /\ \A m \in 1..(n - 1) : NameAt(disc, m) # field[1]
    <3>1. \A m \in 1..(n - 1) : m \in 1..6 /\ m # n
      OBVIOUS
    <3>2. /\ TypeAt(disc, n) \in Types
          /\ \A m \in 1..6 : m # n => NameAt(disc, m) # NameAt(disc, n)
      BY FieldTypes
    <3> QED BY <3>1, <3>2 DEF NameAt, TypeAt
  <2> HIDE DEF q, field
  <2>4. /\ \A f \in DOMAIN q[1] : f # field[1] => f \in DOMAIN p[n][1] /\ p[n][1][f] = q[1][f]
        /\ field[1] \in DOMAIN p[n][1] /\ p[n][1][field[1]] \in Values(field[2])
        /\ p[n][2] \in Seq(Byte)
        /\ Encoded(field[2], p[n][1][field[1]]) \o p[n][2] = q[2]
    <3> DEFINE r == ReadField(q, field)
    <3>1. r # <<>> /\ r = p[n]
      BY <2>1
    <3>2. /\ \A f \in DOMAIN q[1] : f # field[1] => f \in DOMAIN r[1] /\ r[1][f] = q[1][f]
          /\ field[1] \in DOMAIN r[1] /\ r[1][field[1]] \in Values(field[2])
          /\ r[2] \in Seq(Byte)
          /\ Encoded(field[2], r[1][field[1]]) \o r[2] = q[2]
      BY <2>2, <2>3, <3>1, FieldRead
    <3> HIDE DEF r
    <3> QED BY <3>1, <3>2
  <2>5. p[n][1][NameAt(disc, n)] \in Values(TypeAt(disc, n)) /\ Piece(n) \o p[n][2] = p[n - 1][2]
    BY <2>3, <2>4 DEF q
  <2>6. Piece(n) \in Seq(Nat)
    BY <2>3, <2>5, EncodedType
  <2>7. \A m \in 1..(n - 1) : /\ NameAt(disc, m) \in DOMAIN p[n][1]
                             /\ p[n][1][NameAt(disc, m)] = p[n - 1][1][NameAt(disc, m)]
    BY <2>2, <2>3, <2>4 DEF q
  <2>8. NameAt(disc, n) \in DOMAIN p[n][1]
    BY <2>3, <2>4
  <2>9. Done(n)
    <3>1. \A m \in 1..n : m = n \/ m \in 1..(n - 1)
      OBVIOUS
    <3> QED BY <2>1, <2>4, <2>7, <2>8, <3>1
  <2>10. Cat(Piece(n), p[n][2], p[n - 1][2])
    BY <2>2, <2>4, <2>5, <2>6, ByteSeqs DEF Cat, q
  <2> QED BY <2>7, <2>9, <2>10
<1> HIDE DEF Done, Piece, F
<1> DEFINE Same(n) == \A m \in 1..(n - 1) : p[n][1][NameAt(disc, m)] = p[n - 1][1][NameAt(disc, m)]
           Step(n) == Done(n) /\ Cat(Piece(n), p[n][2], p[n - 1][2]) /\ Same(n)
<1>8. Step(1)
  <2>1. 1 \in 1..6 /\ 1 - 1 = 0
    OBVIOUS
  <2> QED BY <1>5, <1>6, <1>7, <2>1
<1>9. Step(2)
  <2>1. 2 \in 1..6 /\ 2 - 1 = 1
    OBVIOUS
  <2> QED BY <1>5, <1>8, <1>7, <2>1
<1>10. Step(3)
  <2>1. 3 \in 1..6 /\ 3 - 1 = 2
    OBVIOUS
  <2> QED BY <1>5, <1>9, <1>7, <2>1
<1>11. Step(4)
  <2>1. 4 \in 1..6 /\ 4 - 1 = 3
    OBVIOUS
  <2> QED BY <1>5, <1>10, <1>7, <2>1
<1>12. Step(5)
  <2>1. 5 \in 1..6 /\ 5 - 1 = 4
    OBVIOUS
  <2> QED BY <1>5, <1>11, <1>7, <2>1
<1>13. Step(6)
  <2>1. 6 \in 1..6 /\ 6 - 1 = 5
    OBVIOUS
  <2> QED BY <1>3, <1>12, <1>7, <2>1
<1> DEFINE a == p[6][1]
<1>14. /\ Piece(1) = Part(disc, a, 1) /\ Piece(2) = Part(disc, a, 2) /\ Piece(3) = Part(disc, a, 3)
       /\ Piece(4) = Part(disc, a, 4) /\ Piece(5) = Part(disc, a, 5) /\ Piece(6) = Part(disc, a, 6)
  <2>1. /\ p[2][1][NameAt(disc, 1)] = p[1][1][NameAt(disc, 1)]
        /\ \A m \in 1..2 : p[3][1][NameAt(disc, m)] = p[2][1][NameAt(disc, m)]
        /\ \A m \in 1..3 : p[4][1][NameAt(disc, m)] = p[3][1][NameAt(disc, m)]
        /\ \A m \in 1..4 : p[5][1][NameAt(disc, m)] = p[4][1][NameAt(disc, m)]
        /\ \A m \in 1..5 : p[6][1][NameAt(disc, m)] = p[5][1][NameAt(disc, m)]
    BY <1>9, <1>10, <1>11, <1>12, <1>13
  <2>2. \A m \in 1..6 : p[m][1][NameAt(disc, m)] = a[NameAt(disc, m)]
    <3>1. \A m \in 1..6 : m = 1 \/ m = 2 \/ m = 3 \/ m = 4 \/ m = 5 \/ m = 6
      OBVIOUS
    <3>2. p[1][1][NameAt(disc, 1)] = a[NameAt(disc, 1)] /\ p[2][1][NameAt(disc, 2)] = a[NameAt(disc, 2)]
      BY <2>1
    <3>3. p[3][1][NameAt(disc, 3)] = a[NameAt(disc, 3)] /\ p[4][1][NameAt(disc, 4)] = a[NameAt(disc, 4)]
      BY <2>1
    <3>4. p[5][1][NameAt(disc, 5)] = a[NameAt(disc, 5)] /\ p[6][1][NameAt(disc, 6)] = a[NameAt(disc, 6)]
      BY <2>1
    <3> QED BY <3>1, <3>2, <3>3, <3>4
  <2> HIDE DEF a
  <2> QED BY <2>2 DEF Piece, Part
<1>15. p[6][2] \in Seq(Byte) /\ p[6][2] \in Seq(Nat) /\ p[0][2] = buf
  <2>1. p[6][2] \in Seq(Byte)
    BY <1>13 DEF Done
  <2> QED BY <1>2, <2>1, ByteSeqs
<1>17. Cat(Piece(1) \o Piece(2) \o Piece(3) \o Piece(4) \o Piece(5) \o Piece(6), p[6][2], p[0][2])
  <2>1. Cat(Piece(1), p[1][2], p[0][2])
    BY <1>8
  <2>2. Cat(Piece(2), p[2][2], p[1][2])
    BY <1>9
  <2>3. Cat(Piece(3), p[3][2], p[2][2])
    BY <1>10
  <2>4. Cat(Piece(4), p[4][2], p[3][2])
    BY <1>11
  <2>5. Cat(Piece(5), p[5][2], p[4][2])
    BY <1>12
  <2>6. Cat(Piece(6), p[6][2], p[5][2])
    BY <1>13
  <2> QED BY <2>1, <2>2, <2>3, <2>4, <2>5, <2>6, Joined
<1>18. Borsh(disc, a) = Piece(1) \o Piece(2) \o Piece(3) \o Piece(4) \o Piece(5) \o Piece(6)
  BY <1>14, BorshParts
<1> QED BY <1>2, <1>15, <1>17, <1>18 DEF Cat

LEMMA ArgsComplete ==
  ASSUME NEW disc \in Discs, NEW a, NEW rest, NEW buf, Cat(Borsh(disc, a), rest, buf), rest \in Seq(Byte),
         \A n \in 1..6 : a[NameAt(disc, n)] \in Values(TypeAt(disc, n))
  PROVE  ReadArgs(disc, buf) # <<>>
<1>1. PICK p : Unrolled(disc, buf, p)
  BY Unrolling
<1> DEFINE F == Fields(disc)
           s5 == Part(disc, a, 6) \o rest
           s4 == Part(disc, a, 5) \o s5
           s3 == Part(disc, a, 4) \o s4
           s2 == Part(disc, a, 3) \o s3
           s1 == Part(disc, a, 2) \o s2
           s0 == Part(disc, a, 1) \o s1
<1>2. /\ p[0] = <<[f \in {} |-> 0], buf>> /\ ReadArgs(disc, buf) = p[6]
      /\ \A n \in 1..6 : p[n] = ReadField(p[n - 1], F[n])
  BY <1>1 DEF Unrolled
<1>3. \A n \in 1..6 : TypeAt(disc, n) \in Types /\ Part(disc, a, n) \in Seq(Nat)
  BY FieldTypes, EncodedType DEF Part
<1>4. \A x, y : x \in Seq(Nat) /\ y \in Seq(Nat) => Cat(x, y, x \o y)
  BY Associative DEF Cat
<1>5. Cat(Part(disc, a, 6), rest, s5)
  <2>1. rest \in Seq(Nat)
    BY ByteSeqs
  <2> QED BY <1>3, <1>4, <2>1
<1> HIDE DEF s5
<1>6. Cat(Part(disc, a, 5), s5, s4)
  <2>1. s5 \in Seq(Nat)
    BY <1>5 DEF Cat
  <2> QED BY <1>3, <1>4, <2>1
<1> HIDE DEF s4
<1>7. Cat(Part(disc, a, 4), s4, s3)
  <2>1. s4 \in Seq(Nat)
    BY <1>6 DEF Cat
  <2> QED BY <1>3, <1>4, <2>1
<1> HIDE DEF s3
<1>8. Cat(Part(disc, a, 3), s3, s2)
  <2>1. s3 \in Seq(Nat)
    BY <1>7 DEF Cat
  <2> QED BY <1>3, <1>4, <2>1
<1> HIDE DEF s2
<1>9. Cat(Part(disc, a, 2), s2, s1)
  <2>1. s2 \in Seq(Nat)
    BY <1>8 DEF Cat
  <2> QED BY <1>3, <1>4, <2>1
<1> HIDE DEF s1
<1>10. Cat(Part(disc, a, 1), s1, s0)
  <2>1. s1 \in Seq(Nat)
    BY <1>9 DEF Cat
  <2> QED BY <1>3, <1>4, <2>1
<1> HIDE DEF s0
<1>11. s0 = buf
  <2>1. Cat(Borsh(disc, a), rest, s0)
    <3>1. Cat(Part(disc, a, 1) \o Part(disc, a, 2) \o Part(disc, a, 3) \o
              Part(disc, a, 4) \o Part(disc, a, 5) \o Part(disc, a, 6), rest, s0)
      BY <1>5, <1>6, <1>7, <1>8, <1>9, <1>10, Joined
    <3> QED BY <3>1, BorshParts
  <2> QED BY <2>1 DEF Cat
<1>12. ASSUME NEW n \in 1..6, NEW tail, NEW s, Cat(Part(disc, a, n), tail, s),
              p[n - 1] # <<>>, p[n - 1][2] = s
       PROVE  p[n] # <<>> /\ p[n][2] = tail
  <2> DEFINE q == p[n - 1]
             field == F[n]
             v == a[NameAt(disc, n)]
  <2>1. /\ field[2] \in Types /\ v \in Values(field[2]) /\ Encoded(field[2], v) = Part(disc, a, n)
        /\ p[n] = ReadField(q, field)
    BY <1>2, <1>3 DEF Part, NameAt, TypeAt
  <2>2. tail \in Seq(Nat) /\ q # <<>> /\ q[2] = Part(disc, a, n) \o tail
    BY <1>12 DEF Cat
  <2> HIDE DEF q, field, v
  <2>3. q[2] = Encoded(field[2], v) \o tail
    BY <2>1, <2>2
  <2>4. ReadField(q, field) # <<>> /\ ReadField(q, field)[2] = tail
    BY <2>1, <2>2, <2>3, FieldComplete
  <2> QED BY <2>1, <2>4
<1> HIDE DEF F
<1>13. p[1] # <<>> /\ p[1][2] = s1
  <2>1. p[0] # <<>> /\ p[0][2] = s0
    BY <1>2, <1>11
  <2>2. 1 \in 1..6 /\ 1 - 1 = 0
    OBVIOUS
  <2> QED BY <1>10, <1>12, <2>1, <2>2
<1>14. p[2] # <<>> /\ p[2][2] = s2
  <2>1. 2 \in 1..6 /\ 2 - 1 = 1
    OBVIOUS
  <2> QED BY <1>9, <1>12, <1>13, <2>1
<1>15. p[3] # <<>> /\ p[3][2] = s3
  <2>1. 3 \in 1..6 /\ 3 - 1 = 2
    OBVIOUS
  <2> QED BY <1>8, <1>12, <1>14, <2>1
<1>16. p[4] # <<>> /\ p[4][2] = s4
  <2>1. 4 \in 1..6 /\ 4 - 1 = 3
    OBVIOUS
  <2> QED BY <1>7, <1>12, <1>15, <2>1
<1>17. p[5] # <<>> /\ p[5][2] = s5
  <2>1. 5 \in 1..6 /\ 5 - 1 = 4
    OBVIOUS
  <2> QED BY <1>6, <1>12, <1>16, <2>1
<1>18. p[6] # <<>>
  <2>1. 6 \in 1..6 /\ 6 - 1 = 5
    OBVIOUS
  <2> QED BY <1>5, <1>12, <1>17, <2>1
<1> QED BY <1>2, <1>18

-----------------------------------------------------------------------------
(* Which bytes, which key, which instruction and which slot. *)

LEMMA PrefixOf ==
  ASSUME NEW x, NEW y, NEW s, Cat(x, y, s)
  PROVE  IsPrefix(x, s)
<1>1. x \in Seq(Nat) /\ y \in Seq(Nat) /\ x \o y = s
  BY DEF Cat
<1>2. Len(x \o y) = Len(x) + Len(y) /\ SubSeq(x \o y, 1, Len(x)) = x
  BY <1>1, Apart
<1>3. Len(x) \in Nat /\ Len(y) \in Nat /\ Len(s) = Len(x) + Len(y) /\ SubSeq(s, 1, Len(x)) = x
  BY <1>1, <1>2, LenProperties
<1>4. SubSeq(x, 1, Len(x)) = x
  BY <1>1, SubSeqFull
<1>5. Len(x) <= Len(s)
  BY <1>3
<1> QED BY <1>3, <1>4, <1>5 DEF IsPrefix

LEMMA PrefixRest ==
  ASSUME NEW x \in Seq(Nat), NEW s \in Seq(Byte), IsPrefix(x, s)
  PROVE  \E rest \in Seq(Byte) : Cat(x, rest, s)
<1>1. Len(x) <= Len(s) /\ SubSeq(x, 1, Len(x)) = SubSeq(s, 1, Len(x))
  BY DEF IsPrefix
<1>2. SubSeq(x, 1, Len(x)) = x
  BY SubSeqFull
<1>3. Len(x) \in 0..Len(s)
  BY <1>1, LenProperties
<1> DEFINE rest == SubSeq(s, Len(x) + 1, Len(s))
<1>4. rest \in Seq(Byte) /\ s = SubSeq(s, 1, Len(x)) \o rest
  BY <1>3, SplitAt
<1> HIDE DEF rest
<1>5. x \o rest = s /\ rest \in Seq(Nat) /\ s \in Seq(Nat)
  BY <1>1, <1>2, <1>4, ByteSeqs
<1> QED BY <1>4, <1>5 DEF Cat

LEMMA ArgsRead ==
  ASSUME NEW disc \in Discs, NEW buf \in Seq(Byte), ReadArgs(disc, buf) # <<>>
  PROVE  LET r == ReadArgs(disc, buf)
         IN IsPrefix(Borsh(disc, r[1]), buf) /\ Borsh(disc, r[1]) \o r[2] = buf
<1> DEFINE r == ReadArgs(disc, buf)
<1>1. r[2] \in Seq(Byte) /\ Borsh(disc, r[1]) \in Seq(Nat) /\ Borsh(disc, r[1]) \o r[2] = buf
  BY ArgsFaithful
<1> HIDE DEF r
<1>2. Cat(Borsh(disc, r[1]), r[2], buf)
  BY <1>1, ByteSeqs DEF Cat
<1>3. IsPrefix(Borsh(disc, r[1]), buf)
  BY <1>2, PrefixOf
<1> QED BY <1>1, <1>3 DEF r

\* A static key is the same key when the transaction runs.
LEMMA StaticKey ==
  ASSUME NEW tx, NEW K, NEW L, tx.keys \in Seq(K), tx.loaded \in Seq(L), NEW i, i \in DOMAIN tx.keys
  PROVE  RunKey(tx, i) = KeyAt(tx, i)
<1> DEFINE S == K \cup L
           x == tx.keys
           y == tx.loaded
<1>1. x \in Seq(S) /\ y \in Seq(S)
  BY SeqMonotonic
<1>2. i \in 1..Len(x) /\ Len(x) \in Nat /\ Len(y) \in Nat
  BY LenProperties
<1>3. KeyAt(tx, i) = x[i]
  BY DEF KeyAt
<1> HIDE DEF S, x, y
<1>4. /\ x \o y \in Seq(S) /\ Len(x \o y) = Len(x) + Len(y)
      /\ \A j \in 1..(Len(x) + Len(y)) : (x \o y)[j] = IF j <= Len(x) THEN x[j] ELSE y[j - Len(x)]
  BY <1>1, ConcatProperties
<1>5. i \in 1..(Len(x) + Len(y)) /\ i <= Len(x)
  BY <1>2
<1>6. DOMAIN (x \o y) = 1..(Len(x) + Len(y)) /\ (x \o y)[i] = x[i]
  BY <1>4, <1>5
<1> DEFINE all == x \o y
<1>7. RunKey(tx, i) = IF i \in DOMAIN all THEN all[i] ELSE DefaultKey
  BY DEF RunKey, x, y
<1> HIDE DEF all
<1>8. i \in DOMAIN all /\ all[i] = x[i]
  BY <1>5, <1>6 DEF all
<1> QED BY <1>3, <1>7, <1>8

LEMMA TradesRun ==
  ASSUME NEW tx, NEW K, NEW L, tx.keys \in Seq(K), tx.loaded \in Seq(L)
  PROVE  RunTrades(tx) = TradeIxs(tx)
<1>1. \A i : i \in DOMAIN tx.keys => RunKey(tx, i) = KeyAt(tx, i)
  BY StaticKey
<1>2. \A i : i \notin DOMAIN tx.keys => KeyAt(tx, i) # PerpsProgram
  BY PerpsAssumption DEF KeyAt
<1> QED BY <1>1, <1>2 DEF RunTrades, TradeIxs, PerpsIxs

LEMMA SlotFirst ==
  ASSUME NEW tx, NEW K, tx.keys \in Seq(K), tx.slots \in Nat, NEW delegate, SlotOf(tx, delegate) # 0
  PROVE  SlotOf(tx, delegate) \in 1..tx.slots /\ tx.keys[SlotOf(tx, delegate)] = delegate
<1> DEFINE I == {i \in 1..Len(tx.keys) : tx.keys[i] = delegate}
           m == IF I # {} THEN Min(I) ELSE 0
<1>1. SlotOf(tx, delegate) = IF m <= tx.slots THEN m ELSE 0
  BY DEF SlotOf, SelectInSeq
<1>2. I # {} => Min(I) \in I
  <2> SUFFICES ASSUME I # {} PROVE Min(I) \in I
    OBVIOUS
  <2>1. I \in SUBSET Nat
    OBVIOUS
  <2> HIDE DEF I
  <2>2. \E y \in I : \A z \in I : y <= z
    BY <2>1, LeastElement
  <2> QED BY <2>2 DEF Min
<1> HIDE DEF m
<1>3. m # 0 /\ m <= tx.slots /\ SlotOf(tx, delegate) = m
  BY <1>1
<1>4. m \in I
  BY <1>2, <1>3 DEF m
<1>5. m \in 1..tx.slots /\ tx.keys[m] = delegate
  BY <1>3, <1>4, LenProperties
<1> QED BY <1>3, <1>5

\* The one trade of a transaction that has one.
LEMMA TradeIs ==
  ASSUME NEW tx, OneTrade(tx), DOMAIN tx.ixs \subseteq Int
  PROVE  \E i \in DOMAIN tx.ixs :
           /\ TradeIxs(tx) = {i} /\ Trade(tx) = tx.ixs[i]
           /\ Matches(tx.ixs[i]) /\ ~Malformed(tx.ixs[i])
<1>1. PICK i \in TradeIxs(tx) : TRUE
  BY DEF OneTrade
<1>2. TradeIxs(tx) = {i}
  BY <1>1 DEF OneTrade
<1>3. i \in PerpsIxs(tx) /\ i \in DOMAIN tx.ixs /\ i \in Int /\ Matches(tx.ixs[i])
  BY <1>1 DEF TradeIxs, PerpsIxs
<1>4. Max({i}) = i
  <2>1. \E x \in {i} : \A y \in {i} : x >= y
    BY <1>3
  <2> QED BY <2>1 DEF Max
<1>5. Trade(tx) = tx.ixs[i] /\ ~Malformed(tx.ixs[i])
  BY <1>2, <1>3, <1>4 DEF Trade, OneTrade
<1> QED BY <1>2, <1>3, <1>5

-----------------------------------------------------------------------------
(* Keys. *)

UserSalt == "polylayer-user-evm-hkdf-v1"

LEMMA UserKeyForm ==
  ASSUME NEW user
  PROVE  UserKey(user) = NoKey \/ \E a \in 0..MaxAttempt : UserKey(user) = Hkdf(UserSalt, Info(user, a))
<1> DEFINE good == {a \in 0..MaxAttempt : Info(user, a) \notin BadScalars}
           least == CHOOSE a \in good : \A b \in good : a <= b
<1>1. UserKey(user) = IF good = {} THEN NoKey ELSE Hkdf(UserSalt, Info(user, least))
  BY DEF UserKey, UserSalt
<1>2. good \in SUBSET Nat /\ good \subseteq 0..MaxAttempt
  BY DomainsAssumption
<1> HIDE DEF good
<1>3. good # {} => least \in good
  <2>1. good # {} => \E a \in good : \A b \in good : a <= b
    BY <1>2, LeastElement
  <2> QED BY <2>1
<1> HIDE DEF least
<1> QED BY <1>1, <1>2, <1>3

LEMMA InfoInjective ==
  ASSUME NEW u \in SolanaKey, NEW v \in SolanaKey, NEW a \in Nat, NEW b \in Nat, Info(u, a) = Info(v, b)
  PROVE  u = v
<1>1. u \in Seq(Byte) /\ v \in Seq(Byte) /\ Len(u) = KeyBytes /\ Len(v) = KeyBytes /\ KeyBytes \in Nat
  BY DomainsAssumption DEF SolanaKey
<1> DEFINE S == Byte \cup Nat
<1>2. u \in Seq(S) /\ v \in Seq(S) /\ a \in S /\ b \in S
  BY <1>1, SeqMonotonic
<1> HIDE DEF S
<1>3. \A x \in Seq(S), c \in S : /\ Len(Append(x, c)) = Len(x) + 1
                                /\ \A i \in 1..Len(x) : Append(x, c)[i] = x[i]
  OBVIOUS
<1>4. CASE a = 0 /\ b = 0
  BY <1>4 DEF Info
<1>5. CASE a # 0 /\ b # 0
  <2>1. Append(u, a) = Append(v, b)
    BY <1>5 DEF Info
  <2>2. \A i \in 1..KeyBytes : u[i] = v[i]
    BY <1>1, <1>2, <1>3, <2>1
  <2> QED BY <1>1, <2>2, SeqEqual
<1>6. CASE a = 0 /\ b # 0
  <2>1. u = Append(v, b)
    BY <1>6 DEF Info
  <2> QED BY <1>1, <1>2, <1>3, <2>1
<1>7. CASE a # 0 /\ b = 0
  <2>1. Append(u, a) = v
    BY <1>7 DEF Info
  <2> QED BY <1>1, <1>2, <1>3, <2>1
<1> QED BY <1>4, <1>5, <1>6, <1>7

LEMMA HkdfApart == \A s, t, x, y : Hkdf(s, x) = Hkdf(t, y) => s = t /\ x = y
BY DEF Hkdf

LEMMA UserKeyInjective ==
  ASSUME NEW u \in SolanaKey, NEW v \in SolanaKey, UserKey(u) # NoKey, UserKey(u) = UserKey(v)
  PROVE  u = v
<1>1. PICK a \in 0..MaxAttempt : UserKey(u) = Hkdf(UserSalt, Info(u, a))
  BY UserKeyForm
<1>2. PICK b \in 0..MaxAttempt : UserKey(v) = Hkdf(UserSalt, Info(v, b))
  BY UserKeyForm
<1>3. Info(u, a) = Info(v, b)
  <2>1. Hkdf(UserSalt, Info(u, a)) = Hkdf(UserSalt, Info(v, b))
    BY <1>1, <1>2
  <2> QED BY <2>1, HkdfApart, Zenon
<1>4. a \in Nat /\ b \in Nat
  OBVIOUS
<1> QED BY <1>3, <1>4, InfoInjective

Purposes == {"evm", "jupiter", "session", "dek", "attestor"}

SaltOf(purpose) ==
  CASE purpose = "evm" -> UserSalt
    [] purpose = "jupiter" -> "polylayer-jupiter-delegate-v1"
    [] purpose = "session" -> "polylayer-session-delegate-v1"
    [] purpose = "dek" -> "polylayer-sessions-dek-v1"
    [] purpose = "attestor" -> "none"

LEMMA SaltsApart ==
  \A p, q \in Purposes : SaltOf(p) = SaltOf(q) => p = q
BY DEF Purposes, SaltOf, UserSalt

\* Every key says its purpose.
LEMMA KeyOfPurpose ==
  ASSUME NEW purpose \in Purposes, NEW user, KeyFor(purpose, user) # NoKey
  PROVE  /\ purpose # "attestor" => \E info : KeyFor(purpose, user) = Hkdf(SaltOf(purpose), info)
         /\ purpose = "attestor" => KeyFor(purpose, user)[1] = "hmac"
<1>1. CASE purpose = "evm"
  <2>1. KeyFor(purpose, user) = UserKey(user) /\ SaltOf(purpose) = UserSalt
    BY <1>1 DEF KeyFor, SaltOf
  <2> QED BY <1>1, <2>1, UserKeyForm
<1>2. CASE purpose = "jupiter"
  <2>1. KeyFor(purpose, user) = Hkdf(SaltOf(purpose), user)
    BY <1>2 DEF KeyFor, SaltOf, DelegateKey
  <2> QED BY <1>2, <2>1
<1>3. CASE purpose = "session"
  <2>1. KeyFor(purpose, user) = Hkdf(SaltOf(purpose), user)
    BY <1>3 DEF KeyFor, SaltOf, DelegateKey
  <2> QED BY <1>3, <2>1
<1>4. CASE purpose = "dek"
  <2>1. KeyFor(purpose, user) = Hkdf(SaltOf(purpose), "session-dek")
    BY <1>4 DEF KeyFor, SaltOf, SessionDek
  <2> QED BY <1>4, <2>1
<1>5. CASE purpose = "attestor"
  BY <1>5 DEF KeyFor, AttestorKey, Child
<1> QED BY <1>1, <1>2, <1>3, <1>4, <1>5 DEF Purposes

LEMMA KeysDiffer ==
  ASSUME NEW p \in Purposes, NEW q \in Purposes, NEW u \in SolanaKey, NEW v \in SolanaKey,
         KeyFor(p, u) # NoKey, KeyFor(q, v) # NoKey
  PROVE  KeyFor(p, u) = KeyFor(q, v) <=> p = q /\ (p \in {"dek", "attestor"} \/ u = v)
<1>1. \A s, x : Hkdf(s, x)[1] = "hkdf"
  BY DEF Hkdf
<1>2. ASSUME KeyFor(p, u) = KeyFor(q, v) PROVE p = q
  <2>1. CASE p = "attestor" \/ q = "attestor"
    <3>1. p # "attestor" => KeyFor(p, u)[1] = "hkdf"
      BY <1>1, KeyOfPurpose
    <3>2. q # "attestor" => KeyFor(q, v)[1] = "hkdf"
      BY <1>1, KeyOfPurpose
    <3> QED BY <1>2, <2>1, <3>1, <3>2, KeyOfPurpose
  <2>2. CASE p # "attestor" /\ q # "attestor"
    <3>1. PICK x : KeyFor(p, u) = Hkdf(SaltOf(p), x)
      BY <2>2, KeyOfPurpose
    <3>2. PICK y : KeyFor(q, v) = Hkdf(SaltOf(q), y)
      BY <2>2, KeyOfPurpose
    <3>3. SaltOf(p) = SaltOf(q)
      <4>1. Hkdf(SaltOf(p), x) = Hkdf(SaltOf(q), y)
        BY <1>2, <3>1, <3>2
      <4> QED BY <4>1 DEF Hkdf
    <3> QED BY <3>3, SaltsApart
  <2> QED BY <2>1, <2>2
<1>3. ASSUME KeyFor(p, u) = KeyFor(q, v), p \notin {"dek", "attestor"} PROVE u = v
  <2>1. p = q
    BY <1>2, <1>3
  <2>2. CASE p = "evm"
    <3>1. KeyFor(p, u) = UserKey(u) /\ KeyFor(q, v) = UserKey(v)
      BY <2>1, <2>2 DEF KeyFor
    <3> QED BY <1>3, <3>1, UserKeyInjective
  <2>3. CASE p = "jupiter"
    <3>1. \A w : KeyFor(p, w) = Hkdf("polylayer-jupiter-delegate-v1", w)
      BY <2>3 DEF KeyFor, DelegateKey
    <3> QED BY <1>3, <2>1, <3>1, HkdfApart
  <2>4. CASE p = "session"
    <3>1. \A w : KeyFor(p, w) = Hkdf("polylayer-session-delegate-v1", w)
      BY <2>4 DEF KeyFor, DelegateKey
    <3> QED BY <1>3, <2>1, <3>1, HkdfApart
  <2> QED BY <1>3, <2>2, <2>3, <2>4 DEF Purposes
<1>4. \A x, y : p \in {"dek", "attestor"} => KeyFor(p, x) = KeyFor(p, y)
  BY DEF KeyFor
<1> QED BY <1>2, <1>3, <1>4

-----------------------------------------------------------------------------
(* Digests: what was hashed can be told from the hash. *)

LEMMA Ideal ==
  /\ \A w : Hash(w)[1] = "hash" /\ Hash(w)[2] = w
  /\ \A s : Text(s)[2] = s
  /\ \A n : Num(n)[2] = n
BY DEF Hash, Text, Num

Prefixed(d) == d[2][1]
StructOf(d) == d[2][3]
DomainPart(d, n) == d[2][2][2][n]

LEMMA Eip712Parts ==
  \A domain, struct :
    LET d == Eip712(Hash(domain), struct)
    IN /\ d[1] = "hash" /\ Prefixed(d) = Text("1901") /\ StructOf(d) = struct
       /\ \A n : DomainPart(d, n) = domain[n]
<1> TAKE domain, struct
<1> DEFINE x == Hash(domain)
           w == <<Text("1901"), x, struct>>
<1>1. w[1] = Text("1901") /\ w[2] = x /\ w[3] = struct
  OBVIOUS
<1>2. x[2] = domain
  BY Ideal
<1>3. Eip712(x, struct) = Hash(w)
  BY DEF Eip712
<1> HIDE DEF w, x
<1>4. Hash(w)[1] = "hash" /\ Hash(w)[2] = w
  BY Ideal
<1>5. Eip712(x, struct)[1] = "hash" /\ Eip712(x, struct)[2] = w
  BY <1>3, <1>4
<1> QED BY <1>1, <1>2, <1>5 DEF Prefixed, StructOf, DomainPart, x

LEMMA DomainParts ==
  \A name, version, chain, contract, struct :
    LET d == Eip712(DomainOf(name, version, chain, contract), struct)
    IN /\ d[1] = "hash" /\ Prefixed(d) = Text("1901") /\ StructOf(d) = struct
       /\ DomainPart(d, 2) = Text(name) /\ DomainPart(d, 4) = Num(chain)
       /\ DomainPart(d, 5) = contract
<1> TAKE name, version, chain, contract, struct
<1> DEFINE w == <<DomainType, Text(name), Text(version), Num(chain), contract>>
<1>1. w[2] = Text(name) /\ w[4] = Num(chain) /\ w[5] = contract
  OBVIOUS
<1>2. DomainOf(name, version, chain, contract) = Hash(w)
  BY DEF DomainOf
<1> HIDE DEF w
<1> QED BY <1>1, <1>2, Eip712Parts

\* The domain's name of a digest that is of no attestation, link or transaction.
NameOf(d, name) == d[1] = "hash" /\ Prefixed(d) = Text("1901") /\ DomainPart(d, 2) = Text(name)

LEMMA DomainFacts ==
  ASSUME NEW name, NEW version, NEW chain, NEW contract, NEW struct, NEW digest,
         digest = Eip712(DomainOf(name, version, chain, contract), struct)
  PROVE  /\ NameOf(digest, name) /\ StructOf(digest) = struct
         /\ DomainPart(digest, 4) = Num(chain) /\ DomainPart(digest, 5) = contract
BY DomainParts DEF NameOf

LEMMA OrderApart ==
  ASSUME NEW o, NEW p, NEW m \in BOOLEAN, NEW n \in BOOLEAN
  PROVE  /\ NameOf(OrderDigest(o, m), "Polymarket CTF Exchange")
         /\ OrderDigest(o, m) = OrderDigest(p, n) =>
              /\ m = n
              /\ o.salt = p.salt /\ o.maker = p.maker /\ o.signer = p.signer /\ o.token = p.token
              /\ o.maker_amount = p.maker_amount /\ o.taker_amount = p.taker_amount
              /\ o.side = p.side /\ o.signature_type = p.signature_type
              /\ o.timestamp = p.timestamp /\ o.metadata = p.metadata /\ o.builder = p.builder
<1> DEFINE Exchange(k) == Contracts[IF k THEN "neg_risk_exchange" ELSE "exchange"]
           Body(q) == TypedDataSign(OrderHash(q), q.maker)
<1>1. \A q, k : /\ NameOf(OrderDigest(q, k), "Polymarket CTF Exchange")
                /\ StructOf(OrderDigest(q, k)) = Body(q)
                /\ DomainPart(OrderDigest(q, k), 5) = Num(Exchange(k))
  <2> TAKE q, k
  <2> DEFINE place == Num(Exchange(k))
             content == Body(q)
  <2>1. OrderDigest(q, k) = Eip712(DomainOf("Polymarket CTF Exchange", "2", PolygonChainId, place), content)
    BY DEF OrderDigest, ExchangeDomain
  <2> DEFINE name == "Polymarket CTF Exchange"
  <2>2. OrderDigest(q, k) = Eip712(DomainOf(name, "2", PolygonChainId, place), content)
    BY <2>1
  <2> HIDE DEF place, content, name
  <2>3. /\ NameOf(OrderDigest(q, k), name)
        /\ StructOf(OrderDigest(q, k)) = content
        /\ DomainPart(OrderDigest(q, k), 5) = place
    BY <2>2, DomainFacts
  <2> QED BY <2>3 DEF place, content, name
<1>2. \A q : /\ Body(q)[2][2][2][2] = Num(q.salt) /\ Body(q)[2][2][2][3] = q.maker
             /\ Body(q)[2][2][2][4] = q.signer /\ Body(q)[2][2][2][5] = Num(q.token)
             /\ Body(q)[2][2][2][6] = Num(q.maker_amount) /\ Body(q)[2][2][2][7] = Num(q.taker_amount)
             /\ Body(q)[2][2][2][8] = Num(q.side) /\ Body(q)[2][2][2][9] = Num(q.signature_type)
             /\ Body(q)[2][2][2][10] = Num(q.timestamp) /\ Body(q)[2][2][2][11] = Num(q.metadata)
             /\ Body(q)[2][2][2][12] = Num(q.builder)
  <2> TAKE q
  <2> DEFINE w == <<Text("Order"), Num(q.salt), q.maker, q.signer, Num(q.token), Num(q.maker_amount),
                    Num(q.taker_amount), Num(q.side), Num(q.signature_type), Num(q.timestamp),
                    Num(q.metadata), Num(q.builder)>>
             h == OrderHash(q)
             v == <<Text("TypedDataSign"), h, Text("DepositWallet"), Text("1"), Num(PolygonChainId),
                    q.maker, Num(0)>>
  <2>1. /\ w[2] = Num(q.salt) /\ w[3] = q.maker /\ w[4] = q.signer /\ w[5] = Num(q.token)
        /\ w[6] = Num(q.maker_amount) /\ w[7] = Num(q.taker_amount) /\ w[8] = Num(q.side)
        /\ w[9] = Num(q.signature_type) /\ w[10] = Num(q.timestamp) /\ w[11] = Num(q.metadata)
        /\ w[12] = Num(q.builder)
    OBVIOUS
  <2>2. v[2] = h
    OBVIOUS
  <2>3. h = Hash(w)
    BY DEF OrderHash
  <2>4. Body(q) = Hash(v)
    BY DEF TypedDataSign
  <2> HIDE DEF w, v, h, Body
  <2>5. Body(q)[2] = v /\ h[2] = w
    BY <2>3, <2>4, Ideal
  <2> QED BY <2>1, <2>2, <2>5
<1> HIDE DEF Body
<1>3. ASSUME OrderDigest(o, m) = OrderDigest(p, n)
      PROVE  Body(o) = Body(p) /\ Exchange(m) = Exchange(n)
  <2>1. Num(Exchange(m)) = Num(Exchange(n)) /\ Body(o) = Body(p)
    BY <1>1, <1>3
  <2> QED BY <2>1, Ideal
<1>4. Exchange(m) = Exchange(n) => m = n
  BY DomainsAssumption
<1>5. Body(o) = Body(p) =>
        /\ o.salt = p.salt /\ o.maker = p.maker /\ o.signer = p.signer /\ o.token = p.token
        /\ o.maker_amount = p.maker_amount /\ o.taker_amount = p.taker_amount
        /\ o.side = p.side /\ o.signature_type = p.signature_type
        /\ o.timestamp = p.timestamp /\ o.metadata = p.metadata /\ o.builder = p.builder
  <2> SUFFICES ASSUME Body(o) = Body(p)
               PROVE  /\ o.salt = p.salt /\ o.maker = p.maker /\ o.signer = p.signer /\ o.token = p.token
                      /\ o.maker_amount = p.maker_amount /\ o.taker_amount = p.taker_amount
                      /\ o.side = p.side /\ o.signature_type = p.signature_type
                      /\ o.timestamp = p.timestamp /\ o.metadata = p.metadata /\ o.builder = p.builder
    OBVIOUS
  <2>1. /\ Num(o.salt) = Num(p.salt) /\ o.maker = p.maker /\ o.signer = p.signer
        /\ Num(o.token) = Num(p.token)
        /\ Num(o.maker_amount) = Num(p.maker_amount) /\ Num(o.taker_amount) = Num(p.taker_amount)
        /\ Num(o.side) = Num(p.side) /\ Num(o.signature_type) = Num(p.signature_type)
        /\ Num(o.timestamp) = Num(p.timestamp) /\ Num(o.metadata) = Num(p.metadata)
        /\ Num(o.builder) = Num(p.builder)
    BY <1>2
  <2>2. \A x, y : Num(x) = Num(y) => x = y
    BY DEF Num
  <2> QED BY <2>1, <2>2
<1> QED BY <1>1, <1>3, <1>4, <1>5

LEMMA NumApart == \A x, y : Num(x) = Num(y) => x = y
BY DEF Num

LEMMA TextApart == \A x, y : Text(x) = Text(y) => x = y
BY DEF Text

LEMMA BatchApart ==
  ASSUME NEW v, NEW w, NEW m, NEW n, NEW d, NEW e
  PROVE  /\ NameOf(BatchDigest(v, m, d, BootstrapCalls), "DepositWallet")
         /\ BatchDigest(v, m, d, BootstrapCalls) = BatchDigest(w, n, e, BootstrapCalls) =>
              v = w /\ m = n /\ d = e
<1> DEFINE calls == Hash([i \in DOMAIN BootstrapCalls |-> CallHash(BootstrapCalls[i])])
           Body(x, y, z) == <<Text("Batch"), x, Num(y), Num(z), calls>>
           D(x, y, z) == BatchDigest(x, y, z, BootstrapCalls)
<1>1. \A x, y, z : D(x, y, z) = Eip712(DomainOf("DepositWallet", "1", PolygonChainId, x), Hash(Body(x, y, z)))
  BY DEF BatchDigest
<1> HIDE DEF calls, D
<1>2. \A x, y, z : Body(x, y, z)[2] = x /\ Body(x, y, z)[3] = Num(y) /\ Body(x, y, z)[4] = Num(z)
  OBVIOUS
<1> HIDE DEF Body
<1>3. \A x, y, z : NameOf(D(x, y, z), "DepositWallet") /\ StructOf(D(x, y, z)) = Hash(Body(x, y, z))
  BY <1>1, DomainParts DEF NameOf
<1>4. \A x, y, z : StructOf(D(x, y, z))[2] = Body(x, y, z)
  BY <1>3, Ideal
<1>5. D(v, m, d) = D(w, n, e) => v = w /\ m = n /\ d = e
  <2> SUFFICES ASSUME D(v, m, d) = D(w, n, e) PROVE v = w /\ m = n /\ d = e
    OBVIOUS
  <2>1. Body(v, m, d) = Body(w, n, e)
    BY <1>4
  <2>2. v = w /\ Num(m) = Num(n) /\ Num(d) = Num(e)
    BY <1>2, <2>1
  <2> QED BY <2>2, NumApart
<1> QED BY <1>3, <1>5 DEF D

PermitBody(owner, spender, value, nonce, deadline) ==
  <<Text("Permit"), owner, spender, Num(value), Num(nonce), Num(deadline)>>

LEMMA PermitParts ==
  ASSUME NEW owner, NEW spender, NEW x, NEW y, NEW z
  PROVE  LET signed == PermitDigest(owner, spender, x, y, z)
         IN /\ NameOf(signed, "USD Coin")
            /\ StructOf(signed) = Hash(PermitBody(owner, spender, x, y, z))
<1> DEFINE signed == PermitDigest(owner, spender, x, y, z)
           content == Hash(PermitBody(owner, spender, x, y, z))
           place == Num(Contracts["usdc_arbitrum"])
           name == "USD Coin"
<1>1. signed = Eip712(DomainOf("USD Coin", "2", ArbitrumChainId, place), content)
  BY DEF PermitDigest, PermitBody
<1>2. signed = Eip712(DomainOf(name, "2", ArbitrumChainId, place), content)
  BY <1>1
<1> HIDE DEF signed, content, name, place
<1>3. NameOf(signed, name) /\ StructOf(signed) = content
  BY <1>2, DomainFacts
<1> QED BY <1>3 DEF signed, content, name

LEMMA PermitStruct ==
  \A owner, spender, x, y, z :
    StructOf(PermitDigest(owner, spender, x, y, z))[2] = PermitBody(owner, spender, x, y, z)
<1> TAKE owner, spender, x, y, z
<1> DEFINE b == PermitBody(owner, spender, x, y, z)
           content == StructOf(PermitDigest(owner, spender, x, y, z))
<1>1. content = Hash(b)
  BY PermitParts
<1> HIDE DEF b, content
<1>2. content[2] = b
  BY <1>1, Ideal
<1> QED BY <1>2 DEF b, content

LEMMA PermitApart ==
  ASSUME NEW owner, NEW other, NEW spender, NEW u, NEW v, NEW m, NEW n, NEW d, NEW e,
         PermitDigest(owner, spender, u, m, d) = PermitDigest(other, spender, v, n, e)
  PROVE  u = v /\ m = n /\ d = e
<1>1. PermitBody(owner, spender, u, m, d) = PermitBody(other, spender, v, n, e)
  BY PermitStruct
<1>2. Num(u) = Num(v) /\ Num(m) = Num(n) /\ Num(d) = Num(e)
  BY <1>1 DEF PermitBody
<1> QED BY <1>2, NumApart

LEMMA AgentApart ==
  ASSUME NEW m \in {"mainnet", "testnet"}, NEW n \in {"mainnet", "testnet"}, NEW c, NEW d
  PROVE  /\ NameOf(AgentDigest(m, c), "Exchange")
         /\ AgentDigest(m, c) = AgentDigest(n, d) => m = n /\ c = d
<1> DEFINE Body(x, y) == <<Text("Agent"), Text(SourceTag(x)), Num(y)>>
           D(x, y) == AgentDigest(x, y)
<1>1. \A x, y : D(x, y) = Eip712(DomainOf("Exchange", "1", 1337, Num(0)), Hash(Body(x, y)))
  BY DEF AgentDigest
<1> HIDE DEF D
<1>2. \A x, y : Body(x, y)[2] = Text(SourceTag(x)) /\ Body(x, y)[3] = Num(y)
  OBVIOUS
<1> HIDE DEF Body
<1>3. \A x, y : NameOf(D(x, y), "Exchange") /\ StructOf(D(x, y)) = Hash(Body(x, y))
  BY <1>1, DomainParts DEF NameOf
<1>4. \A x, y : StructOf(D(x, y))[2] = Body(x, y)
  BY <1>3, Ideal
<1>5. D(m, c) = D(n, d) => m = n /\ c = d
  <2> SUFFICES ASSUME D(m, c) = D(n, d) PROVE m = n /\ c = d
    OBVIOUS
  <2>1. Body(m, c) = Body(n, d)
    BY <1>4
  <2>2. Text(SourceTag(m)) = Text(SourceTag(n)) /\ Num(c) = Num(d)
    BY <1>2, <2>1
  <2>3. SourceTag(m) = SourceTag(n)
    BY <2>2, TextApart
  <2> QED BY <2>2, <2>3, NumApart DEF SourceTag
<1> QED BY <1>3, <1>5 DEF D

LEMMA UserActionApart ==
  ASSUME NEW c, NEW d, NEW u, NEW v
  PROVE  /\ NameOf(UserActionDigest(c, u), "HyperliquidSignTransaction")
         /\ UserActionDigest(c, u) = UserActionDigest(d, v) => c = d /\ u = v
<1>1. \A x, y : /\ NameOf(UserActionDigest(x, y), "HyperliquidSignTransaction")
                /\ StructOf(UserActionDigest(x, y)) = y /\ DomainPart(UserActionDigest(x, y), 4) = Num(x)
  BY DomainParts DEF NameOf, UserActionDigest
<1>2. UserActionDigest(c, u) = UserActionDigest(d, v) => Num(c) = Num(d) /\ u = v
  BY <1>1
<1> QED BY <1>1, <1>2, NumApart

LEMMA ClobAuthApart ==
  ASSUME NEW owner, NEW other, NEW s, NEW t, NEW m, NEW n
  PROVE  /\ NameOf(ClobAuthDigest(owner, s, m), "ClobAuthDomain")
         /\ ClobAuthDigest(owner, s, m) = ClobAuthDigest(other, t, n) => s = t /\ m = n
<1> DEFINE Body(o, x, y) == <<Text("ClobAuth"), o, <<"decimal", x>>, Num(y),
                              Text("This message attests that I control the given wallet")>>
           domain == <<Text("EIP712Domain(string name,string version,uint256 chainId)"),
                       Text("ClobAuthDomain"), Text("1"), Num(PolygonChainId)>>
           D(o, x, y) == ClobAuthDigest(o, x, y)
<1>1. \A o, x, y : D(o, x, y) = Eip712(Hash(domain), Hash(Body(o, x, y)))
  BY DEF ClobAuthDigest
<1>2. domain[2] = Text("ClobAuthDomain")
  OBVIOUS
<1>3. \A o, x, y : Body(o, x, y)[3][2] = x /\ Body(o, x, y)[4] = Num(y)
  OBVIOUS
<1> HIDE DEF D, Body, domain
<1>4. \A o, x, y : NameOf(D(o, x, y), "ClobAuthDomain") /\ StructOf(D(o, x, y)) = Hash(Body(o, x, y))
  BY <1>1, <1>2, Eip712Parts DEF NameOf
<1>5. \A o, x, y : StructOf(D(o, x, y))[2] = Body(o, x, y)
  BY <1>4, Ideal
<1>6. D(owner, s, m) = D(other, t, n) => s = t /\ m = n
  <2> SUFFICES ASSUME D(owner, s, m) = D(other, t, n) PROVE s = t /\ m = n
    OBVIOUS
  <2>1. Body(owner, s, m) = Body(other, t, n)
    BY <1>5
  <2>2. s = t /\ Num(m) = Num(n)
    BY <1>3, <2>1
  <2> QED BY <2>2, NumApart
<1> QED BY <1>4, <1>6 DEF D

LEMMA LinkOf == \A user : LinkDigest(user)[1] = "hash" /\ Prefixed(LinkDigest(user)) = Text("polylayer-link-v1")
<1> TAKE user
<1> DEFINE w == <<Text("polylayer-link-v1"), <<"bytes", user>>>>
<1>1. w[1] = Text("polylayer-link-v1") /\ LinkDigest(user) = Hash(w)
  BY DEF LinkDigest
<1> HIDE DEF w
<1> QED BY <1>1, Ideal DEF Prefixed

LEMMA TxApart ==
  ASSUME NEW t, NEW u
  PROVE  /\ TxDigest(t)[1] = "hash" /\ Prefixed(TxDigest(t)) = Text("02")
         /\ TxDigest(t) = TxDigest(u) =>
              /\ t.chain = u.chain /\ t.nonce = u.nonce /\ t.max_priority_fee = u.max_priority_fee
              /\ t.max_fee = u.max_fee /\ t.gas_limit = u.gas_limit /\ t.to = u.to
              /\ t.value = u.value /\ t.data = u.data
<1> DEFINE Numbers(x) == <<x.chain, x.nonce, x.max_priority_fee, x.max_fee, x.gas_limit>>
           Body(x) == <<Text("02"), <<"rlp", Numbers(x)>>, Num(x.to), <<"rlp", <<x.value>>>>, <<"bytes", x.data>>,
                        Text("no access list")>>
<1>1. \A x : TxDigest(x) = Hash(Body(x))
  BY DEF TxDigest
<1>2. \A x : /\ Numbers(x)[1] = x.chain /\ Numbers(x)[2] = x.nonce /\ Numbers(x)[3] = x.max_priority_fee
             /\ Numbers(x)[4] = x.max_fee /\ Numbers(x)[5] = x.gas_limit
  OBVIOUS
<1> HIDE DEF Numbers
<1>3. \A x : /\ Body(x)[1] = Text("02") /\ Body(x)[2][2] = Numbers(x) /\ Body(x)[3] = Num(x.to)
             /\ Body(x)[4][2][1] = x.value /\ Body(x)[5][2] = x.data
  OBVIOUS
<1> HIDE DEF Body
<1>4. \A x : /\ TxDigest(x)[1] = "hash" /\ TxDigest(x)[2] = Body(x)
             /\ Prefixed(TxDigest(x)) = Text("02")
  BY <1>1, <1>3, Ideal, ZenonT(60) DEF Prefixed
<1>5. TxDigest(t) = TxDigest(u) => Numbers(t) = Numbers(u) /\ t.to = u.to /\ t.value = u.value /\ t.data = u.data
  <2> SUFFICES ASSUME TxDigest(t) = TxDigest(u)
               PROVE  Numbers(t) = Numbers(u) /\ t.to = u.to /\ t.value = u.value /\ t.data = u.data
    OBVIOUS
  <2>1. Body(t) = Body(u)
    BY <1>4
  <2>2. Numbers(t) = Numbers(u) /\ Num(t.to) = Num(u.to) /\ t.value = u.value /\ t.data = u.data
    BY <1>3, <2>1
  <2> QED BY <2>2, NumApart
<1>6. Numbers(t) = Numbers(u) =>
        /\ t.chain = u.chain /\ t.nonce = u.nonce /\ t.max_priority_fee = u.max_priority_fee
        /\ t.max_fee = u.max_fee /\ t.gas_limit = u.gas_limit
  BY <1>2
<1> QED BY <1>4, <1>5, <1>6

-----------------------------------------------------------------------------
(* The bytes of an attestation. *)

Symbol == Nat \cup {"ATT1"}
Sized(x, n) == x \in Seq(Symbol) /\ n \in Nat /\ Len(x) = n

LEMMA Glued ==
  ASSUME NEW x, NEW y, NEW m, NEW n, Sized(x, m), Sized(y, n)
  PROVE  Sized(x \o y, m + n)
<1>1. x \in Seq(Symbol) /\ y \in Seq(Symbol)
  BY DEF Sized
<1>2. Len(x \o y) = Len(x) + Len(y)
  BY <1>1, Apart
<1>3. x \o y \in Seq(Symbol)
  BY <1>1, Apart
<1>4. Len(x) = m /\ Len(y) = n /\ m \in Nat /\ n \in Nat
  BY DEF Sized
<1> QED BY <1>2, <1>3, <1>4 DEF Sized

LEMMA Regrouped ==
  ASSUME NEW x, NEW y, NEW z, NEW l, NEW m, NEW n, Sized(x, l), Sized(y, m), Sized(z, n)
  PROVE  (x \o y) \o z = x \o (y \o z)
<1>1. x \in Seq(Symbol) /\ y \in Seq(Symbol) /\ z \in Seq(Symbol)
  BY DEF Sized
<1> QED BY <1>1, ConcatAssociative

\* z is x and then y, and x has k bytes.
Cut(x, k, y, z) == (\E n : Sized(y, n)) /\ Sized(x, k) /\ z = x \o y

LEMMA Cutting ==
  ASSUME NEW x, NEW y, NEW k, NEW n, Sized(x, k), Sized(y, n)
  PROVE  Cut(x, k, y, x \o y)
BY DEF Cut

LEMMA CutApart ==
  ASSUME NEW x, NEW y, NEW v, NEW w, NEW k, NEW z, Cut(x, k, y, z), Cut(v, k, w, z)
  PROVE  x = v /\ y = w
<1>1. x \in Seq(Symbol) /\ y \in Seq(Symbol) /\ v \in Seq(Symbol) /\ w \in Seq(Symbol)
  BY DEF Cut, Sized
<1>2. Len(x) = Len(v)
  BY DEF Cut, Sized
<1>3. SubSeq(x \o y, 1, Len(x)) = x /\ SubSeq(x \o y, Len(x) + 1, Len(x \o y)) = y
  BY <1>1, Apart
<1>4. SubSeq(v \o w, 1, Len(v)) = v /\ SubSeq(v \o w, Len(v) + 1, Len(v \o w)) = w
  BY <1>1, Apart
<1>5. x \o y = z /\ v \o w = z
  BY DEF Cut
<1> QED BY <1>2, <1>3, <1>4, <1>5

LEMMA NumberSized ==
  /\ \A v \in 0..U64Max : Sized(U64(v), U64Bytes)
  /\ \A u, v \in 0..U64Max : U64(u) = U64(v) => u = v
  /\ \A n \in Nat, w \in Nat : Sized(BytesOf(n, w), w)
  /\ \A n \in Nat : \A x \in [1..n -> Byte] : Sized(x, n)
<1>1. Seq(Nat) \subseteq Seq(Symbol) /\ Byte \subseteq Nat
  <2>1. Nat \subseteq Symbol
    BY DEF Symbol
  <2> QED BY <2>1, SeqMonotonic DEF Byte
<1>2. \A n \in Nat, w \in Nat : Sized(BytesOf(n, w), w)
  BY <1>1, BytesOfType, ByteSeqs DEF Sized
<1>3. \A v \in 0..U64Max : Sized(U64(v), U64Bytes)
  BY <1>1, U64Type DEF Sized
<1>4. \A n \in Nat : \A x \in [1..n -> Byte] : Sized(x, n)
  <2> TAKE n \in Nat
  <2> TAKE x \in [1..n -> Byte]
  <2>1. x \in Seq(Byte) /\ Len(x) = n
    OBVIOUS
  <2> QED BY <1>1, <2>1, ByteSeqs DEF Sized
<1>5. \A u, v \in 0..U64Max : U64(u) = U64(v) => u = v
  BY U64Type
<1> QED BY <1>2, <1>3, <1>4, <1>5

\* The arguments with which a statement of an attestor is signed.
Attested(s) ==
  /\ s.market \in SolanaKey /\ s.signed_at \in 0..U64Max /\ s.nonce \in 0..U64Max
  /\ \/ /\ s.kind = "twap"
        /\ s.price \in 0..U64Max /\ s.window \in 0..U64Max
        /\ s.start \in 0..U64Max /\ s.end \in 0..U64Max
     \/ /\ s.kind = "resolution"
        /\ s.outcome_bps \in 0..(Power(ByteBase, U16Bytes) - 1) /\ s.resolved_at \in 0..U64Max
     \/ /\ s.kind = "liquidation"
        /\ s.pmlc \in [1..(PayloadBytes - 2 * U64Bytes) -> Byte]
        /\ s.mark \in 0..U64Max /\ s.breach_at \in 0..U64Max

Lead(kind) == <<"ATT1", TypeByte(kind), 0, 0, 0>>
PayloadSize(kind) ==
  CASE kind = "twap" -> 4 * U64Bytes
    [] kind = "resolution" -> U16Bytes + U64Bytes
    [] kind = "liquidation" -> PayloadBytes
AttestedKinds == {"twap", "resolution", "liquidation"}

LEMMA LeadApart ==
  /\ \A k \in AttestedKinds : Sized(Lead(k), 5)
  /\ \A k, l \in AttestedKinds : Lead(k) = Lead(l) => k = l
<1>1. \A k \in AttestedKinds : TypeByte(k) \in Nat
  BY DEF TypeByte, AttestedKinds
<1>2. \A k, l \in AttestedKinds : TypeByte(k) = TypeByte(l) => k = l
  BY DEF TypeByte, AttestedKinds
<1>3. \A n \in Nat : LET w == <<"ATT1", n, 0, 0, 0>> IN w \in Seq(Symbol) /\ Len(w) = 5 /\ w[2] = n
  BY DEF Symbol
<1>4. \A k \in AttestedKinds : Lead(k) \in Seq(Symbol) /\ Len(Lead(k)) = 5 /\ Lead(k)[2] = TypeByte(k)
  BY <1>1, <1>3 DEF Lead
<1> QED BY <1>2, <1>4 DEF Sized

LEMMA HeaderApart ==
  ASSUME NEW s, Attested(s)
  PROVE  /\ Sized(Header(s), 5 + KeyBytes + U64Bytes + U64Bytes)
         /\ \A t : Attested(t) /\ Header(s) = Header(t) =>
              /\ s.kind = t.kind /\ s.market = t.market
              /\ s.signed_at = t.signed_at /\ s.nonce = t.nonce
<1> DEFINE A(q) == Lead(q.kind) \o q.market
           B(q) == A(q) \o U64(q.signed_at)
           H(q) == B(q) \o U64(q.nonce)
<1>1. \A q : Header(q) = H(q)
  BY DEF Header, Lead
<1>2. \A q : Attested(q) => /\ q.kind \in AttestedKinds /\ q.market \in [1..KeyBytes -> Byte]
                            /\ q.signed_at \in 0..U64Max /\ q.nonce \in 0..U64Max
  BY DEF Attested, AttestedKinds, SolanaKey
<1>3. \A q : Attested(q) => /\ Sized(Lead(q.kind), 5) /\ Sized(q.market, KeyBytes)
                            /\ Sized(U64(q.signed_at), U64Bytes) /\ Sized(U64(q.nonce), U64Bytes)
  BY <1>2, LeadApart, NumberSized, DomainsAssumption
<1>4. \A q : Attested(q) => Sized(A(q), 5 + KeyBytes)
  BY <1>3, Glued
<1>5. \A q : Attested(q) => Sized(B(q), 5 + KeyBytes + U64Bytes)
  <2> HIDE DEF A
  <2> QED BY <1>3, <1>4, Glued
<1>6. \A q : Attested(q) => Sized(H(q), 5 + KeyBytes + U64Bytes + U64Bytes)
  <2> HIDE DEF A, B
  <2> QED BY <1>3, <1>5, Glued
<1>7. \A q : Attested(q) => /\ Cut(Lead(q.kind), 5, q.market, A(q))
                            /\ Cut(A(q), 5 + KeyBytes, U64(q.signed_at), B(q))
                            /\ Cut(B(q), 5 + KeyBytes + U64Bytes, U64(q.nonce), H(q))
  <2>1. \A q : Attested(q) => Cut(Lead(q.kind), 5, q.market, A(q))
    BY <1>3, Cutting
  <2>2. \A q : Attested(q) => Cut(A(q), 5 + KeyBytes, U64(q.signed_at), B(q))
    <3> HIDE DEF A
    <3> QED BY <1>3, <1>4, Cutting
  <2>3. \A q : Attested(q) => Cut(B(q), 5 + KeyBytes + U64Bytes, U64(q.nonce), H(q))
    <3> HIDE DEF B
    <3> QED BY <1>3, <1>5, Cutting
  <2> QED BY <2>1, <2>2, <2>3, Zenon
<1> HIDE DEF A, B, H
<1>8. ASSUME NEW t, Attested(t), Header(s) = Header(t)
      PROVE  /\ s.kind = t.kind /\ s.market = t.market
             /\ s.signed_at = t.signed_at /\ s.nonce = t.nonce
  <2>1. B(s) = B(t) /\ U64(s.nonce) = U64(t.nonce)
    BY <1>1, <1>7, <1>8, CutApart
  <2>2. A(s) = A(t) /\ U64(s.signed_at) = U64(t.signed_at)
    BY <1>7, <1>8, <2>1, CutApart
  <2>3. Lead(s.kind) = Lead(t.kind) /\ s.market = t.market
    BY <1>7, <1>8, <2>2, CutApart
  <2>4. s.kind = t.kind
    BY <1>2, <1>8, <2>3, LeadApart
  <2>5. s.signed_at = t.signed_at /\ s.nonce = t.nonce
    BY <1>2, <1>8, <2>1, <2>2, NumberSized
  <2> QED BY <2>3, <2>4, <2>5
<1> QED BY <1>1, <1>6, <1>8

LEMMA PayloadApart ==
  ASSUME NEW s, Attested(s)
  PROVE  /\ Sized(Payload(s), PayloadSize(s.kind)) /\ PayloadSize(s.kind) <= PayloadBytes
         /\ \A t : Attested(t) /\ s.kind = t.kind /\ Payload(s) = Payload(t) =>
              /\ s.kind = "twap" => /\ s.price = t.price /\ s.window = t.window
                                    /\ s.start = t.start /\ s.end = t.end
              /\ s.kind = "resolution" => s.outcome_bps = t.outcome_bps /\ s.resolved_at = t.resolved_at
              /\ s.kind = "liquidation" => /\ s.pmlc = t.pmlc /\ s.mark = t.mark
                                           /\ s.breach_at = t.breach_at
<1> DEFINE W == U64Bytes
<1>0. W \in Nat /\ U16Bytes \in Nat /\ PayloadBytes \in Nat /\ 4 * W <= PayloadBytes /\ U16Bytes + W <= PayloadBytes
  BY DomainsAssumption, U64Type
<1>1. CASE s.kind = "twap"
  <2> DEFINE A(q) == U64(q.price) \o U64(q.window)
             B(q) == A(q) \o U64(q.start)
  <2>1. \A q : q.kind = "twap" => Payload(q) = B(q) \o U64(q.end)
    BY DEF Payload
  <2>2. \A q : Attested(q) /\ q.kind = "twap" =>
          q.price \in 0..U64Max /\ q.window \in 0..U64Max /\ q.start \in 0..U64Max /\ q.end \in 0..U64Max
    BY DEF Attested
  <2>3. \A q : Attested(q) /\ q.kind = "twap" =>
          /\ Sized(U64(q.price), W) /\ Sized(U64(q.window), W)
          /\ Sized(U64(q.start), W) /\ Sized(U64(q.end), W)
    BY <2>2, NumberSized
  <2>4. \A q : Attested(q) /\ q.kind = "twap" => Sized(A(q), W + W)
    BY <2>3, Glued
  <2>5. \A q : Attested(q) /\ q.kind = "twap" => Sized(B(q), W + W + W)
    <3> HIDE DEF A
    <3> QED BY <2>3, <2>4, Glued
  <2>6. Sized(Payload(s), W + W + W + W)
    <3> HIDE DEF B
    <3> QED BY <1>1, <2>1, <2>3, <2>5, Glued
  <2>7. PayloadSize(s.kind) = W + W + W + W
    BY <1>0, <1>1 DEF PayloadSize
  <2>8. \A q : Attested(q) /\ q.kind = "twap" =>
          /\ Cut(U64(q.price), W, U64(q.window), A(q))
          /\ Cut(A(q), W + W, U64(q.start), B(q))
          /\ Cut(B(q), W + W + W, U64(q.end), Payload(q))
    <3>1. \A q : Attested(q) /\ q.kind = "twap" => Cut(U64(q.price), W, U64(q.window), A(q))
      BY <2>3, Cutting
    <3>2. \A q : Attested(q) /\ q.kind = "twap" => Cut(A(q), W + W, U64(q.start), B(q))
      <4> HIDE DEF A
      <4> QED BY <2>3, <2>4, Cutting
    <3>3. \A q : Attested(q) /\ q.kind = "twap" => Cut(B(q), W + W + W, U64(q.end), Payload(q))
      <4> HIDE DEF B
      <4> QED BY <2>1, <2>3, <2>5, Cutting
    <3> QED BY <3>1, <3>2, <3>3, Zenon
  <2> HIDE DEF A, B
  <2>10. ASSUME NEW t, Attested(t), t.kind = "twap", Payload(s) = Payload(t)
        PROVE  s.price = t.price /\ s.window = t.window /\ s.start = t.start /\ s.end = t.end
    <3>1. B(s) = B(t) /\ U64(s.end) = U64(t.end)
      BY <1>1, <2>8, <2>10, CutApart
    <3>2. A(s) = A(t) /\ U64(s.start) = U64(t.start)
      BY <1>1, <2>8, <2>10, <3>1, CutApart
    <3>3. U64(s.price) = U64(t.price) /\ U64(s.window) = U64(t.window)
      BY <1>1, <2>8, <2>10, <3>2, CutApart
    <3> QED BY <1>1, <2>2, <2>10, <3>1, <3>2, <3>3, NumberSized
  <2>9. PayloadSize(s.kind) <= PayloadBytes
    BY <1>0, <1>1 DEF PayloadSize
  <2> QED BY <1>1, <2>6, <2>7, <2>9, <2>10
<1>2. CASE s.kind = "resolution"
  <2> DEFINE A(q) == BytesOf(q.outcome_bps, U16Bytes)
             M == Power(ByteBase, U16Bytes)
  <2>1. \A q : q.kind = "resolution" => Payload(q) = A(q) \o U64(q.resolved_at)
    BY DEF Payload
  <2>2. M \in Nat
    BY <1>0, PowerOfBase
  <2>3. \A q : Attested(q) /\ q.kind = "resolution" => q.outcome_bps \in 0..(M - 1) /\ q.resolved_at \in 0..U64Max
    BY DEF Attested
  <2> HIDE DEF M
  <2>4. \A q : Attested(q) /\ q.kind = "resolution" =>
          q.outcome_bps \in Nat /\ q.outcome_bps < M /\ q.resolved_at \in 0..U64Max
    BY <2>2, <2>3
  <2>5. \A q : Attested(q) /\ q.kind = "resolution" =>
          Sized(A(q), U16Bytes) /\ Sized(U64(q.resolved_at), W)
    BY <1>0, <2>4, NumberSized
  <2>6. Sized(Payload(s), PayloadSize(s.kind))
    <3> HIDE DEF A
    <3>1. Sized(Payload(s), U16Bytes + W)
      BY <1>2, <2>1, <2>5, Glued
    <3> QED BY <1>2, <3>1 DEF PayloadSize
  <2>7. PayloadSize(s.kind) <= PayloadBytes
    BY <1>0, <1>2 DEF PayloadSize
  <2>8. ASSUME NEW t, Attested(t), t.kind = "resolution", Payload(s) = Payload(t)
        PROVE  s.outcome_bps = t.outcome_bps /\ s.resolved_at = t.resolved_at
    <3>1. A(s) = A(t) /\ U64(s.resolved_at) = U64(t.resolved_at)
      <4> HIDE DEF A
      <4>1. \A q : Attested(q) /\ q.kind = "resolution" => Cut(A(q), U16Bytes, U64(q.resolved_at), Payload(q))
        BY <2>1, <2>5, Cutting
      <4> QED BY <1>2, <2>8, <4>1, CutApart
    <3>2. s.outcome_bps = t.outcome_bps
      BY <1>0, <1>2, <2>4, <2>8, <3>1, BytesInjective DEF M
    <3>3. s.resolved_at = t.resolved_at
      BY <1>2, <2>4, <2>8, <3>1, NumberSized
    <3> QED BY <3>2, <3>3
  <2> QED BY <1>2, <2>6, <2>7, <2>8
<1>3. CASE s.kind = "liquidation"
  <2> DEFINE A(q) == q.pmlc \o U64(q.mark)
             K == PayloadBytes - 2 * W
  <2>1. \A q : q.kind = "liquidation" => Payload(q) = A(q) \o U64(q.breach_at)
    BY DEF Payload
  <2>2. K \in Nat /\ K + W + W = PayloadBytes
    BY <1>0
  <2>3. \A q : Attested(q) /\ q.kind = "liquidation" =>
          q.pmlc \in [1..K -> Byte] /\ q.mark \in 0..U64Max /\ q.breach_at \in 0..U64Max
    BY DEF Attested
  <2> HIDE DEF K
  <2>4. \A q : Attested(q) /\ q.kind = "liquidation" =>
          Sized(q.pmlc, K) /\ Sized(U64(q.mark), W) /\ Sized(U64(q.breach_at), W)
    BY <2>2, <2>3, NumberSized
  <2>5. \A q : Attested(q) /\ q.kind = "liquidation" => Sized(A(q), K + W)
    BY <2>4, Glued
  <2>6. Sized(Payload(s), PayloadSize(s.kind))
    <3> HIDE DEF A
    <3>1. Sized(Payload(s), K + W + W)
      BY <1>3, <2>1, <2>4, <2>5, Glued
    <3> QED BY <1>3, <2>2, <3>1 DEF PayloadSize
  <2>7. PayloadSize(s.kind) <= PayloadBytes
    BY <1>0, <1>3 DEF PayloadSize
  <2>8. \A q : Attested(q) /\ q.kind = "liquidation" =>
          Cut(q.pmlc, K, U64(q.mark), A(q)) /\ Cut(A(q), K + W, U64(q.breach_at), Payload(q))
    <3>1. \A q : Attested(q) /\ q.kind = "liquidation" => Cut(q.pmlc, K, U64(q.mark), A(q))
      BY <2>4, Cutting
    <3>2. \A q : Attested(q) /\ q.kind = "liquidation" => Cut(A(q), K + W, U64(q.breach_at), Payload(q))
      <4> HIDE DEF A
      <4> QED BY <2>1, <2>4, <2>5, Cutting
    <3> QED BY <3>1, <3>2, Zenon
  <2> HIDE DEF A
  <2>9. ASSUME NEW t, Attested(t), t.kind = "liquidation", Payload(s) = Payload(t)
        PROVE  s.pmlc = t.pmlc /\ s.mark = t.mark /\ s.breach_at = t.breach_at
    <3>1. A(s) = A(t) /\ U64(s.breach_at) = U64(t.breach_at)
      BY <1>3, <2>8, <2>9, CutApart
    <3>2. s.pmlc = t.pmlc /\ U64(s.mark) = U64(t.mark)
      BY <1>3, <2>8, <2>9, <3>1, CutApart
    <3> QED BY <1>3, <2>3, <2>9, <3>1, <3>2, NumberSized
  <2> QED BY <1>3, <2>6, <2>7, <2>9
<1> QED BY <1>1, <1>2, <1>3 DEF Attested

\* Attestations differ in bytes if they differ in anything they state.
LEMMA AttestationApart ==
  ASSUME NEW s, NEW t, Attested(s), Attested(t), Attestation(s) = Attestation(t)
  PROVE  Header(s) = Header(t) /\ s.kind = t.kind /\ Payload(s) = Payload(t)
<1> DEFINE Pad(q) == [i \in 1..(PayloadBytes - Len(Payload(q))) |-> 0]
           Rest(q) == Payload(q) \o Pad(q)
           h == 5 + KeyBytes + U64Bytes + U64Bytes
<1>1. \A q : Attested(q) => Sized(Header(q), h)
  BY HeaderApart
<1>2. \A q : Attested(q) => Sized(Payload(q), PayloadSize(q.kind)) /\ PayloadSize(q.kind) <= PayloadBytes
  BY PayloadApart
<1>3. \A n \in Nat : Sized([i \in 1..n |-> 0], n)
  <2> TAKE n \in Nat
  <2>1. [i \in 1..n |-> 0] \in Seq(Symbol) /\ Len([i \in 1..n |-> 0]) = n
    BY DEF Symbol
  <2> QED BY <2>1 DEF Sized
<1>4. \A q : Attested(q) => Sized(Pad(q), PayloadBytes - PayloadSize(q.kind))
  <2> SUFFICES ASSUME NEW q, Attested(q) PROVE Sized(Pad(q), PayloadBytes - PayloadSize(q.kind))
    OBVIOUS
  <2>1. PayloadSize(q.kind) \in Nat /\ Len(Payload(q)) = PayloadSize(q.kind)
    BY <1>2 DEF Sized
  <2>2. PayloadBytes - PayloadSize(q.kind) \in Nat
    BY <1>2, <2>1, DomainsAssumption
  <2> QED BY <1>3, <2>1, <2>2
<1> HIDE DEF h
<1>5. \A q : Attested(q) => Attestation(q) = Header(q) \o Rest(q)
  <2> SUFFICES ASSUME NEW q, Attested(q) PROVE Attestation(q) = Header(q) \o Rest(q)
    OBVIOUS
  <2>1. Attestation(q) = (Header(q) \o Payload(q)) \o Pad(q)
    BY DEF Attestation
  <2> DEFINE h0 == Header(q)
             p == Payload(q)
             d == Pad(q)
  <2>2. Sized(h0, h) /\ Sized(p, PayloadSize(q.kind)) /\ Sized(d, PayloadBytes - PayloadSize(q.kind))
    BY <1>1, <1>2, <1>4
  <2> HIDE DEF h0, p, d
  <2>3. (h0 \o p) \o d = h0 \o (p \o d)
    BY <2>2, Regrouped
  <2> QED BY <2>1, <2>3 DEF h0, p, d
<1>6. \A q : Attested(q) => Sized(Rest(q), PayloadSize(q.kind) + (PayloadBytes - PayloadSize(q.kind)))
  <2> HIDE DEF Pad
  <2> QED BY <1>2, <1>4, Glued
<1>7. Header(s) = Header(t) /\ Rest(s) = Rest(t)
  <2> HIDE DEF Rest
  <2>1. \A q : Attested(q) => Cut(Header(q), h, Rest(q), Attestation(q))
    BY <1>1, <1>5, <1>6, Cutting
  <2> QED BY <2>1, CutApart
<1>8. s.kind = t.kind
  BY <1>7, HeaderApart
<1>9. Payload(s) = Payload(t)
  <2> HIDE DEF Pad
  <2>1. \A q : Attested(q) => Cut(Payload(q), PayloadSize(q.kind), Pad(q), Rest(q))
    BY <1>2, <1>4, Cutting
  <2> HIDE DEF Rest
  <2> QED BY <1>7, <1>8, <2>1, CutApart
<1> QED BY <1>7, <1>8, <1>9
=============================================================================
