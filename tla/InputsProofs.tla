---------------------------- MODULE InputsProofs ----------------------------
(***************************************************************************)
(* The properties of Inputs for logs of every shape, blocks of any number  *)
(* of transactions, texts of every length, codes of every width and ranges *)
(* of every size.                                                          *)
(*                                                                         *)
(* Most of the module is about texts.  ByCharacter and ByShape are the     *)
(* induction, TextRecursion says that the recursive functions of Text are  *)
(* what they are defined to be.  EscapesSplit finds the escapes of a text  *)
(* that was cut in two, ReadsWhatWasWritten says that reading undoes       *)
(* marshalling, ReadBack what a text reads as that was marshalled and      *)
(* sanitised as JSON; TopicSent puts them together.                        *)
(***************************************************************************)
EXTENDS Inputs, WellFoundedInduction, SequenceTheorems, FiniteSetTheorems, TLAPS

(***************************************************************************)
(* Induction.  The least-number principle takes a set, not an operator: a  *)
(* proof by induction supposes a set of counterexamples and looks at the   *)
(* smallest.                                                               *)
(***************************************************************************)
LEMMA LeastNumber ==
    ASSUME NEW T \in SUBSET Nat, T # {}
    PROVE  \E n \in T : \A m \in T : n <= m
<1>1. OpToRel(<, Nat) = {p \in Nat \X Nat : p[1] < p[2]}
  BY DEF OpToRel
<1>2. PICK n \in T : \A m \in T : ~(<<m, n>> \in OpToRel(<, Nat))
  BY NatLessThanWellFounded, WFMin, Zenon
<1>3. \A m \in T : ~(m < n)
  BY <1>1, <1>2
<1> QED
  BY <1>3

\* Induction over a measure: a set that holds a value whenever it holds those of
\* smaller measure holds all of them.
LEMMA ByMeasure ==
    ASSUME NEW S, NEW m \in [S -> Nat], NEW T \in SUBSET S,
           \A s \in S : (\A r \in S : m[r] < m[s] => r \in T) => s \in T
    PROVE  T = S
<1> SUFFICES ASSUME T # S PROVE FALSE
  OBVIOUS
<1> DEFINE U == {m[s] : s \in S \ T}
<1>1. U \in SUBSET Nat /\ U # {}
  OBVIOUS
<1>2. PICK n \in U : \A k \in U : n <= k
  BY <1>1, LeastNumber
<1>3. PICK s \in S \ T : m[s] = n
  BY <1>2
<1>4. ASSUME NEW r \in S, m[r] < m[s], r \notin T PROVE FALSE
  <2>1. m[r] \in U /\ m[r] \in Nat /\ m[s] \in Nat
    BY <1>4
  <2> QED
    BY <1>2, <1>3, <1>4, <2>1
<1> QED
  BY <1>3, <1>4

(***************************************************************************)
(* Texts as sequences: a text is empty, or a character and a text.         *)
(***************************************************************************)
\* The characters the functions tell apart are different.
LEMMA Distinct ==
    /\ Bs \in Characters /\ "u" \in Characters /\ HexDigits \subseteq Characters
    /\ Bs \notin HexDigits /\ "u" \notin HexDigits /\ Bs # "u" /\ Bs # Quote
    /\ Zero \notin HexDigits /\ Control \notin HexDigits /\ Invalid \notin HexDigits
    /\ Quote \notin HexDigits /\ Quote # "u" /\ "<" \notin HexDigits
    /\ {Bs, Quote, "u", "<"} \cap {Zero, Control, Invalid} = {}
BY DEF Bs, Quote, Zero, Control, Invalid, HexDigits, Characters

LEMMA Parts ==
    ASSUME NEW C, NEW s \in Seq(C), NEW n \in 0..Len(s)
    PROVE  /\ After(s, n) \in Seq(C) /\ Len(After(s, n)) = Len(s) - n
           /\ \A i \in 1..(Len(s) - n) : After(s, n)[i] = s[n + i]
           /\ SubSeq(s, 1, n) \in Seq(C) /\ Len(SubSeq(s, 1, n)) = n
           /\ \A i \in 1..n : SubSeq(s, 1, n)[i] = s[i]
           /\ s = SubSeq(s, 1, n) \o After(s, n)
<1>1. Len(s) \in Nat /\ n \in Nat /\ n <= Len(s) /\ \A i \in 1..Len(s) : s[i] \in C
  BY LenProperties
<1>2. \A i \in (n + 1)..Len(s) : s[i] \in C
  BY <1>1
<1>3. \A i \in 1..n : s[i] \in C
  BY <1>1
<1>4. /\ After(s, n) \in Seq(C) /\ Len(After(s, n)) = Len(s) - n
      /\ \A i \in 1..(Len(s) - n) : After(s, n)[i] = s[n + i]
  <2>1. n + 1 \in Int /\ Len(s) \in Int
    BY <1>1
  <2>2. /\ SubSeq(s, n + 1, Len(s)) \in Seq(C)
        /\ Len(SubSeq(s, n + 1, Len(s))) = IF n + 1 <= Len(s) THEN Len(s) - (n + 1) + 1 ELSE 0
        /\ \A i \in 1..(Len(s) - (n + 1) + 1) :
               SubSeq(s, n + 1, Len(s))[i] = s[n + 1 + i - 1]
    BY <1>2, <2>1, SubSeqProperties
  <2>3. Len(s) - (n + 1) + 1 = Len(s) - n /\ \A i \in Nat : n + 1 + i - 1 = n + i
    BY <1>1
  <2>4. Len(After(s, n)) = Len(s) - n
    BY <1>1, <2>2 DEF After
  <2>5. ASSUME NEW i \in 1..(Len(s) - n) PROVE After(s, n)[i] = s[n + i]
    BY <1>1, <2>2, <2>3, <2>5 DEF After
  <2> QED
    BY <2>2, <2>4, <2>5 DEF After
<1>5. /\ SubSeq(s, 1, n) \in Seq(C) /\ Len(SubSeq(s, 1, n)) = n
      /\ \A i \in 1..n : SubSeq(s, 1, n)[i] = s[i]
  <2>1. /\ SubSeq(s, 1, n) \in Seq(C)
        /\ Len(SubSeq(s, 1, n)) = IF 1 <= n THEN n - 1 + 1 ELSE 0
        /\ \A i \in 1..(n - 1 + 1) : SubSeq(s, 1, n)[i] = s[1 + i - 1]
    BY <1>1, <1>3, SubSeqProperties
  <2> QED
    BY <1>1, <2>1
<1>6. s = SubSeq(s, 1, n) \o After(s, n)
  <2>1. SubSeq(s, 1, n) \o SubSeq(s, n + 1, Len(s)) = SubSeq(s, 1, Len(s))
    <3>1. 1 \in 1..(Len(s) + 1) /\ n \in (1 - 1)..Len(s) /\ Len(s) \in n..Len(s)
      BY <1>1
    <3> QED
      BY <3>1, ConcatAdjacentSubSeq
  <2> QED
    BY <2>1, SubSeqFull DEF After
<1> QED
  BY <1>4, <1>5, <1>6

LEMMA Joined ==
    ASSUME NEW C, NEW d \in Seq(C), NEW t \in Seq(C)
    PROVE  /\ d \o t \in Seq(C) /\ Len(d \o t) = Len(d) + Len(t)
           /\ Len(d) \in Nat /\ Len(t) \in Nat
           /\ \A i \in 1..Len(d) : (d \o t)[i] = d[i]
           /\ \A i \in 1..Len(t) : (d \o t)[Len(d) + i] = t[i]
           /\ SubSeq(d \o t, 1, Len(d)) = d
           /\ After(d \o t, Len(d)) = t
<1>1. /\ d \o t \in Seq(C) /\ Len(d \o t) = Len(d) + Len(t)
      /\ \A i \in 1..(Len(d) + Len(t)) :
             (d \o t)[i] = IF i <= Len(d) THEN d[i] ELSE t[i - Len(d)]
  BY ConcatProperties
<1>2. Len(d) \in Nat /\ Len(t) \in Nat
  BY LenProperties
<1>3. \A i \in 1..Len(d) : (d \o t)[i] = d[i]
  BY <1>1, <1>2
<1>4. \A i \in 1..Len(t) : (d \o t)[Len(d) + i] = t[i]
  BY <1>1, <1>2
<1>5. Len(d) \in 0..Len(d \o t) /\ Len(d \o t) - Len(d) = Len(t)
  BY <1>1, <1>2
<1>6. SubSeq(d \o t, 1, Len(d)) = d
  BY <1>1, <1>3, <1>5, Parts, SeqEqual
<1>7. After(d \o t, Len(d)) = t
  <2>1. /\ After(d \o t, Len(d)) \in Seq(C) /\ Len(After(d \o t, Len(d))) = Len(t)
        /\ \A i \in 1..Len(t) : After(d \o t, Len(d))[i] = (d \o t)[Len(d) + i]
    <3> DEFINE u == d \o t
    <3>1. u \in Seq(C) /\ Len(d) \in 0..Len(u) /\ Len(u) - Len(d) = Len(t)
      BY <1>1, <1>5
    <3> HIDE DEF u
    <3>2. /\ After(u, Len(d)) \in Seq(C) /\ Len(After(u, Len(d))) = Len(u) - Len(d)
          /\ \A i \in 1..(Len(u) - Len(d)) : After(u, Len(d))[i] = u[Len(d) + i]
      BY <3>1, Parts
    <3>3. \A i \in 1..Len(t) : After(u, Len(d))[i] = u[Len(d) + i]
      BY <3>1, <3>2
    <3> QED
      BY <3>1, <3>2, <3>3 DEF u
  <2> QED
    BY <1>4, <2>1, SeqEqual
<1> QED
  BY <1>1, <1>2, <1>3, <1>4, <1>6, <1>7

LEMMA Cons ==
    ASSUME NEW C, NEW c \in C, NEW t \in Seq(C)
    PROVE  /\ <<c>> \o t \in Seq(C) /\ <<c>> \o t # << >>
           /\ Len(<<c>> \o t) = 1 + Len(t) /\ Len(t) \in Nat
           /\ (<<c>> \o t)[1] = c /\ After(<<c>> \o t, 1) = t
           /\ \A i \in 1..Len(t) : (<<c>> \o t)[1 + i] = t[i]
<1>1. <<c>> \in Seq(C) /\ Len(<<c>>) = 1 /\ <<c>>[1] = c
  OBVIOUS
<1> DEFINE d == <<c>>
<1>2. d \in Seq(C) /\ Len(d) = 1 /\ d[1] = c
  BY <1>1
<1> HIDE DEF d
<1>3. /\ d \o t \in Seq(C) /\ Len(d \o t) = Len(d) + Len(t) /\ Len(t) \in Nat
      /\ \A i \in 1..Len(d) : (d \o t)[i] = d[i]
      /\ \A i \in 1..Len(t) : (d \o t)[Len(d) + i] = t[i]
      /\ After(d \o t, Len(d)) = t
  BY <1>2, Joined
<1>4. d \o t # << >>
  BY <1>2, <1>3, EmptySeq
<1>5. (d \o t)[1] = c
  BY <1>2, <1>3
<1>6. After(d \o t, 1) = t /\ Len(d \o t) = 1 + Len(t)
  BY <1>2, <1>3
<1>7. \A i \in 1..Len(t) : (d \o t)[1 + i] = t[i]
  BY <1>2, <1>3
<1> QED
  BY <1>3, <1>4, <1>5, <1>6, <1>7 DEF d

LEMMA Uncons ==
    ASSUME NEW C, NEW s \in Seq(C), s # << >>
    PROVE  /\ s[1] \in C /\ After(s, 1) \in Seq(C) /\ Len(After(s, 1)) = Len(s) - 1
           /\ Len(s) \in Nat \ {0} /\ s = <<s[1]>> \o After(s, 1)
<1>1. Len(s) \in Nat \ {0}
  BY EmptySeq
<1>2. 1 \in 0..Len(s) /\ 1 \in 1..Len(s) /\ 1 \in 1..1
  BY <1>1
<1>3. s[1] \in C
  BY <1>2, ElementOfSeq
<1>4. SubSeq(s, 1, 1) = <<s[1]>>
  <2>1. SubSeq(s, 1, 1) \in Seq(C) /\ Len(SubSeq(s, 1, 1)) = 1 /\ SubSeq(s, 1, 1)[1] = s[1]
    BY <1>2, Parts
  <2>2. <<s[1]>> \in Seq(C) /\ Len(<<s[1]>>) = 1 /\ <<s[1]>>[1] = s[1]
    BY <1>3
  <2>3. \A i \in 1..1 : i = 1
    OBVIOUS
  <2> QED
    BY <2>1, <2>2, <2>3, SeqEqual
<1> QED
  BY <1>1, <1>2, <1>3, <1>4, Parts

\* Induction over the characters of a text.
LEMMA ByCharacter ==
    ASSUME NEW C, NEW T \in SUBSET Seq(C), << >> \in T,
           \A c \in C, t \in T : <<c>> \o t \in T
    PROVE  T = Seq(C)
<1> DEFINE S == Seq(C)
           m == [s \in S |-> Len(s)]
<1>1. m \in [S -> Nat] /\ T \in SUBSET S
  BY LenProperties
<1>2. ASSUME NEW s \in S, \A r \in S : m[r] < m[s] => r \in T PROVE s \in T
  <2> SUFFICES ASSUME s # << >> PROVE s \in T
    OBVIOUS
  <2>1. /\ s[1] \in C /\ After(s, 1) \in Seq(C) /\ Len(After(s, 1)) = Len(s) - 1
        /\ Len(s) \in Nat \ {0} /\ s = <<s[1]>> \o After(s, 1)
    BY Uncons
  <2>2. After(s, 1) \in T
    BY <1>2, <2>1
  <2> QED
    BY <2>1, <2>2
<1> HIDE DEF m, S
<1>3. T = S
  BY <1>1, <1>2, ByMeasure
<1> QED
  BY <1>3 DEF S

(***************************************************************************)
(* The recursive functions on texts are those their equations describe.    *)
(***************************************************************************)
\* A function on texts that recurs on shorter ones exists.  D is its body, as a
\* function of the function and the text.
LEMMA TextRecursion ==
    ASSUME NEW D \in [[Texts -> Texts] \X Texts -> Texts],
           \A g, h \in [Texts -> Texts], s \in Texts :
               (\A r \in Texts : Len(r) < Len(s) => g[r] = h[r]) => D[<<g, s>>] = D[<<h, s>>]
    PROVE  \E F \in [Texts -> Texts] : \A s \in Texts : F[s] = D[<<F, s>>]
<1> DEFINE S == Texts
           v == << >>
           m == [s \in S |-> Len(s)]
<1> v \in S /\ m \in [S -> Nat] /\ D \in [[S -> S] \X S -> S]
  BY LenProperties DEF Texts
<1>0. \A g, h \in [S -> S], s \in S :
        (\A r \in S : m[r] < m[s] => g[r] = h[r]) => D[<<g, s>>] = D[<<h, s>>]
  <2> SUFFICES ASSUME NEW g \in [S -> S], NEW h \in [S -> S], NEW s \in S,
                      \A r \in S : m[r] < m[s] => g[r] = h[r]
               PROVE  D[<<g, s>>] = D[<<h, s>>]
    OBVIOUS
  <2>1. \A r \in Texts : Len(r) < Len(s) => g[r] = h[r]
    OBVIOUS
  <2> QED
    BY <2>1
<1> HIDE DEF S, v, m
<1> DEFINE Solves(g, n) == \A s \in S : m[s] < n => g[s] = D[<<g, s>>]
<1>1. ASSUME NEW n \in Nat, NEW g \in [S -> S], NEW h \in [S -> S],
             Solves(g, n), Solves(h, n)
      PROVE  \A s \in S : m[s] < n => g[s] = h[s]
  <2> SUFFICES ASSUME NEW q \in S, m[q] < n, g[q] # h[q] PROVE FALSE
    OBVIOUS
  <2> DEFINE R == {r \in S : m[r] < n /\ g[r] # h[r]}
             T == {m[r] : r \in R}
  <2>1. T \in SUBSET Nat /\ T # {}
    OBVIOUS
  <2>2. PICK k \in T : \A l \in T : k <= l
    <3> HIDE DEF T
    <3> QED
      BY <2>1, LeastNumber
  <2>3. PICK s \in R : m[s] = k
    BY <2>2
  <2>4. ASSUME NEW r \in S, m[r] < m[s] PROVE g[r] = h[r]
    <3>1. m[r] \in Nat /\ m[s] \in Nat /\ m[s] < n /\ n \in Nat
      BY <2>3
    <3>2. m[r] < n /\ ~(m[s] <= m[r])
      BY <2>4, <3>1
    <3>3. m[r] \notin T
      BY <2>2, <2>3, <3>2
    <3> QED
      BY <3>2, <3>3
  <2>5. D[<<g, s>>] = D[<<h, s>>]
    BY <1>0, <2>3, <2>4
  <2> QED
    BY <1>1, <2>3, <2>5
<1>2. ASSUME NEW n \in Nat PROVE \E g \in [S -> S] : Solves(g, n)
  <2> DEFINE T == {k \in Nat : ~\E g \in [S -> S] : Solves(g, k)}
  <2> SUFFICES ASSUME T # {} PROVE FALSE
    OBVIOUS
  <2>1. PICK k \in T : \A l \in T : k <= l
    BY LeastNumber
  <2>2. k # 0
    <3>1. [s \in S |-> v] \in [S -> S]
      OBVIOUS
    <3>2. Solves([s \in S |-> v], 0)
      OBVIOUS
    <3> QED
      BY <2>1, <3>1, <3>2
  <2>3. k - 1 \in Nat \ T
    <3>1. k \in Nat /\ k - 1 \in Nat /\ ~(k <= k - 1)
      BY <2>2
    <3> HIDE DEF T
    <3> QED
      BY <2>1, <3>1
  <2>4. PICK g \in [S -> S] : Solves(g, k - 1)
    BY <2>3
  <2> DEFINE h == [s \in S |-> IF m[s] = k - 1 THEN D[<<g, s>>] ELSE g[s]]
  <2>5. h \in [S -> S]
    OBVIOUS
  <2>6. ASSUME NEW s \in S, m[s] < k PROVE h[s] = D[<<h, s>>]
    <3>0. m[s] \in Nat /\ k \in Nat /\ m[s] <= k - 1
      BY <2>6
    <3>1. ASSUME NEW r \in S, m[r] < m[s] PROVE h[r] = g[r]
      BY <3>0, <3>1
    <3>2. D[<<h, s>>] = D[<<g, s>>]
      BY <1>0, <2>5, <3>1
    <3>3. CASE m[s] = k - 1
      BY <3>2, <3>3
    <3>4. CASE m[s] < k - 1
      <4>1. h[s] = g[s]
        BY <3>0, <3>4
      <4>2. g[s] = D[<<g, s>>]
        BY <2>4, <3>4
      <4> QED
        BY <3>2, <4>1, <4>2
    <3>5. m[s] = k - 1 \/ m[s] < k - 1
      BY <3>0
    <3> QED
      BY <3>3, <3>4, <3>5
  <2>7. Solves(h, k)
    BY <2>6
  <2> QED
    BY <2>1, <2>5, <2>7
<1> DEFINE G == [n \in Nat |-> CHOOSE g \in [S -> S] : Solves(g, n)]
<1>3. \A n \in Nat : G[n] \in [S -> S] /\ Solves(G[n], n)
  BY <1>2
<1> HIDE DEF G
<1> DEFINE F == [s \in S |-> G[m[s] + 1][s]]
<1>4. F \in [S -> S]
  <2>1. \A s \in S : m[s] + 1 \in Nat
    OBVIOUS
  <2> QED
    BY <1>3, <2>1
<1>5. ASSUME NEW s \in S PROVE F[s] = D[<<F, s>>]
  <2> DEFINE n == m[s] + 1
  <2>0. n \in Nat /\ m[s] \in Nat /\ m[s] < n
    OBVIOUS
  <2>1. ASSUME NEW r \in S, m[r] < m[s] PROVE F[r] = G[n][r]
    <3>0. m[r] \in Nat /\ m[r] + 1 \in Nat /\ m[r] < m[r] + 1 /\ m[r] + 1 <= n
      BY <2>0, <2>1
    <3>1. Solves(G[n], m[r] + 1)
      <4> SUFFICES ASSUME NEW q \in S, m[q] < m[r] + 1 PROVE G[n][q] = D[<<G[n], q>>]
        OBVIOUS
      <4>1. m[q] \in Nat /\ m[q] < n
        BY <3>0
      <4> QED
        BY <1>3, <2>0, <4>1
    <3>2. Solves(G[m[r] + 1], m[r] + 1) /\ G[m[r] + 1] \in [S -> S] /\ G[n] \in [S -> S]
      BY <1>3, <2>0, <3>0
    <3>3. G[m[r] + 1][r] = G[n][r]
      BY <1>1, <3>0, <3>1, <3>2
    <3> QED
      BY <3>3
  <2>2. G[n] \in [S -> S] /\ G[n][s] = D[<<G[n], s>>]
    BY <1>3, <2>0
  <2>3. D[<<F, s>>] = D[<<G[n], s>>]
    BY <1>0, <1>4, <2>1, <2>2
  <2> QED
    BY <2>2, <2>3
<1> QED
  BY <1>4, <1>5 DEF S

\* Each, character by character.
LEMMA EachRecurs ==
    ASSUME NEW f \in [Characters -> Texts]
    PROVE  /\ Each(f, << >>) = << >>
           /\ \A c \in Characters, t \in Texts : Each(f, <<c>> \o t) = f[c] \o Each(f, t)
<1> DEFINE Body(F, t) == IF t = << >> THEN << >> ELSE f[t[1]] \o F[After(t, 1)]
           P(F) == F = [t \in Texts |-> Body(F, t)]
           D == [p \in [Texts -> Texts] \X Texts |-> Body(p[1], p[2])]
<1>1. ASSUME NEW s \in Texts, s # << >>
      PROVE  /\ f[s[1]] \in Texts /\ After(s, 1) \in Texts /\ Len(After(s, 1)) < Len(s)
  <2>1. s[1] \in Characters /\ After(s, 1) \in Texts /\ Len(After(s, 1)) = Len(s) - 1
        /\ Len(s) \in Nat
    BY <1>1, Uncons DEF Texts
  <2> QED
    BY <2>1
<1>2. \A g \in [Texts -> Texts], s \in Texts : Body(g, s) \in Texts
  <2> SUFFICES ASSUME NEW g \in [Texts -> Texts], NEW s \in Texts, s # << >>
               PROVE  f[s[1]] \o g[After(s, 1)] \in Texts
    BY <1>1 DEF Texts
  <2>1. f[s[1]] \in Texts /\ g[After(s, 1)] \in Texts
    BY <1>1
  <2> QED
    BY <2>1, ConcatProperties DEF Texts
<1>3. D \in [[Texts -> Texts] \X Texts -> Texts]
  BY <1>2
<1>4. ASSUME NEW g \in [Texts -> Texts], NEW h \in [Texts -> Texts], NEW s \in Texts,
             \A r \in Texts : Len(r) < Len(s) => g[r] = h[r]
      PROVE  D[<<g, s>>] = D[<<h, s>>]
  <2>1. Body(g, s) = Body(h, s)
    BY <1>1, <1>4
  <2> QED
    BY <2>1
<1>5. PICK F \in [Texts -> Texts] : \A s \in Texts : F[s] = D[<<F, s>>]
  <2> HIDE DEF D
  <2> QED
    BY <1>3, <1>4, TextRecursion
<1>6. \E G : P(G)
  <2>1. \A s \in Texts : F[s] = Body(F, s)
    BY <1>5
  <2>2. F = [t \in Texts |-> Body(F, t)]
    BY <2>1
  <2> QED
    BY <2>2
<1> DEFINE G == CHOOSE fn : P(fn)
<1>7. P(G)
  BY <1>6
<1>8. \A s : Each(f, s) = G[s]
  BY DEF Each
<1> HIDE DEF G
<1>9. \A s \in Texts : Each(f, s) = Body(G, s)
  BY <1>7, <1>8
<1>10. Each(f, << >>) = << >>
  <2>1. << >> \in Texts
    BY DEF Texts
  <2> QED
    BY <1>9, <2>1
<1>11. ASSUME NEW c \in Characters, NEW t \in Texts PROVE Each(f, <<c>> \o t) = f[c] \o Each(f, t)
  <2>1. /\ <<c>> \o t \in Texts /\ <<c>> \o t # << >>
        /\ (<<c>> \o t)[1] = c /\ After(<<c>> \o t, 1) = t
    BY Cons DEF Texts
  <2> DEFINE u == <<c>> \o t
  <2> HIDE DEF u
  <2>2. u \in Texts /\ u # << >> /\ u[1] = c /\ After(u, 1) = t
    BY <2>1 DEF u
  <2>3. Each(f, u) = f[c] \o G[t]
    BY <1>9, <2>2
  <2> QED
    BY <1>8, <2>3 DEF u
<1> QED
  BY <1>10, <1>11

LEMMA EachIn ==
    ASSUME NEW C \in SUBSET Characters, NEW V \in SUBSET Characters,
           NEW f \in [Characters -> Texts], \A c \in C : f[c] \in Seq(V), NEW s \in Seq(C)
    PROVE  Each(f, s) \in Seq(V)
<1> DEFINE T == {t \in Seq(C) : Each(f, t) \in Seq(V)}
<1>1. << >> \in T
  <2>1. << >> \in Seq(C) /\ << >> \in Seq(V)
    OBVIOUS
  <2>2. Each(f, << >>) = << >>
    BY EachRecurs
  <2> QED
    BY <2>1, <2>2
<1>2. ASSUME NEW c \in C, NEW t \in T PROVE <<c>> \o t \in T
  <2>1. t \in Texts /\ c \in Characters /\ <<c>> \o t \in Seq(C)
    BY SeqMonotonic, Cons DEF Texts
  <2>2. f[c] \in Seq(V) /\ Each(f, t) \in Seq(V)
    OBVIOUS
  <2>3. f[c] \o Each(f, t) \in Seq(V)
    BY <2>2, ConcatProperties
  <2> QED
    BY <2>1, <2>3, EachRecurs
<1>3. T \in SUBSET Seq(C)
  OBVIOUS
<1> HIDE DEF T
<1>4. T = Seq(C)
  BY <1>1, <1>2, <1>3, ByCharacter
<1> QED
  BY <1>4 DEF T

(***************************************************************************)
(* A text is empty, begins with a \u, with or without a code, or with      *)
(* another character.                                                      *)
(***************************************************************************)
\* \u and what follows it.
Escaped(t) == <<Bs>> \o (<<"u">> \o t)

\* Does the text begin with n hex digits?
HexAhead(t, n) == n <= Len(t) /\ \A k \in 1..n : t[k] \in HexDigits

Starts(t, c) == t # << >> /\ t[1] = c

LEMMA CodesAreTexts ==
    ASSUME NEW d \in Codes
    PROVE  d \in Seq(HexDigits) /\ d \in Texts /\ Len(d) = Width
           /\ \A k \in 1..Width : d[k] \in HexDigits
<1>1. d \in [1..Width -> HexDigits] /\ Width \in Nat
  BY WidthAssumption DEF Codes
<1>2. d \in Seq(HexDigits)
  BY <1>1, SeqDef
<1>3. Len(d) = Width
  <2>1. DOMAIN d = 1..Len(d) /\ Len(d) \in Nat /\ DOMAIN d = 1..Width
    BY <1>1, <1>2, LenProperties
  <2> QED
    BY <1>1, <2>1
<1>4. d \in Texts
  BY <1>2, SeqMonotonic, Distinct DEF Texts
<1> QED
  BY <1>1, <1>2, <1>3, <1>4

LEMMA Single == \A C : \A c \in C : <<c>> \in Seq(C)
OBVIOUS

LEMMA Pair ==
    ASSUME NEW C, NEW a \in C, NEW b \in C
    PROVE  /\ <<a>> \in Seq(C) /\ <<b>> \in Seq(C) /\ <<a, b>> \in Seq(C)
           /\ Len(<<a, b>>) = 2 /\ <<a>> \o <<b>> = <<a, b>>
<1>1. /\ <<a>> \in Seq(C) /\ <<b>> \in Seq(C) /\ <<a, b>> \in Seq(C)
      /\ Len(<<a, b>>) = 2 /\ Len(<<b>>) = 1 /\ <<b>>[1] = b
      /\ <<a, b>>[1] = a /\ <<a, b>>[2] = b
  OBVIOUS
<1>2. /\ <<a>> \o <<b>> \in Seq(C) /\ Len(<<a>> \o <<b>>) = 1 + Len(<<b>>)
      /\ (<<a>> \o <<b>>)[1] = a /\ \A i \in 1..Len(<<b>>) : (<<a>> \o <<b>>)[1 + i] = <<b>>[i]
  BY <1>1, Cons
<1> DEFINE s == <<a>> \o <<b>>
           t == <<a, b>>
           r == <<b>>
<1>3. /\ s \in Seq(C) /\ Len(s) = 1 + Len(r) /\ s[1] = a /\ Len(r) = 1 /\ r[1] = b
      /\ \A i \in 1..Len(r) : s[1 + i] = r[i]
      /\ t \in Seq(C) /\ Len(t) = 2 /\ t[1] = a /\ t[2] = b
  BY <1>1, <1>2
<1> HIDE DEF s, t, r
<1>4. s[2] = b
  BY <1>3
<1>5. \A i \in 1..2 : i = 1 \/ i = 2
  OBVIOUS
<1>6. s = t
  BY <1>3, <1>4, <1>5, SeqEqual
<1> QED
  BY <1>1, <1>6 DEF s, t

LEMMA EscapedAs ==
    ASSUME NEW C, Bs \in C, "u" \in C, NEW t \in Seq(C)
    PROVE  /\ Escaped(t) \in Seq(C) /\ Escaped(t) # << >> /\ Escaped(t) = <<Bs, "u">> \o t
           /\ Len(Escaped(t)) = 2 + Len(t) /\ Len(t) \in Nat
           /\ Escaped(t)[1] = Bs /\ Escaped(t)[2] = "u"
           /\ \A i \in 1..Len(t) : Escaped(t)[2 + i] = t[i]
<1> DEFINE r == <<"u">> \o t
<1>1. /\ r \in Seq(C) /\ Len(r) = 1 + Len(t) /\ Len(t) \in Nat /\ r[1] = "u"
      /\ \A i \in 1..Len(t) : r[1 + i] = t[i]
  BY Cons
<1>2. Escaped(t) = <<Bs, "u">> \o t
  <2>1. <<Bs>> \in Seq(C) /\ <<"u">> \in Seq(C) /\ <<Bs>> \o <<"u">> = <<Bs, "u">>
    BY Pair
  <2> QED
    BY <2>1, ConcatAssociative DEF Escaped
<1> HIDE DEF r
<1>3. /\ <<Bs>> \o r \in Seq(C) /\ <<Bs>> \o r # << >> /\ Len(<<Bs>> \o r) = 1 + Len(r)
      /\ (<<Bs>> \o r)[1] = Bs /\ \A i \in 1..Len(r) : (<<Bs>> \o r)[1 + i] = r[i]
  BY <1>1, Cons
<1>4. Escaped(t) = <<Bs>> \o r
  BY DEF Escaped, r
<1>5. Escaped(t)[2] = "u"
  BY <1>1, <1>3, <1>4
<1>6. ASSUME NEW i \in 1..Len(t) PROVE Escaped(t)[2 + i] = t[i]
  <2>1. 1 + i \in 1..Len(r) /\ 1 + (1 + i) = 2 + i
    BY <1>1
  <2> QED
    BY <1>1, <1>3, <1>4, <2>1
<1> QED
  BY <1>1, <1>2, <1>3, <1>4, <1>5, <1>6

LEMMA EscapedReads ==
    ASSUME NEW t \in Texts
    PROVE  /\ EscapeAt(Escaped(t), 1)
           /\ DigitsAt(Escaped(t), 1) <=> HexAhead(t, Width)
           /\ After(Escaped(t), 2) = t
<1>1. /\ Escaped(t) \in Texts /\ Escaped(t) = <<Bs, "u">> \o t
      /\ Len(Escaped(t)) = 2 + Len(t) /\ Len(t) \in Nat
      /\ Escaped(t)[1] = Bs /\ Escaped(t)[2] = "u"
      /\ \A i \in 1..Len(t) : Escaped(t)[2 + i] = t[i]
  BY EscapedAs, Distinct DEF Texts
<1>2. EscapeAt(Escaped(t), 1)
  BY <1>1 DEF EscapeAt
<1>3. DigitsAt(Escaped(t), 1) <=> HexAhead(t, Width)
  <2>0. Width \in Nat
    BY WidthAssumption
  <2>1. ASSUME DigitsAt(Escaped(t), 1) PROVE HexAhead(t, Width)
    <3>1. Width <= Len(t)
      BY <1>1, <2>0, <2>1 DEF DigitsAt
    <3>2. ASSUME NEW k \in 1..Width PROVE t[k] \in HexDigits
      <4>1. 2 + k \in (1 + 2)..(1 + 1 + Width) /\ k \in 1..Len(t)
        BY <1>1, <2>0, <3>1
      <4> QED
        BY <1>1, <2>1, <4>1 DEF DigitsAt
    <3> QED
      BY <3>1, <3>2 DEF HexAhead
  <2>2. ASSUME HexAhead(t, Width) PROVE DigitsAt(Escaped(t), 1)
    <3>1. Width <= Len(t)
      BY <2>2 DEF HexAhead
    <3>2. ASSUME NEW k \in (1 + 2)..(1 + 1 + Width) PROVE Escaped(t)[k] \in HexDigits
      <4>1. k - 2 \in 1..Width /\ k - 2 \in 1..Len(t) /\ 2 + (k - 2) = k
        BY <1>1, <2>0, <3>1
      <4> QED
        BY <1>1, <2>2, <4>1 DEF HexAhead
    <3> QED
      BY <1>1, <2>0, <3>1, <3>2 DEF DigitsAt
  <2> QED
    BY <2>1, <2>2
<1>4. After(Escaped(t), 2) = t
  <2> DEFINE e == <<Bs, "u">>
  <2>1. e \in Seq(Characters) /\ Len(e) = 2
    BY Distinct, Pair
  <2> HIDE DEF e
  <2>2. After(e \o t, Len(e)) = t
    BY <2>1, Joined DEF Texts
  <2> QED
    BY <1>1, <2>1, <2>2 DEF e
<1> QED
  BY <1>2, <1>3, <1>4

LEMMA CodeReads ==
    ASSUME NEW d \in Codes, NEW t \in Texts
    PROVE  /\ d \o t \in Texts /\ HexAhead(d \o t, Width)
           /\ CodeAt(Escaped(d \o t), 1) = d
           /\ After(Escaped(d \o t), 2 + Width) = t
<1>0. Width \in Nat
  BY WidthAssumption
<1>1. d \in Texts /\ Len(d) = Width /\ \A k \in 1..Width : d[k] \in HexDigits
  BY CodesAreTexts
<1>2. /\ d \o t \in Texts /\ Len(d \o t) = Width + Len(t) /\ Len(t) \in Nat
      /\ \A i \in 1..Width : (d \o t)[i] = d[i]
  BY <1>1, Joined DEF Texts
<1>3. HexAhead(d \o t, Width)
  BY <1>0, <1>1, <1>2 DEF HexAhead
<1>4. /\ Escaped(d \o t) \in Texts /\ Escaped(d \o t) = <<Bs, "u">> \o (d \o t)
      /\ Len(Escaped(d \o t)) = 2 + (Width + Len(t))
      /\ \A i \in 1..(Width + Len(t)) : Escaped(d \o t)[2 + i] = (d \o t)[i]
  <2> DEFINE q == d \o t
  <2>1. q \in Texts /\ Len(q) = Width + Len(t)
    BY <1>2
  <2> HIDE DEF q
  <2>2. /\ Escaped(q) \in Texts /\ Escaped(q) = <<Bs, "u">> \o q
        /\ Len(Escaped(q)) = 2 + Len(q)
        /\ \A i \in 1..Len(q) : Escaped(q)[2 + i] = q[i]
    BY <2>1, EscapedAs, Distinct DEF Texts
  <2> QED
    BY <2>1, <2>2 DEF q
<1>5. CodeAt(Escaped(d \o t), 1) = d
  <2> DEFINE s == Escaped(d \o t)
  <2>1. ASSUME NEW i \in 1..Width PROVE s[2 + i] = d[i]
    BY <1>0, <1>2, <1>4
  <2>2. \A j \in (1 + 2)..(1 + 1 + Width) : s[j] \in Characters
    <3>1. s \in Seq(Characters) /\ \A j \in (1 + 2)..(1 + 1 + Width) : j \in 1..Len(s)
      BY <1>0, <1>2, <1>4 DEF Texts
    <3> QED
      BY <3>1, ElementOfSeq
  <2> HIDE DEF s
  <2> DEFINE p == 1 + 2
             q == 1 + 1 + Width
  <2>3. /\ p \in Int /\ q \in Int /\ p <= q /\ q - p + 1 = Width
        /\ \A i \in 1..Width : p + i - 1 = 2 + i
        /\ \A j \in p..q : s[j] \in Characters
    BY <1>0, <2>2, WidthAssumption
  <2> HIDE DEF p, q
  <2>4. /\ SubSeq(s, p, q) \in Seq(Characters)
        /\ Len(SubSeq(s, p, q)) = IF p <= q THEN q - p + 1 ELSE 0
        /\ \A i \in 1..(q - p + 1) : SubSeq(s, p, q)[i] = s[p + i - 1]
    BY <2>3, SubSeqProperties
  <2>5. Len(SubSeq(s, p, q)) = Width
    BY <2>3, <2>4
  <2>6. \A i \in 1..Width : SubSeq(s, p, q)[i] = d[i]
    BY <2>1, <2>3, <2>4
  <2>7. SubSeq(s, p, q) = d
    BY <1>1, <2>4, <2>5, <2>6, SeqEqual DEF Texts
  <2> QED
    BY <2>7 DEF s, p, q, CodeAt
<1>6. After(Escaped(d \o t), 2 + Width) = t
  <2> DEFINE e == <<Bs, "u">>
  <2>2. e \in Seq(Characters) /\ Len(e) = 2 /\ d \in Seq(Characters) /\ Len(d) = Width
    BY <1>1, Distinct, Pair DEF Texts
  <2> HIDE DEF e
  <2>3. e \o d \in Seq(Characters) /\ Len(e \o d) = 2 + Width
    <3>1. e \o d \in Seq(Characters) /\ Len(e \o d) = Len(e) + Len(d)
      BY <2>2, ConcatProperties, Zenon
    <3> QED
      BY <2>2, <3>1
  <2>4. (e \o d) \o t = e \o (d \o t)
    BY <1>1, <2>2, ConcatAssociative DEF Texts
  <2>5. After((e \o d) \o t, 2 + Width) = t
    <3> DEFINE b == e \o d
    <3>1. b \in Seq(Characters) /\ Len(b) = 2 + Width
      BY <2>3
    <3> HIDE DEF b
    <3>2. After(b \o t, 2 + Width) = t
      BY <3>1, Joined DEF Texts
    <3> QED
      BY <3>2 DEF b
  <2> QED
    BY <1>4, <2>4, <2>5 DEF e
<1> QED
  BY <1>2, <1>3, <1>5, <1>6

LEMMA Unescaped ==
    ASSUME NEW C, NEW s \in Seq(C), EscapeAt(s, 1)
    PROVE  /\ After(s, 2) \in Seq(C) /\ s = Escaped(After(s, 2)) /\ Bs \in C /\ "u" \in C
           /\ Len(s) \in Nat /\ 2 <= Len(s) /\ Len(After(s, 2)) = Len(s) - 2
<1>1. Len(s) \in Nat /\ 2 <= Len(s) /\ s[1] = Bs /\ s[2] = "u"
  BY LenProperties DEF EscapeAt
<1>2. s[1] \in C /\ s[2] \in C
  <2>1. 1 \in 1..Len(s) /\ 2 \in 1..Len(s)
    BY <1>1
  <2> QED
    BY <2>1, ElementOfSeq
<1>3. /\ After(s, 2) \in Seq(C) /\ Len(After(s, 2)) = Len(s) - 2
      /\ SubSeq(s, 1, 2) \in Seq(C) /\ Len(SubSeq(s, 1, 2)) = 2
      /\ \A i \in 1..2 : SubSeq(s, 1, 2)[i] = s[i]
      /\ s = SubSeq(s, 1, 2) \o After(s, 2)
  BY <1>1, Parts
<1>4. SubSeq(s, 1, 2) = <<Bs, "u">>
  <2>1. /\ <<Bs, "u">> \in Seq(C) /\ Len(<<Bs, "u">>) = 2
        /\ <<Bs, "u">>[1] = Bs /\ <<Bs, "u">>[2] = "u"
    BY <1>1, <1>2
  <2>2. \A i \in 1..2 : i = 1 \/ i = 2
    OBVIOUS
  <2> DEFINE e == <<Bs, "u">>
  <2>3. e \in Seq(C) /\ Len(e) = 2 /\ e[1] = Bs /\ e[2] = "u"
    BY <2>1
  <2> HIDE DEF e
  <2>4. \A i \in 1..2 : SubSeq(s, 1, 2)[i] = e[i]
    BY <1>1, <1>3, <2>2, <2>3
  <2>5. SubSeq(s, 1, 2) = e
    BY <1>3, <2>3, <2>4, SeqEqual
  <2> QED
    BY <2>5 DEF e
<1>5. Escaped(After(s, 2)) = <<Bs, "u">> \o After(s, 2)
  BY <1>1, <1>2, <1>3, EscapedAs
<1> QED
  BY <1>1, <1>2, <1>3, <1>4, <1>5

LEMMA Uncoded ==
    ASSUME NEW C, NEW t \in Seq(C), HexAhead(t, Width)
    PROVE  /\ After(t, Width) \in Seq(C) /\ Len(After(t, Width)) = Len(t) - Width
           /\ Len(t) \in Nat /\ Width <= Len(t)
           /\ SubSeq(t, 1, Width) \in Codes /\ t = SubSeq(t, 1, Width) \o After(t, Width)
<1>1. Width \in Nat /\ Len(t) \in Nat /\ Width <= Len(t)
  BY WidthAssumption, LenProperties DEF HexAhead
<1>2. /\ After(t, Width) \in Seq(C) /\ Len(After(t, Width)) = Len(t) - Width
      /\ SubSeq(t, 1, Width) \in Seq(C) /\ Len(SubSeq(t, 1, Width)) = Width
      /\ \A i \in 1..Width : SubSeq(t, 1, Width)[i] = t[i]
      /\ t = SubSeq(t, 1, Width) \o After(t, Width)
  BY <1>1, Parts
<1>3. SubSeq(t, 1, Width) \in Codes
  <2>1. SubSeq(t, 1, Width) \in [1..Width -> C]
    BY <1>2, LenProperties
  <2>2. \A i \in 1..Width : SubSeq(t, 1, Width)[i] \in HexDigits
    BY <1>2 DEF HexAhead
  <2> QED
    BY <2>1, <2>2 DEF Codes
<1> QED
  BY <1>1, <1>2, <1>3

LEMMA ConsReads ==
    ASSUME NEW c \in Characters, NEW t \in Texts
    PROVE  EscapeAt(<<c>> \o t, 1) <=> c = Bs /\ Starts(t, "u")
<1>1. /\ Len(<<c>> \o t) = 1 + Len(t) /\ Len(t) \in Nat /\ (<<c>> \o t)[1] = c
      /\ \A i \in 1..Len(t) : (<<c>> \o t)[1 + i] = t[i]
  BY Cons DEF Texts
<1>2. t # << >> <=> Len(t) > 0
  BY <1>1, EmptySeq DEF Texts
<1>3. t # << >> => (<<c>> \o t)[2] = t[1]
  BY <1>1, <1>2
<1> QED
  BY <1>1, <1>2, <1>3 DEF EscapeAt, Starts

\* Induction over the shape of a text.
LEMMA ByShape ==
    ASSUME NEW C \in SUBSET Characters, NEW T \in SUBSET Seq(C), << >> \in T,
           \A c \in C, t \in T : ~(c = Bs /\ Starts(t, "u")) => <<c>> \o t \in T,
           \A t \in T : ~HexAhead(t, Width) /\ Escaped(t) \in Seq(C) => Escaped(t) \in T,
           \A d \in Codes, t \in T : Escaped(d \o t) \in Seq(C) => Escaped(d \o t) \in T
    PROVE  T = Seq(C)
<1> DEFINE S == Seq(C)
           m == [s \in S |-> Len(s)]
<1>1. m \in [S -> Nat] /\ T \in SUBSET S
  BY LenProperties
<1>2. ASSUME NEW s \in S, \A r \in S : m[r] < m[s] => r \in T PROVE s \in T
  <2> SUFFICES ASSUME s # << >> PROVE s \in T
    OBVIOUS
  <2>1. /\ s[1] \in C /\ After(s, 1) \in Seq(C) /\ Len(After(s, 1)) = Len(s) - 1
        /\ Len(s) \in Nat \ {0} /\ s = <<s[1]>> \o After(s, 1)
    BY Uncons
  <2>2. CASE ~EscapeAt(s, 1)
    <3>1. After(s, 1) \in T
      BY <1>2, <2>1
    <3>2. s[1] \in Characters /\ After(s, 1) \in Texts
      BY <2>1, SeqMonotonic DEF Texts
    <3>3. ~(s[1] = Bs /\ Starts(After(s, 1), "u"))
      BY <2>1, <2>2, <3>2, ConsReads
    <3> QED
      BY <2>1, <3>1, <3>3
  <2>3. CASE EscapeAt(s, 1)
    <3> DEFINE t == After(s, 2)
    <3>1. /\ t \in S /\ s = Escaped(t)
          /\ Len(s) \in Nat /\ 2 <= Len(s) /\ Len(t) = Len(s) - 2
      BY <2>3, Unescaped
    <3> HIDE DEF t
    <3>2. CASE ~HexAhead(t, Width)
      <4>1. t \in T
        BY <1>2, <3>1
      <4> QED
        BY <3>1, <3>2, <4>1
    <3>3. CASE HexAhead(t, Width)
      <4> DEFINE d == SubSeq(t, 1, Width)
                 r == After(t, Width)
      <4>1. /\ r \in S /\ Len(r) = Len(t) - Width /\ Len(t) \in Nat /\ Width <= Len(t)
            /\ d \in Codes /\ t = d \o r
        BY <3>1, <3>3, Uncoded
      <4> HIDE DEF d, r
      <4>2. r \in T
        <5>1. Width \in Nat \ {0}
          BY WidthAssumption
        <5>2. Len(r) < Len(s)
          BY <3>1, <4>1, <5>1
        <5> QED
          BY <1>2, <4>1, <5>2
      <4> QED
        BY <3>1, <4>1, <4>2
    <3> QED
      BY <3>2, <3>3
  <2> QED
    BY <2>2, <2>3
<1> HIDE DEF m, S
<1>3. T = S
  BY <1>1, <1>2, ByMeasure
<1> QED
  BY <1>3 DEF S

\* What the functions recur on is shorter.
LEMMA Shorter ==
    ASSUME NEW s \in Texts
    PROVE  /\ s # << >> =>
                  s[1] \in Characters /\ After(s, 1) \in Texts /\ Len(After(s, 1)) < Len(s)
           /\ 1 < Len(s) =>
                  s[2] \in Characters /\ After(s, 2) \in Texts /\ Len(After(s, 2)) < Len(s)
           /\ EscapeAt(s, 1) => 1 < Len(s)
           /\ EscapeAt(s, 1) /\ DigitsAt(s, 1) =>
                  \E d \in Codes, t \in Texts :
                      /\ s = Escaped(d \o t) /\ CodeAt(s, 1) = d /\ After(s, 2 + Width) = t
                      /\ Len(t) < Len(s)
<1>1. ASSUME EscapeAt(s, 1), DigitsAt(s, 1)
      PROVE  \E d \in Codes, t \in Texts :
                 s = Escaped(d \o t) /\ CodeAt(s, 1) = d /\ After(s, 2 + Width) = t
                 /\ Len(t) < Len(s)
  <2> DEFINE r == After(s, 2)
  <2>1. r \in Texts /\ s = Escaped(r) /\ Len(s) \in Nat /\ Len(r) = Len(s) - 2
    BY <1>1, Unescaped DEF Texts
  <2> HIDE DEF r
  <2>2. HexAhead(r, Width)
    BY <1>1, <2>1, EscapedReads
  <2> DEFINE d == SubSeq(r, 1, Width)
             t == After(r, Width)
  <2>3. /\ t \in Texts /\ Len(t) = Len(r) - Width /\ d \in Codes /\ r = d \o t
        /\ Len(r) \in Nat
    BY <2>1, <2>2, Uncoded DEF Texts
  <2> HIDE DEF d, t
  <2>4. CodeAt(s, 1) = d /\ After(s, 2 + Width) = t
    BY <2>1, <2>3, CodeReads
  <2>5. Len(t) < Len(s)
    BY <2>1, <2>3, WidthAssumption
  <2> QED
    BY <2>1, <2>3, <2>4, <2>5
<1>2. ASSUME s # << >>
      PROVE  s[1] \in Characters /\ After(s, 1) \in Texts /\ Len(After(s, 1)) < Len(s)
  <2>1. s[1] \in Characters /\ After(s, 1) \in Texts /\ Len(After(s, 1)) = Len(s) - 1
        /\ Len(s) \in Nat
    BY <1>2, Uncons DEF Texts
  <2> QED
    BY <2>1
<1>3. ASSUME 1 < Len(s)
      PROVE  s[2] \in Characters /\ After(s, 2) \in Texts /\ Len(After(s, 2)) < Len(s)
  <2>1. 2 \in 1..Len(s) /\ 2 \in 0..Len(s) /\ Len(s) \in Nat
    BY <1>3, LenProperties DEF Texts
  <2>2. s[2] \in Characters
    BY <2>1, ElementOfSeq DEF Texts
  <2>3. After(s, 2) \in Texts /\ Len(After(s, 2)) = Len(s) - 2
    BY <2>1, Parts DEF Texts
  <2> QED
    BY <2>1, <2>2, <2>3
<1> QED
  BY <1>1, <1>2, <1>3 DEF EscapeAt

\* FixEscapes, shape by shape.
LEMMA FixRecurs ==
    ASSUME NEW f \in [Codes -> Codes]
    PROVE  /\ FixEscapes(f, << >>) = << >>
           /\ \A s \in Texts : FixEscapes(f, s) \in Texts
           /\ \A c \in Characters, t \in Texts :
                  ~(c = Bs /\ Starts(t, "u")) =>
                      FixEscapes(f, <<c>> \o t) = <<c>> \o FixEscapes(f, t)
           /\ \A t \in Texts :
                  ~HexAhead(t, Width) =>
                      FixEscapes(f, Escaped(t)) = <<Bs>> \o Escaped(FixEscapes(f, t))
           /\ \A d \in Codes, t \in Texts :
                  FixEscapes(f, Escaped(d \o t)) = Escaped(f[d] \o FixEscapes(f, t))
<1> DEFINE Body(F, t) ==
               CASE t = << >> -> << >>
                 [] EscapeAt(t, 1) /\ DigitsAt(t, 1) ->
                        <<Bs, "u">> \o f[CodeAt(t, 1)] \o F[After(t, 2 + Width)]
                 [] EscapeAt(t, 1) /\ ~DigitsAt(t, 1) -> <<Bs, Bs, "u">> \o F[After(t, 2)]
                 [] OTHER -> <<t[1]>> \o F[After(t, 1)]
           P(F) == F = [t \in Texts |-> Body(F, t)]
           D == [p \in [Texts -> Texts] \X Texts |-> Body(p[1], p[2])]
<1>0. << >> \in Texts /\ ~EscapeAt(<< >>, 1)
  BY DEF Texts, EscapeAt
<1>1. ASSUME NEW s \in Texts, EscapeAt(s, 1), DigitsAt(s, 1)
      PROVE  \E d \in Codes, t \in Texts :
                 s = Escaped(d \o t) /\ CodeAt(s, 1) = d /\ After(s, 2 + Width) = t
                 /\ Len(t) < Len(s)
  BY <1>1, Shorter
<1>2. ASSUME NEW s \in Texts, EscapeAt(s, 1)
      PROVE  After(s, 2) \in Texts /\ Len(After(s, 2)) < Len(s)
  BY <1>2, Shorter
<1>3. ASSUME NEW s \in Texts, s # << >>
      PROVE  s[1] \in Characters /\ After(s, 1) \in Texts /\ Len(After(s, 1)) < Len(s)
  BY <1>3, Shorter
<1>4. ASSUME NEW g, NEW s \in Texts, EscapeAt(s, 1), DigitsAt(s, 1)
      PROVE  Body(g, s) = <<Bs, "u">> \o f[CodeAt(s, 1)] \o g[After(s, 2 + Width)]
  BY <1>0, <1>4
<1>5. ASSUME NEW g, NEW s \in Texts, EscapeAt(s, 1), ~DigitsAt(s, 1)
      PROVE  Body(g, s) = <<Bs, Bs, "u">> \o g[After(s, 2)]
  BY <1>0, <1>5
<1>6. ASSUME NEW g, NEW s \in Texts, s # << >>, ~EscapeAt(s, 1)
      PROVE  Body(g, s) = <<s[1]>> \o g[After(s, 1)]
  BY <1>0, <1>6
<1>7. \A g : Body(g, << >>) = << >>
  BY <1>0
<1>8. \A a, b \in Texts : a \o b \in Texts
  BY ConcatProperties DEF Texts
<1>9. <<Bs, "u">> \in Texts /\ <<Bs, Bs, "u">> \in Texts
      /\ \A c \in Characters : <<c>> \in Texts
  BY Distinct DEF Texts
<1> HIDE DEF Body
<1>10. ASSUME NEW g \in [Texts -> Texts], NEW s \in Texts PROVE Body(g, s) \in Texts
  <2>1. CASE s = << >>
    BY <1>0, <1>7, <2>1
  <2>2. CASE s # << >> /\ ~EscapeAt(s, 1)
    <3>1. <<s[1]>> \in Texts /\ g[After(s, 1)] \in Texts
      BY <1>3, <1>9, <2>2
    <3>2. Body(g, s) = <<s[1]>> \o g[After(s, 1)]
      BY <1>6, <2>2
    <3> QED
      BY <1>8, <3>1, <3>2
  <2>3. CASE EscapeAt(s, 1) /\ ~DigitsAt(s, 1)
    <3>1. g[After(s, 2)] \in Texts
      BY <1>2, <2>3
    <3>2. Body(g, s) = <<Bs, Bs, "u">> \o g[After(s, 2)]
      BY <1>5, <2>3
    <3> QED
      BY <1>8, <1>9, <3>1, <3>2
  <2>4. CASE EscapeAt(s, 1) /\ DigitsAt(s, 1)
    <3>1. PICK d \in Codes, t \in Texts : CodeAt(s, 1) = d /\ After(s, 2 + Width) = t
      BY <1>1, <2>4
    <3>2. f[d] \in Texts /\ g[t] \in Texts
      BY CodesAreTexts
    <3>3. Body(g, s) = <<Bs, "u">> \o f[d] \o g[t]
      BY <1>4, <2>4, <3>1
    <3> QED
      BY <1>8, <1>9, <3>2, <3>3
  <2> QED
    BY <2>1, <2>2, <2>3, <2>4
<1>11. ASSUME NEW g \in [Texts -> Texts], NEW h \in [Texts -> Texts], NEW s \in Texts,
              \A r \in Texts : Len(r) < Len(s) => g[r] = h[r]
       PROVE  Body(g, s) = Body(h, s)
  <2>1. CASE s = << >>
    BY <1>7, <2>1
  <2>2. CASE s # << >> /\ ~EscapeAt(s, 1)
    BY <1>3, <1>6, <1>11, <2>2
  <2>3. CASE EscapeAt(s, 1) /\ ~DigitsAt(s, 1)
    BY <1>2, <1>5, <1>11, <2>3
  <2>4. CASE EscapeAt(s, 1) /\ DigitsAt(s, 1)
    <3>1. After(s, 2 + Width) \in Texts /\ Len(After(s, 2 + Width)) < Len(s)
      BY <1>1, <2>4
    <3> QED
      BY <1>4, <1>11, <2>4, <3>1
  <2> QED
    BY <2>1, <2>2, <2>3, <2>4
<1>12. D \in [[Texts -> Texts] \X Texts -> Texts]
  BY <1>10
<1>13. ASSUME NEW g \in [Texts -> Texts], NEW h \in [Texts -> Texts], NEW s \in Texts,
              \A r \in Texts : Len(r) < Len(s) => g[r] = h[r]
       PROVE  D[<<g, s>>] = D[<<h, s>>]
  <2>1. Body(g, s) = Body(h, s)
    BY <1>11, <1>13
  <2> QED
    BY <2>1
<1>14. PICK F \in [Texts -> Texts] : \A s \in Texts : F[s] = D[<<F, s>>]
  <2> HIDE DEF D
  <2> QED
    BY <1>12, <1>13, TextRecursion
<1>15. P(F)
  <2>1. \A s \in Texts : F[s] = Body(F, s)
    BY <1>14
  <2> QED
    BY <2>1
<1> DEFINE G == CHOOSE fn : P(fn)
<1>16. P(G)
  BY <1>15
<1>17. \A s : FixEscapes(f, s) = G[s]
  BY DEF FixEscapes, Body
<1> HIDE DEF G
<1>18. \A s \in Texts : FixEscapes(f, s) = Body(G, s) /\ G[s] = Body(G, s)
  BY <1>16, <1>17
<1>19. FixEscapes(f, << >>) = << >>
  BY <1>0, <1>7, <1>18
<1>20. ASSUME NEW c \in Characters, NEW t \in Texts, ~(c = Bs /\ Starts(t, "u"))
       PROVE  FixEscapes(f, <<c>> \o t) = <<c>> \o FixEscapes(f, t)
  <2> DEFINE u == <<c>> \o t
  <2>1. u \in Texts /\ u # << >> /\ u[1] = c /\ After(u, 1) = t
    BY Cons DEF Texts
  <2>2. ~EscapeAt(u, 1)
    BY <1>20, ConsReads
  <2> HIDE DEF u
  <2>3. FixEscapes(f, u) = <<c>> \o G[t]
    BY <1>6, <1>18, <2>1, <2>2
  <2> QED
    BY <1>17, <2>3 DEF u
<1>21. ASSUME NEW t \in Texts, ~HexAhead(t, Width)
       PROVE  FixEscapes(f, Escaped(t)) = <<Bs, Bs, "u">> \o FixEscapes(f, t)
  <2>1. /\ EscapeAt(Escaped(t), 1) /\ ~DigitsAt(Escaped(t), 1)
        /\ After(Escaped(t), 2) = t /\ Escaped(t) \in Texts
    BY <1>21, EscapedReads, EscapedAs, Distinct DEF Texts
  <2> QED
    BY <1>5, <1>17, <1>18, <2>1
<1>22. ASSUME NEW d \in Codes, NEW t \in Texts
       PROVE  FixEscapes(f, Escaped(d \o t)) = <<Bs, "u">> \o f[d] \o FixEscapes(f, t)
  <2>1. /\ d \o t \in Texts /\ HexAhead(d \o t, Width)
        /\ CodeAt(Escaped(d \o t), 1) = d /\ After(Escaped(d \o t), 2 + Width) = t
    BY CodeReads
  <2> DEFINE r == d \o t
  <2>2. /\ EscapeAt(Escaped(r), 1) /\ DigitsAt(Escaped(r), 1) /\ Escaped(r) \in Texts
    BY <2>1, EscapedReads, EscapedAs, Distinct DEF Texts
  <2> QED
    BY <1>4, <1>17, <1>18, <2>1, <2>2
<1>23. \A s \in Texts : FixEscapes(f, s) \in Texts
  <2> DEFINE T == {s \in Texts : FixEscapes(f, s) \in Texts}
  <2>1. << >> \in T /\ T \in SUBSET Texts
    BY <1>0, <1>19
  <2>2. ASSUME NEW c \in Characters, NEW t \in T, ~(c = Bs /\ Starts(t, "u"))
        PROVE  <<c>> \o t \in T
    <3>1. t \in Texts /\ FixEscapes(f, t) \in Texts
      OBVIOUS
    <3> QED
      <4>1. FixEscapes(f, <<c>> \o t) = <<c>> \o FixEscapes(f, t)
        BY <1>20, <2>2, <3>1
      <4>2. <<c>> \in Texts
        BY <1>9
      <4> QED
        BY <1>8, <3>1, <4>1, <4>2
  <2>3. ASSUME NEW t \in T, ~HexAhead(t, Width), Escaped(t) \in Texts PROVE Escaped(t) \in T
    <3>1. t \in Texts /\ FixEscapes(f, t) \in Texts
      OBVIOUS
    <3> QED
      BY <1>8, <1>9, <1>21, <2>3, <3>1
  <2>4. ASSUME NEW d \in Codes, NEW t \in T, Escaped(d \o t) \in Texts
        PROVE  Escaped(d \o t) \in T
    <3>1. t \in Texts /\ FixEscapes(f, t) \in Texts /\ f[d] \in Texts
      BY CodesAreTexts
    <3>2. <<Bs, "u">> \o f[d] \o FixEscapes(f, t) \in Texts
      BY <1>8, <1>9, <3>1
    <3> QED
      BY <1>22, <2>4, <3>1, <3>2
  <2> HIDE DEF T
  <2>5. T = Texts
    BY <2>1, <2>2, <2>3, <2>4, ByShape DEF Texts
  <2> QED
    BY <2>5 DEF T
<1>24. ASSUME NEW t \in Texts
       PROVE  <<Bs, Bs, "u">> \o t = <<Bs>> \o Escaped(t)
  <2> DEFINE e == <<Bs, "u">>
  <2>1. <<Bs, Bs, "u">> = <<Bs>> \o e
    OBVIOUS
  <2>2. <<Bs>> \in Texts /\ e \in Texts /\ Escaped(t) = e \o t
    BY <1>9, EscapedAs, Distinct DEF Texts
  <2> HIDE DEF e
  <2> QED
    BY <2>1, <2>2, ConcatAssociative DEF Texts
<1>25. ASSUME NEW d \in Codes, NEW t \in Texts
       PROVE  <<Bs, "u">> \o f[d] \o t = Escaped(f[d] \o t)
  <2>1. f[d] \in Texts /\ f[d] \o t \in Texts
    BY <1>8, CodesAreTexts
  <2>2. Escaped(f[d] \o t) = <<Bs, "u">> \o (f[d] \o t)
    BY <2>1, EscapedAs, Distinct DEF Texts
  <2> QED
    BY <1>9, <2>1, <2>2, ConcatAssociative DEF Texts
<1>26. ASSUME NEW t \in Texts, ~HexAhead(t, Width)
       PROVE  FixEscapes(f, Escaped(t)) = <<Bs>> \o Escaped(FixEscapes(f, t))
  <2>1. FixEscapes(f, t) \in Texts
    BY <1>23
  <2> QED
    BY <1>21, <1>24, <1>26, <2>1
<1>27. ASSUME NEW d \in Codes, NEW t \in Texts
       PROVE  FixEscapes(f, Escaped(d \o t)) = Escaped(f[d] \o FixEscapes(f, t))
  <2>1. FixEscapes(f, t) \in Texts
    BY <1>23
  <2> QED
    BY <1>22, <1>25, <2>1
<1> QED
  BY <1>19, <1>20, <1>23, <1>26, <1>27

\* Unmarshal, as far as a text that was marshalled and sanitised needs it.
LEMMA UnmarshalRecurs ==
    /\ Unmarshal(<< >>) = << >>
    /\ \A s \in Texts : Unmarshal(s) \in Texts
    /\ \A c \in Characters, t \in Texts :
           c \notin {Bs, Quote, Zero, Control} =>
               Unmarshal(<<c>> \o t) = <<c>> \o Unmarshal(t)
    /\ \A c \in {Bs, Quote}, t \in Texts :
           Unmarshal(<<Bs>> \o (<<c>> \o t)) = <<c>> \o Unmarshal(t)
    /\ \A t \in Texts : ~HexAhead(t, Width) => Unmarshal(Escaped(t)) = <<Invalid>>
    /\ \A d \in Codes, t \in Texts :
           Unmarshal(Escaped(d \o t)) = <<CharOf(d)>> \o Unmarshal(t)
<1> DEFINE Body(F, t) ==
               CASE t = << >> -> << >>
                 [] EscapeAt(t, 1) /\ DigitsAt(t, 1) ->
                        <<CharOf(CodeAt(t, 1))>> \o F[After(t, 2 + Width)]
                 [] Simple(t) -> <<t[2]>> \o F[After(t, 2)]
                 [] Malformed(t) -> <<Invalid>>
                 [] OTHER -> <<t[1]>> \o F[After(t, 1)]
           Itself(t) == t # << >> /\ t[1] \notin {Bs, Quote, Zero, Control}
           Coded(t) == EscapeAt(t, 1) /\ DigitsAt(t, 1)
           P(F) == F = [t \in Texts |-> Body(F, t)]
           D == [p \in [Texts -> Texts] \X Texts |-> Body(p[1], p[2])]
<1>0. /\ << >> \in Texts /\ ~Coded(<< >>) /\ ~Simple(<< >>) /\ ~Malformed(<< >>)
      /\ \A t : Coded(t) => ~Simple(t) /\ ~Malformed(t) /\ ~Itself(t)
      /\ \A t : Simple(t) => ~Malformed(t) /\ ~Itself(t)
      /\ \A t : Itself(t) <=> t # << >> /\ ~Coded(t) /\ ~Simple(t) /\ ~Malformed(t)
  BY Distinct DEF Texts, EscapeAt, Simple, Malformed
<1>1. \A g, s : Coded(s) => Body(g, s) = <<CharOf(CodeAt(s, 1))>> \o g[After(s, 2 + Width)]
  BY <1>0
<1>2. \A g, s : Simple(s) => Body(g, s) = <<s[2]>> \o g[After(s, 2)]
  BY <1>0
<1>3. \A g, s : Itself(s) => Body(g, s) = <<s[1]>> \o g[After(s, 1)]
  BY <1>0
<1>4. \A g : Body(g, << >>) = << >>
  BY <1>0
<1>5. \A g, s : Malformed(s) => Body(g, s) = <<Invalid>>
  BY <1>0
<1>6. ASSUME NEW s \in Texts, Simple(s)
      PROVE  s[2] \in Characters /\ After(s, 2) \in Texts /\ Len(After(s, 2)) < Len(s)
  BY <1>6, Shorter DEF Simple
<1>7. ASSUME NEW s \in Texts, Itself(s)
      PROVE  s[1] \in Characters /\ After(s, 1) \in Texts /\ Len(After(s, 1)) < Len(s)
  BY <1>7, Shorter
<1>8. ASSUME NEW s \in Texts, Coded(s)
      PROVE  After(s, 2 + Width) \in Texts /\ Len(After(s, 2 + Width)) < Len(s)
  BY <1>8, Shorter
<1>9. /\ \A d : CharOf(d) \in Characters
      /\ \A c \in Characters : <<c>> \in Texts
      /\ <<Invalid>> \in Texts
      /\ \A a, b \in Texts : a \o b \in Texts
  <2>1. \A d : CharOf(d) \in Characters
    BY DEF CharOf, Characters, Zero, Control
  <2>2. \A a, b \in Texts : a \o b \in Texts
    BY ConcatProperties DEF Texts
  <2> QED
    <3>1. Invalid \in Characters
      BY DEF Characters
    <3>2. \A c \in Characters : <<c>> \in Texts
      BY DEF Texts
    <3> QED
      BY <2>1, <2>2, <3>1, <3>2
<1>10. \A t : (EscapeAt(t, 1) /\ ~DigitsAt(t, 1)) => Malformed(t)
  BY Distinct DEF EscapeAt, Simple, Malformed
<1> HIDE DEF Body, Itself
<1>12. ASSUME NEW g \in [Texts -> Texts], NEW s \in Texts PROVE Body(g, s) \in Texts
  <2>1. CASE s = << >>
    BY <1>0, <1>4, <2>1
  <2>2. CASE Coded(s)
    <3>1. <<CharOf(CodeAt(s, 1))>> \in Texts /\ g[After(s, 2 + Width)] \in Texts
      BY <1>8, <1>9, <2>2
    <3> QED
      BY <1>1, <1>9, <2>2, <3>1
  <2>3. CASE Simple(s)
    <3>1. <<s[2]>> \in Texts /\ g[After(s, 2)] \in Texts
      BY <1>6, <1>9, <2>3
    <3> QED
      BY <1>2, <1>9, <2>3, <3>1
  <2>4. CASE Itself(s)
    <3>1. <<s[1]>> \in Texts /\ g[After(s, 1)] \in Texts
      BY <1>7, <1>9, <2>4
    <3> QED
      BY <1>3, <1>9, <2>4, <3>1
  <2>5. CASE Malformed(s)
    BY <1>5, <1>9, <2>5
  <2> QED
    BY <1>0, <2>1, <2>2, <2>3, <2>4, <2>5
<1>13. ASSUME NEW g, NEW h, NEW s \in Texts,
              \A r \in Texts : Len(r) < Len(s) => g[r] = h[r]
       PROVE  Body(g, s) = Body(h, s)
  <2>1. CASE s = << >>
    BY <1>4, <2>1
  <2>2. CASE Coded(s)
    <3>1. g[After(s, 2 + Width)] = h[After(s, 2 + Width)]
      BY <1>8, <1>13, <2>2
    <3> QED
      BY <1>1, <2>2, <3>1
  <2>3. CASE Simple(s)
    <3>1. g[After(s, 2)] = h[After(s, 2)]
      BY <1>6, <1>13, <2>3
    <3> QED
      BY <1>2, <2>3, <3>1
  <2>4. CASE Itself(s)
    <3>1. g[After(s, 1)] = h[After(s, 1)]
      BY <1>7, <1>13, <2>4
    <3> QED
      BY <1>3, <2>4, <3>1
  <2>5. CASE Malformed(s)
    BY <1>5, <2>5
  <2> QED
    BY <1>0, <2>1, <2>2, <2>3, <2>4, <2>5
<1>14. D \in [[Texts -> Texts] \X Texts -> Texts]
  BY <1>12
<1>15. ASSUME NEW g \in [Texts -> Texts], NEW h \in [Texts -> Texts], NEW s \in Texts,
              \A r \in Texts : Len(r) < Len(s) => g[r] = h[r]
       PROVE  D[<<g, s>>] = D[<<h, s>>]
  <2>1. Body(g, s) = Body(h, s)
    BY <1>13, <1>15
  <2> QED
    BY <2>1
<1>16. PICK F \in [Texts -> Texts] : \A s \in Texts : F[s] = D[<<F, s>>]
  <2> HIDE DEF D
  <2> QED
    BY <1>14, <1>15, TextRecursion
<1>17. P(F)
  <2>1. \A s \in Texts : F[s] = Body(F, s)
    BY <1>16
  <2> QED
    BY <2>1
<1> DEFINE G == CHOOSE fn : P(fn)
<1>18. P(G)
  BY <1>17
<1>19. \A s : Unmarshal(s) = G[s]
  BY DEF Unmarshal, Body
<1> HIDE DEF G
<1>20. \A s \in Texts : Unmarshal(s) = Body(G, s) /\ G[s] = Unmarshal(s)
  BY <1>18, <1>19
<1>a. ASSUME NEW s \in Texts PROVE Unmarshal(s) \in Texts
  <2> DEFINE T == {r \in Texts : Unmarshal(r) \in Texts}
             m == [r \in Texts |-> Len(r)]
             g == [r \in Texts |-> IF r \in T THEN Unmarshal(r) ELSE << >>]
  <2>1. m \in [Texts -> Nat] /\ T \in SUBSET Texts
    BY LenProperties DEF Texts
  <2>2. g \in [Texts -> Texts]
    BY <1>0
  <2>3. ASSUME NEW q \in Texts, \A r \in Texts : m[r] < m[q] => r \in T PROVE q \in T
    <3>1. \A r \in Texts : Len(r) < Len(q) => g[r] = G[r]
      BY <1>20, <2>3
    <3> HIDE DEF g
    <3>2. Body(g, q) = Body(G, q)
      BY <1>13, <3>1
    <3> QED
      BY <1>12, <1>20, <2>2, <3>2
  <2> HIDE DEF T, m
  <2>4. T = Texts
    BY <2>1, <2>3, ByMeasure
  <2> QED
    BY <2>4 DEF T
<1>21. ASSUME NEW c \in Characters, NEW t \in Texts, c \notin {Bs, Quote, Zero, Control}
       PROVE  Unmarshal(<<c>> \o t) = <<c>> \o Unmarshal(t)
  <2> DEFINE u == <<c>> \o t
  <2>1. u \in Texts /\ u # << >> /\ u[1] = c /\ After(u, 1) = t
    BY Cons DEF Texts
  <2> HIDE DEF u
  <2>2. Itself(u)
    BY <1>21, <2>1 DEF Itself
  <2> QED
    <3>1. Unmarshal(u) = <<u[1]>> \o G[After(u, 1)]
      BY <1>3, <1>20, <2>1, <2>2
    <3>2. G[t] = Unmarshal(t)
      BY <1>20
    <3> QED
      BY <2>1, <3>1, <3>2 DEF u
<1>22. ASSUME NEW c \in {Bs, Quote}, NEW t \in Texts
       PROVE  Unmarshal(<<Bs>> \o (<<c>> \o t)) = <<c>> \o Unmarshal(t)
  <2>0. Bs \in Characters /\ c \in Characters
    BY DEF Characters
  <2> DEFINE r == <<c>> \o t
             u == <<Bs>> \o r
  <2>1. /\ r \in Texts /\ r[1] = c /\ Len(r) = 1 + Len(t) /\ Len(t) \in Nat
    BY <2>0, Cons DEF Texts
  <2> HIDE DEF r
  <2>2. /\ u \in Texts /\ u[1] = Bs /\ Len(u) = 1 + Len(r)
        /\ \A i \in 1..Len(r) : u[1 + i] = r[i]
    BY <2>0, <2>1, Cons DEF Texts
  <2>3. After(u, 2) = t
    <3> DEFINE e == <<Bs, c>>
    <3>1. e \in Seq(Characters) /\ Len(e) = 2 /\ <<Bs>> \o <<c>> = e
          /\ <<Bs>> \in Seq(Characters) /\ <<c>> \in Seq(Characters)
      BY <2>0, Pair
    <3>2. e \o t = u
      BY <3>1, ConcatAssociative DEF Texts, r, u
    <3> HIDE DEF e
    <3>3. e \in Seq(Characters) /\ t \in Seq(Characters)
      BY <3>1 DEF Texts
    <3>4. After(e \o t, Len(e)) = t
      BY <3>3, Joined
    <3> QED
      BY <3>1, <3>2, <3>4
  <2> HIDE DEF u
  <2>4. u[2] = c
    BY <2>1, <2>2
  <2>5. Simple(u)
    BY <2>1, <2>2, <2>4 DEF Simple
  <2> QED
    <3>1. Unmarshal(u) = <<u[2]>> \o G[After(u, 2)]
      BY <1>2, <1>20, <2>2, <2>5
    <3>2. G[t] = Unmarshal(t)
      BY <1>20
    <3> QED
      BY <2>3, <2>4, <3>1, <3>2 DEF u, r
<1>23. ASSUME NEW t \in Texts, ~HexAhead(t, Width) PROVE Unmarshal(Escaped(t)) = <<Invalid>>
  <2>1. /\ EscapeAt(Escaped(t), 1) /\ ~DigitsAt(Escaped(t), 1)
        /\ Escaped(t) \in Texts /\ Escaped(t) # << >>
    BY <1>23, EscapedReads, EscapedAs, Distinct DEF Texts
  <2> QED
    BY <1>5, <1>10, <1>20, <2>1
<1>24. ASSUME NEW d \in Codes, NEW t \in Texts
       PROVE  Unmarshal(Escaped(d \o t)) = <<CharOf(d)>> \o Unmarshal(t)
  <2>1. /\ d \o t \in Texts /\ HexAhead(d \o t, Width)
        /\ CodeAt(Escaped(d \o t), 1) = d /\ After(Escaped(d \o t), 2 + Width) = t
    BY CodeReads
  <2>2. Coded(Escaped(d \o t)) /\ Escaped(d \o t) \in Texts
    BY <2>1, EscapedReads, EscapedAs, Distinct DEF Texts
  <2> QED
    BY <1>1, <1>20, <2>1, <2>2
<1> QED
  BY <1>0, <1>4, <1>20, <1>a, <1>21, <1>22, <1>23, <1>24

(***************************************************************************)
(* The tables of the functions.                                            *)
(***************************************************************************)
\* Characters of a text that was cleaned.
Good == Characters \ {Zero, Control, Invalid}

LEMMA Tables ==
    /\ CleanChar \in [Characters -> Texts] /\ \A c \in Characters : CleanChar[c] \in Seq(Good)
    /\ Same \in [Codes -> Codes] /\ \A d \in Codes : Same[d] = d
    /\ Good \in SUBSET Characters /\ Bs \in Good /\ "u" \in Good /\ Quote \in Good
    /\ "<" \in Good /\ HexDigits \subseteq Good
<1>1. /\ Good \in SUBSET Characters /\ Bs \in Good /\ "u" \in Good /\ Quote \in Good
      /\ "<" \in Good /\ " " \in Good /\ HexDigits \subseteq Good
      /\ \A c \in Characters : c \notin {Zero, Control, Invalid} => c \in Good
  BY DEF Good, Characters, Bs, Quote, Zero, Control, Invalid, HexDigits
<1>2. ASSUME NEW c \in Characters
      PROVE  CleanChar[c] \in Seq(Good) /\ CleanChar[c] \in Texts
  <2>1. CASE c = Invalid
    <3>1. CleanChar[c] = << >>
      BY <2>1 DEF CleanChar, Invalid, Zero, Control
    <3> QED
      BY <3>1 DEF Texts
  <2>2. CASE c \in {Zero, Control}
    <3>1. CleanChar[c] = <<" ">>
      BY <2>2 DEF CleanChar, Invalid, Zero, Control
    <3>2. " " \in Good /\ " " \in Characters
      BY <1>1
    <3> QED
      BY <3>1, <3>2, Single DEF Texts
  <2>3. CASE c \notin {Zero, Control, Invalid}
    <3>1. CleanChar[c] = <<c>>
      BY <2>3 DEF CleanChar
    <3>2. c \in Good
      BY <1>1, <2>3
    <3> QED
      BY <3>1, <3>2, Single DEF Texts
  <2> QED
    BY <2>1, <2>2, <2>3
<1>3. CleanChar \in [Characters -> Texts]
  <2>1. DOMAIN CleanChar = Characters /\ CleanChar = [c \in Characters |-> CleanChar[c]]
    BY DEF CleanChar
  <2> QED
    BY <1>2, <2>1
<1>4. Same \in [Codes -> Codes] /\ \A d \in Codes : Same[d] = d
  BY DEF Same
<1> QED
  BY <1>1, <1>2, <1>3, <1>4

LEMMA Repeats ==
    /\ \A c \in HexDigits : Repeat(c) \in Codes
    /\ Repeat("2") \notin ControlCodes /\ Repeat("a") \notin ControlCodes
    /\ CharOf(Repeat("a")) = "<"
    /\ BlankControl \in [Codes -> Codes]
    /\ BlankControl[Repeat("a")] = Repeat("a")
    /\ \A d \in Codes : d \notin ControlCodes => BlankControl[d] = d
<1>1. \A c \in HexDigits : Repeat(c) \in Codes
  BY DEF Repeat, Codes
<1>2. \A c, e : Repeat(c) = Repeat(e) => c = e
  <2>1. 1 \in 1..Width
    BY WidthAssumption
  <2>2. \A c : Repeat(c)[1] = c
    BY <2>1 DEF Repeat
  <2> QED
    BY <2>2
<1>3. Repeat("2") \notin ControlCodes /\ Repeat("a") \notin ControlCodes
  BY <1>2 DEF ControlCodes
<1>4. CharOf(Repeat("a")) = "<"
  BY <1>2 DEF CharOf
<1>5. BlankControl \in [Codes -> Codes] /\ \A d \in Codes : d \notin ControlCodes => BlankControl[d] = d
  BY <1>1 DEF BlankControl, HexDigits
<1> QED
  BY <1>1, <1>3, <1>4, <1>5 DEF HexDigits

LEMMA MarshalTable ==
    /\ MarshalChar \in [Characters -> Texts]
    /\ MarshalChar[Bs] = <<Bs, Bs>> /\ MarshalChar[Quote] = <<Bs, Quote>>
    /\ MarshalChar["<"] = <<Bs, "u">> \o Repeat("a")
    /\ \A c \in Good : c \notin {Bs, Quote, "<"} => MarshalChar[c] = <<c>>
    /\ \A c \in Characters : \/ MarshalChar[c] = <<c>>
                             \/ c \notin HexDigits /\ c # "u"
                                /\ \E e \in Characters, t \in Texts : MarshalChar[c] = <<Bs>> \o (<<e>> \o t)
<1>1. /\ \A c \in {Bs, Quote} : MarshalChar[c] = <<Bs, c>>
      /\ MarshalChar[Zero] = <<Bs, "u">> \o Repeat("0")
      /\ MarshalChar[Control] = <<Bs, "u">> \o Repeat("1")
      /\ MarshalChar["<"] = <<Bs, "u">> \o Repeat("a")
      /\ MarshalChar[Invalid] = <<Bs, "u">> \o Repeat("f")
      /\ \A c \in Characters : c \notin {Bs, Quote, Zero, Control, "<", Invalid} =>
                                   MarshalChar[c] = <<c>>
      /\ DOMAIN MarshalChar = Characters /\ MarshalChar = [c \in Characters |-> MarshalChar[c]]
  BY DEF MarshalChar, Characters, Bs, Quote, Zero, Control, Invalid
<1>2. ASSUME NEW c \in HexDigits
      PROVE  /\ Repeat(c) \in Texts
             /\ <<Bs, "u">> \o Repeat(c) = <<Bs>> \o (<<"u">> \o Repeat(c))
             /\ <<Bs, "u">> \o Repeat(c) \in Texts
  <2>1. Repeat(c) \in Texts
    BY Repeats, CodesAreTexts
  <2> DEFINE r == Repeat(c)
  <2>2. r \in Seq(Characters)
    BY <2>1 DEF Texts
  <2> HIDE DEF r
  <2>3. Escaped(r) = <<Bs, "u">> \o r /\ Escaped(r) \in Seq(Characters)
    BY <2>2, EscapedAs, Distinct
  <2> QED
    BY <2>1, <2>3 DEF r, Escaped, Texts
<1>3. \A c \in {Bs, Quote} : c \in Characters /\ <<Bs, c>> = <<Bs>> \o (<<c>> \o << >>) /\ <<Bs, c>> \in Texts
  <2> SUFFICES ASSUME NEW c \in {Bs, Quote}
               PROVE  c \in Characters /\ <<Bs, c>> = <<Bs>> \o (<<c>> \o << >>) /\ <<Bs, c>> \in Texts
    OBVIOUS
  <2>1. c \in Characters /\ Bs \in Characters
    BY DEF Characters
  <2>2. <<c>> \o << >> = <<c>>
    BY <2>1, ConcatEmptySeq
  <2> QED
    BY <2>1, <2>2, Pair DEF Texts
<1>4. \A c \in Characters : <<c>> \in Texts
  BY DEF Texts
<1>5. ASSUME NEW c \in Characters
      PROVE  /\ MarshalChar[c] \in Texts
             /\ \/ MarshalChar[c] = <<c>>
                \/ c \notin HexDigits /\ c # "u"
                   /\ \E e \in Characters, t \in Texts : MarshalChar[c] = <<Bs>> \o (<<e>> \o t)
  <2>1. CASE c \in {Bs, Quote}
    <3>1. c \notin HexDigits /\ c # "u" /\ << >> \in Texts
      BY <2>1, Distinct DEF Texts
    <3> QED
      BY <1>1, <1>3, <2>1, <3>1
  <2>2. CASE c \in {Zero, Control, "<", Invalid}
    <3>1. c \notin HexDigits /\ c # "u"
      BY <2>2 DEF Zero, Control, Invalid, HexDigits
    <3>2. \E e \in HexDigits : MarshalChar[c] = <<Bs, "u">> \o Repeat(e)
      BY <1>1, <2>2 DEF HexDigits
    <3>3. "u" \in Characters
      BY Distinct
    <3> QED
      BY <1>2, <3>1, <3>2, <3>3
  <2>3. CASE c \notin {Bs, Quote, Zero, Control, "<", Invalid}
    BY <1>1, <1>4, <2>3
  <2> QED
    BY <2>1, <2>2, <2>3
<1>6. MarshalChar \in [Characters -> Texts]
  BY <1>1, <1>5
<1> QED
  BY <1>1, <1>5, <1>6 DEF Good

LEMMA MarshalRecurs ==
    /\ Marshal(<< >>) = << >>
    /\ \A s \in Texts : Marshal(s) \in Texts
    /\ \A c \in {Bs, Quote}, t \in Texts : Marshal(<<c>> \o t) = <<Bs>> \o (<<c>> \o Marshal(t))
    /\ \A t \in Texts : Marshal(<<"<">> \o t) = Escaped(Repeat("a") \o Marshal(t))
    /\ \A c \in Good, t \in Texts :
           c \notin {Bs, Quote, "<"} => Marshal(<<c>> \o t) = <<c>> \o Marshal(t)
<1>1. /\ MarshalChar \in [Characters -> Texts] /\ Good \in SUBSET Characters
      /\ Bs \in Characters /\ Quote \in Characters /\ "<" \in Characters
      /\ "u" \in Characters
  BY MarshalTable, Tables
<1>2. /\ Marshal(<< >>) = << >>
      /\ \A c \in Characters, t \in Texts : Marshal(<<c>> \o t) = MarshalChar[c] \o Marshal(t)
  BY <1>1, EachRecurs DEF Marshal
<1>3. ASSUME NEW s \in Texts PROVE Marshal(s) \in Texts
  <2>1. Characters \in SUBSET Characters /\ \A c \in Characters : MarshalChar[c] \in Seq(Characters)
    BY <1>1 DEF Texts
  <2> QED
    BY <1>1, <2>1, EachIn DEF Marshal, Texts
<1>4. ASSUME NEW c \in {Bs, Quote}, NEW t \in Texts
      PROVE  Marshal(<<c>> \o t) = <<Bs>> \o (<<c>> \o Marshal(t))
  <2>1. Marshal(<<c>> \o t) = <<Bs, c>> \o Marshal(t) /\ Marshal(t) \in Seq(Characters)
    <3>1. c \in Characters /\ MarshalChar[c] = <<Bs, c>>
      BY <1>1, MarshalTable
    <3>2. Marshal(<<c>> \o t) = MarshalChar[c] \o Marshal(t)
      BY <1>2, <3>1
    <3> QED
      BY <1>3, <3>1, <3>2 DEF Texts
  <2> DEFINE m == Marshal(t)
             e == <<Bs, c>>
  <2>2. m \in Seq(Characters) /\ <<Bs>> \in Seq(Characters) /\ <<c>> \in Seq(Characters)
        /\ <<Bs>> \o <<c>> = e
    BY <1>1, <2>1, Pair
  <2> HIDE DEF m, e
  <2>3. (<<Bs>> \o <<c>>) \o m = <<Bs>> \o (<<c>> \o m)
    BY <2>2, ConcatAssociative
  <2> QED
    BY <2>1, <2>2, <2>3 DEF m, e
<1>5. ASSUME NEW t \in Texts PROVE Marshal(<<"<">> \o t) = Escaped(Repeat("a") \o Marshal(t))
  <2> DEFINE m == Marshal(t)
             r == Repeat("a")
             e == <<Bs, "u">>
  <2>1. m \in Seq(Characters) /\ r \in Seq(Characters) /\ e \in Seq(Characters)
    BY <1>1, <1>3, Repeats, CodesAreTexts, Pair DEF Texts, HexDigits
  <2>2. Marshal(<<"<">> \o t) = (e \o r) \o m
    BY <1>1, <1>2, MarshalTable
  <2> HIDE DEF m, r
  <2>3. r \o m \in Seq(Characters)
    BY <2>1, ConcatProperties
  <2>4. Escaped(r \o m) = e \o (r \o m)
    BY <1>1, <2>3, EscapedAs
  <2> HIDE DEF e
  <2>5. (e \o r) \o m = e \o (r \o m)
    BY <2>1, ConcatAssociative
  <2> QED
    BY <2>2, <2>4, <2>5 DEF m, r
<1>6. ASSUME NEW c \in Good, NEW t \in Texts, c \notin {Bs, Quote, "<"}
      PROVE  Marshal(<<c>> \o t) = <<c>> \o Marshal(t)
  <2>1. c \in Characters /\ MarshalChar[c] = <<c>>
    BY <1>1, <1>6, MarshalTable
  <2> QED
    BY <1>2, <2>1
<1> QED
  BY <1>2, <1>3, <1>4, <1>5, <1>6

(***************************************************************************)
(* Digits: they are copied as they are, and none appears that was not there. *)
(***************************************************************************)
LEMMA HexCons ==
    ASSUME NEW c \in Characters, NEW t \in Texts, NEW n \in Nat
    PROVE  HexAhead(<<c>> \o t, n) <=> n = 0 \/ (c \in HexDigits /\ HexAhead(t, n - 1))
<1> DEFINE s == <<c>> \o t
<1>1. /\ Len(s) = 1 + Len(t) /\ Len(t) \in Nat /\ s[1] = c
      /\ \A i \in 1..Len(t) : s[1 + i] = t[i]
  BY Cons DEF Texts
<1> HIDE DEF s
<1>2. ASSUME HexAhead(s, n), n # 0 PROVE c \in HexDigits /\ HexAhead(t, n - 1)
  <2>1. n <= 1 + Len(t) /\ 1 \in 1..n
    BY <1>1, <1>2 DEF HexAhead
  <2>2. c \in HexDigits
    BY <1>1, <1>2, <2>1 DEF HexAhead
  <2>3. ASSUME NEW k \in 1..(n - 1) PROVE t[k] \in HexDigits
    <3>1. 1 + k \in 1..n /\ k \in 1..Len(t)
      BY <1>1, <2>1
    <3> QED
      BY <1>1, <1>2, <3>1 DEF HexAhead
  <2> QED
    BY <1>1, <2>1, <2>2, <2>3 DEF HexAhead
<1>3. ASSUME n # 0, c \in HexDigits, HexAhead(t, n - 1) PROVE HexAhead(s, n)
  <2>1. n - 1 <= Len(t)
    BY <1>3 DEF HexAhead
  <2>2. ASSUME NEW k \in 1..n PROVE s[k] \in HexDigits
    <3>1. CASE k = 1
      BY <1>1, <1>3, <3>1
    <3>2. CASE k # 1
      <4>1. k - 1 \in 1..(n - 1) /\ k - 1 \in 1..Len(t) /\ 1 + (k - 1) = k
        BY <1>1, <2>1, <3>2
      <4> QED
        BY <1>1, <1>3, <4>1 DEF HexAhead
    <3> QED
      BY <3>1, <3>2
  <2> QED
    BY <1>1, <2>1, <2>2 DEF HexAhead
<1>4. n = 0 => HexAhead(s, n)
  BY <1>1 DEF HexAhead
<1> QED
  BY <1>2, <1>3, <1>4 DEF s

LEMMA MarshalBegins ==
    ASSUME NEW t \in Texts
    PROVE  /\ \A n \in Nat : HexAhead(Marshal(t), n) => HexAhead(t, n)
           /\ Starts(Marshal(t), "u") => Starts(t, "u")
<1>0. /\ MarshalChar \in [Characters -> Texts] /\ Bs \in Characters /\ Bs \notin HexDigits
      /\ Bs # "u" /\ Marshal(<< >>) = << >>
      /\ \A s \in Texts : Marshal(s) \in Texts
      /\ \A c \in Characters, s \in Texts : Marshal(<<c>> \o s) = MarshalChar[c] \o Marshal(s)
  BY MarshalTable, MarshalRecurs, EachRecurs, Distinct DEF Marshal
<1>1. ASSUME NEW c \in Characters, NEW s \in Texts
      PROVE  \/ Marshal(<<c>> \o s) = <<c>> \o Marshal(s)
             \/ c \notin HexDigits /\ \E r \in Texts : Marshal(<<c>> \o s) = <<Bs>> \o r
  <2>1. CASE MarshalChar[c] = <<c>>
    BY <1>0, <2>1
  <2>2. ASSUME NEW e \in Characters, NEW r \in Texts, MarshalChar[c] = <<Bs>> \o (<<e>> \o r),
               c \notin HexDigits
        PROVE  \E q \in Texts : Marshal(<<c>> \o s) = <<Bs>> \o q
    <3> DEFINE m == Marshal(s)
               p == <<e>> \o r
    <3>1. p \in Seq(Characters) /\ m \in Seq(Characters)
      BY <1>0, Cons DEF Texts
    <3>2. Marshal(<<c>> \o s) = (<<Bs>> \o p) \o m
      BY <1>0, <2>2
    <3> HIDE DEF m, p
    <3>3. <<Bs>> \in Seq(Characters)
      BY <1>0, Single
    <3>4. (<<Bs>> \o p) \o m = <<Bs>> \o (p \o m) /\ p \o m \in Texts
      BY <3>1, <3>3, ConcatAssociative, ConcatProperties DEF Texts
    <3> QED
      BY <3>2, <3>4
  <2> QED
    BY <2>1, <2>2, MarshalTable
<1> DEFINE T == {s \in Texts : \A n \in Nat : HexAhead(Marshal(s), n) => HexAhead(s, n)}
<1>2. << >> \in T /\ T \in SUBSET Texts
  BY <1>0 DEF Texts
<1>3. ASSUME NEW c \in Characters, NEW s \in T PROVE <<c>> \o s \in T
  <2>1. s \in Texts /\ Marshal(s) \in Texts /\ \A n \in Nat : HexAhead(Marshal(s), n) => HexAhead(s, n)
    BY <1>0
  <2>2. <<c>> \o s \in Texts
    BY <2>1, Cons DEF Texts
  <2>3. ASSUME NEW n \in Nat, HexAhead(Marshal(<<c>> \o s), n) PROVE HexAhead(<<c>> \o s, n)
    <3>1. CASE n = 0
      BY <2>1, <3>1, HexCons
    <3>2. CASE n # 0 /\ Marshal(<<c>> \o s) = <<c>> \o Marshal(s)
      <4>1. c \in HexDigits /\ HexAhead(Marshal(s), n - 1)
        BY <2>1, <2>3, <3>2, HexCons
      <4>2. n - 1 \in Nat
        BY <3>2
      <4> QED
        BY <2>1, <3>2, <4>1, <4>2, HexCons
    <3>3. ASSUME NEW r \in Texts, Marshal(<<c>> \o s) = <<Bs>> \o r PROVE n = 0
      BY <1>0, <2>3, <3>3, HexCons
    <3> QED
      BY <1>1, <2>1, <3>1, <3>2, <3>3
  <2> QED
    BY <2>2, <2>3
<1> HIDE DEF T
<1>4. T = Texts
  BY <1>2, <1>3, ByCharacter DEF Texts
<1>5. ASSUME Starts(Marshal(t), "u") PROVE Starts(t, "u")
  <2>1. t # << >>
    BY <1>0, <1>5 DEF Starts
  <2> DEFINE c == t[1]
             s == After(t, 1)
  <2>2. c \in Characters /\ s \in Texts /\ t = <<c>> \o s
    BY <2>1, Uncons DEF Texts
  <2> HIDE DEF s
  <2>3. CASE Marshal(t) = <<c>> \o Marshal(s)
    <3>1. (<<c>> \o Marshal(s))[1] = c
      BY <1>0, <2>2, Cons DEF Texts
    <3> QED
      BY <1>5, <2>1, <2>3, <3>1 DEF Starts
  <2>4. ASSUME NEW r \in Texts, Marshal(t) = <<Bs>> \o r PROVE FALSE
    <3>1. (<<Bs>> \o r)[1] = Bs
      BY <1>0, Cons DEF Texts
    <3> QED
      BY <1>0, <1>5, <2>4, <3>1 DEF Starts
  <2> QED
    BY <1>1, <2>2, <2>3, <2>4
<1> QED
  BY <1>4, <1>5 DEF T

LEMMA FixBegins ==
    ASSUME NEW f \in [Codes -> Codes], NEW t \in Texts, NEW n \in Nat,
           HexAhead(FixEscapes(f, t), n)
    PROVE  HexAhead(t, n)
<1> DEFINE fix(s) == FixEscapes(f, s)
           T == {s \in Texts : \A k \in Nat : HexAhead(fix(s), k) => HexAhead(s, k)}
<1>0. /\ fix(<< >>) = << >> /\ \A s \in Texts : fix(s) \in Texts
      /\ \A c \in Characters, s \in Texts :
             ~(c = Bs /\ Starts(s, "u")) => fix(<<c>> \o s) = <<c>> \o fix(s)
      /\ \A s \in Texts : ~HexAhead(s, Width) => fix(Escaped(s)) = <<Bs>> \o Escaped(fix(s))
      /\ \A d \in Codes, s \in Texts : fix(Escaped(d \o s)) = Escaped(f[d] \o fix(s))
  BY FixRecurs
<1> HIDE DEF fix
<1>1. ASSUME NEW s \in Texts, NEW k \in Nat, HexAhead(<<Bs>> \o s, k) PROVE k = 0
  BY <1>1, HexCons, Distinct
<1>2. ASSUME NEW s \in Texts PROVE HexAhead(s, 0)
  BY LenProperties DEF HexAhead, Texts
<1>3. << >> \in T /\ T \in SUBSET Texts
  BY <1>0 DEF Texts
<1>4. ASSUME NEW c \in Characters, NEW s \in T, ~(c = Bs /\ Starts(s, "u"))
      PROVE  <<c>> \o s \in T
  <2>1. /\ s \in Texts /\ fix(s) \in Texts /\ fix(<<c>> \o s) = <<c>> \o fix(s)
        /\ \A k \in Nat : HexAhead(fix(s), k) => HexAhead(s, k)
    BY <1>0, <1>4
  <2>2. <<c>> \o s \in Texts
    BY <2>1, Cons DEF Texts
  <2>3. ASSUME NEW k \in Nat, HexAhead(<<c>> \o fix(s), k) PROVE HexAhead(<<c>> \o s, k)
    <3>1. CASE k = 0
      BY <1>2, <2>2, <3>1
    <3>2. CASE k # 0
      <4>1. k - 1 \in Nat /\ c \in HexDigits /\ HexAhead(fix(s), k - 1)
        BY <2>1, <2>3, <3>2, HexCons
      <4> QED
        BY <2>1, <4>1, HexCons
    <3> QED
      BY <3>1, <3>2
  <2> QED
    BY <2>1, <2>2, <2>3
<1>5. ASSUME NEW s \in T, ~HexAhead(s, Width), Escaped(s) \in Texts PROVE Escaped(s) \in T
  <2>1. fix(Escaped(s)) = <<Bs>> \o Escaped(fix(s)) /\ Escaped(fix(s)) \in Texts
    BY <1>0, <1>5, EscapedAs, Distinct DEF Texts
  <2> QED
    BY <1>1, <1>2, <1>5, <2>1
<1>6. ASSUME NEW d \in Codes, NEW s \in T, Escaped(d \o s) \in Texts PROVE Escaped(d \o s) \in T
  <2>1. s \in Texts /\ fix(s) \in Texts /\ f[d] \in Codes
    BY <1>0
  <2>2. fix(Escaped(d \o s)) = Escaped(f[d] \o fix(s)) /\ f[d] \o fix(s) \in Texts
    BY <1>0, <2>1, CodeReads
  <2>3. <<"u">> \o (f[d] \o fix(s)) \in Texts
    BY <2>2, Cons, Distinct DEF Texts
  <2> QED
    BY <1>1, <1>2, <1>6, <2>2, <2>3 DEF Escaped
<1> HIDE DEF T
<1>7. T = Texts
  BY <1>3, <1>4, <1>5, <1>6, ByShape DEF Texts
<1> QED
  BY <1>7 DEF T, fix

\* Marshal and Unmarshal copy digits.
LEMMA DigitsCopied ==
    ASSUME NEW d \in Codes, NEW t \in Texts
    PROVE  Marshal(d \o t) = d \o Marshal(t) /\ Unmarshal(d \o t) = d \o Unmarshal(t)
<1> DEFINE T == {s \in Seq(HexDigits) : /\ Marshal(s \o t) = s \o Marshal(t)
                                        /\ Unmarshal(s \o t) = s \o Unmarshal(t)}
<1>0. /\ Marshal(t) \in Seq(Characters) /\ Unmarshal(t) \in Seq(Characters)
      /\ t \in Seq(Characters) /\ HexDigits \subseteq Characters
  BY MarshalRecurs, UnmarshalRecurs, Distinct DEF Texts
<1>1. << >> \in T /\ T \in SUBSET Seq(HexDigits)
  BY <1>0, ConcatEmptySeq
<1>2. ASSUME NEW c \in HexDigits, NEW s \in T PROVE <<c>> \o s \in T
  <2>1. s \in Seq(HexDigits) /\ s \in Seq(Characters) /\ <<c>> \o s \in Seq(HexDigits)
    BY <1>0, Cons, SeqMonotonic
  <2>2. c \in Characters /\ <<c>> \in Seq(Characters)
    BY <1>0, Single
  <2>3. /\ (<<c>> \o s) \o t = <<c>> \o (s \o t) /\ s \o t \in Texts
        /\ (<<c>> \o s) \o Marshal(t) = <<c>> \o (s \o Marshal(t))
        /\ (<<c>> \o s) \o Unmarshal(t) = <<c>> \o (s \o Unmarshal(t))
    BY <1>0, <2>1, <2>2, ConcatAssociative, ConcatProperties DEF Texts
  <2>4. Marshal(<<c>> \o (s \o t)) = <<c>> \o Marshal(s \o t)
    <3>1. c \in Good /\ c \notin {Bs, Quote, "<"}
      BY Tables, Distinct
    <3> QED
      BY <2>3, <3>1, MarshalRecurs
  <2>5. Unmarshal(<<c>> \o (s \o t)) = <<c>> \o Unmarshal(s \o t)
    <3>1. c \notin {Bs, Quote, Zero, Control}
      BY Distinct
    <3> QED
      BY <2>2, <2>3, <3>1, UnmarshalRecurs
  <2> QED
    BY <2>1, <2>3, <2>4, <2>5
<1> HIDE DEF T
<1>3. T = Seq(HexDigits)
  BY <1>1, <1>2, ByCharacter
<1> QED
  BY <1>3, CodesAreTexts DEF T

(***************************************************************************)
(* There and back again.                                                   *)
(***************************************************************************)
\* A good text is read as it was written.
LEMMA ReadsWhatWasWritten ==
    ASSUME NEW x \in Seq(Good)
    PROVE  Unmarshal(Marshal(x)) = x
<1> DEFINE T == {s \in Seq(Good) : Unmarshal(Marshal(s)) = s}
<1>1. << >> \in T /\ T \in SUBSET Seq(Good)
  BY MarshalRecurs, UnmarshalRecurs
<1>2. ASSUME NEW c \in Good, NEW t \in T PROVE <<c>> \o t \in T
  <2>1. /\ t \in Texts /\ Marshal(t) \in Texts /\ c \in Characters
        /\ Unmarshal(Marshal(t)) = t /\ <<c>> \o t \in Seq(Good)
    BY Tables, SeqMonotonic, Cons, MarshalRecurs DEF Texts
  <2>2. CASE c \in {Bs, Quote}
    <3>1. Marshal(<<c>> \o t) = <<Bs>> \o (<<c>> \o Marshal(t))
      BY <2>1, <2>2, MarshalRecurs
    <3>2. Unmarshal(<<Bs>> \o (<<c>> \o Marshal(t))) = <<c>> \o Unmarshal(Marshal(t))
      BY <2>1, <2>2, UnmarshalRecurs
    <3> QED
      BY <2>1, <3>1, <3>2
  <2>3. CASE c = "<"
    <3>1. Repeat("a") \in Codes /\ CharOf(Repeat("a")) = c
      BY <2>3, Repeats DEF HexDigits
    <3>2. Marshal(<<c>> \o t) = Escaped(Repeat("a") \o Marshal(t))
      BY <2>1, <2>3, MarshalRecurs
    <3>3. Unmarshal(Escaped(Repeat("a") \o Marshal(t)))
              = <<CharOf(Repeat("a"))>> \o Unmarshal(Marshal(t))
      BY <2>1, <3>1, UnmarshalRecurs
    <3> QED
      BY <2>1, <3>1, <3>2, <3>3
  <2>4. CASE c \notin {Bs, Quote, "<"}
    <3>1. c \notin {Bs, Quote, Zero, Control}
      BY <2>4 DEF Good
    <3>2. Marshal(<<c>> \o t) = <<c>> \o Marshal(t)
      BY <2>1, <2>4, MarshalRecurs
    <3> QED
      BY <2>1, <3>1, <3>2, UnmarshalRecurs
  <2> QED
    BY <2>2, <2>3, <2>4
<1> HIDE DEF T
<1>3. T = Seq(Good)
  BY <1>1, <1>2, ByCharacter
<1> QED
  BY <1>3 DEF T

\* What is read of a text that was marshalled and sanitised.
Read(x) == Unmarshal(SanitizeJSONString(Marshal(x)))

LEMMA ReadRecurs ==
    /\ Read(<< >>) = << >>
    /\ \A c \in Good, t \in Texts :
           ~(c = Bs /\ Starts(t, "u")) => Read(<<c>> \o t) = <<c>> \o Read(t)
    /\ \A t \in Texts : ~HexAhead(t, Width) => Read(Escaped(t)) = <<Bs>> \o <<Invalid>>
    /\ \A d \in Codes, t \in Texts :
           Read(Escaped(d \o t)) = Escaped(BlankControl[d] \o Read(t))
    /\ \A t \in Texts : Read(t) \in Texts
<1> DEFINE fix(s) == FixEscapes(BlankControl, s)
<1>0. /\ fix(<< >>) = << >> /\ \A s \in Texts : fix(s) \in Texts
      /\ \A c \in Characters, s \in Texts :
             ~(c = Bs /\ Starts(s, "u")) => fix(<<c>> \o s) = <<c>> \o fix(s)
      /\ \A s \in Texts : ~HexAhead(s, Width) => fix(Escaped(s)) = <<Bs>> \o Escaped(fix(s))
      /\ \A d \in Codes, s \in Texts :
             fix(Escaped(d \o s)) = Escaped(BlankControl[d] \o fix(s))
      /\ \A s \in Texts : HexAhead(fix(s), Width) => HexAhead(s, Width)
  BY FixRecurs, FixBegins, Repeats, WidthAssumption
<1>1. \A s : Read(s) = Unmarshal(fix(Marshal(s)))
  BY DEF Read, SanitizeJSONString
<1> HIDE DEF fix
<1>2. \A c \in Characters, s \in Texts :
          /\ <<c>> \o s \in Texts
          /\ \A e : Starts(<<c>> \o s, e) <=> c = e
  BY Cons DEF Texts, Starts
<1>3. /\ Bs \in Characters /\ Quote \in Characters /\ "u" \in Characters
      /\ Good \in SUBSET Characters /\ Bs # "u" /\ Quote # "u" /\ Bs # Quote
      /\ Bs \in Good /\ "u" \in Good /\ "u" # "<" /\ "u" # Quote
  BY Distinct, Tables
<1>4. \A t \in Texts : Escaped(t) \in Texts /\ ~Starts(Escaped(t), "u")
  BY <1>2, <1>3 DEF Escaped
<1>5. ASSUME NEW c \in Good, NEW t \in Texts, ~(c = Bs /\ Starts(t, "u"))
      PROVE  Read(<<c>> \o t) = <<c>> \o Read(t)
  <2> DEFINE m == Marshal(t)
  <2>1. /\ m \in Texts /\ fix(m) \in Texts /\ Read(t) = Unmarshal(fix(m)) /\ c \in Characters
        /\ Starts(m, "u") => Starts(t, "u")
    BY <1>0, <1>1, <1>3, MarshalRecurs, MarshalBegins
  <2>2. CASE c = Bs
    <3>1. Marshal(<<c>> \o t) = <<Bs>> \o (<<Bs>> \o m)
      BY <2>2, MarshalRecurs
    <3> HIDE DEF m
    <3>2. fix(<<Bs>> \o m) = <<Bs>> \o fix(m)
      BY <1>0, <1>3, <1>5, <2>1, <2>2
    <3>3. <<Bs>> \o m \in Texts /\ ~Starts(<<Bs>> \o m, "u")
      BY <1>2, <1>3, <2>1
    <3>4. fix(<<Bs>> \o (<<Bs>> \o m)) = <<Bs>> \o (<<Bs>> \o fix(m))
      BY <1>0, <1>3, <3>2, <3>3
    <3>5. Unmarshal(<<Bs>> \o (<<Bs>> \o fix(m))) = <<Bs>> \o Unmarshal(fix(m))
      BY <2>1, UnmarshalRecurs
    <3> QED
      BY <1>1, <2>1, <2>2, <3>1, <3>4, <3>5
  <2>3. CASE c = Quote
    <3>1. Marshal(<<c>> \o t) = <<Bs>> \o (<<Quote>> \o m)
      BY <2>3, MarshalRecurs
    <3> HIDE DEF m
    <3>2. fix(<<Quote>> \o m) = <<Quote>> \o fix(m)
      BY <1>0, <1>3, <2>1
    <3>3. <<Quote>> \o m \in Texts /\ ~Starts(<<Quote>> \o m, "u")
      BY <1>2, <1>3, <2>1
    <3>4. fix(<<Bs>> \o (<<Quote>> \o m)) = <<Bs>> \o (<<Quote>> \o fix(m))
      BY <1>0, <1>3, <3>2, <3>3
    <3>5. Unmarshal(<<Bs>> \o (<<Quote>> \o fix(m))) = <<Quote>> \o Unmarshal(fix(m))
      BY <2>1, UnmarshalRecurs
    <3> QED
      BY <1>1, <2>1, <2>3, <3>1, <3>4, <3>5
  <2>4. CASE c = "<"
    <3>1. /\ Repeat("a") \in Codes /\ CharOf(Repeat("a")) = c
          /\ BlankControl[Repeat("a")] = Repeat("a")
      BY <2>4, Repeats DEF HexDigits
    <3>2. Marshal(<<c>> \o t) = Escaped(Repeat("a") \o m)
      BY <2>4, MarshalRecurs
    <3> HIDE DEF m
    <3>3. fix(Escaped(Repeat("a") \o m)) = Escaped(Repeat("a") \o fix(m))
      BY <1>0, <2>1, <3>1
    <3>4. Unmarshal(Escaped(Repeat("a") \o fix(m)))
              = <<CharOf(Repeat("a"))>> \o Unmarshal(fix(m))
      BY <2>1, <3>1, UnmarshalRecurs
    <3> QED
      BY <1>1, <2>1, <3>1, <3>2, <3>3, <3>4
  <2>5. CASE c \notin {Bs, Quote, "<"}
    <3>1. c \notin {Bs, Quote, Zero, Control}
      BY <2>5 DEF Good
    <3>2. Marshal(<<c>> \o t) = <<c>> \o m
      BY <2>5, MarshalRecurs
    <3> HIDE DEF m
    <3>3. fix(<<c>> \o m) = <<c>> \o fix(m)
      BY <1>0, <2>1, <2>5
    <3>4. Unmarshal(<<c>> \o fix(m)) = <<c>> \o Unmarshal(fix(m))
      BY <2>1, <3>1, UnmarshalRecurs
    <3> QED
      BY <1>1, <2>1, <3>2, <3>3, <3>4
  <2> QED
    BY <2>2, <2>3, <2>4, <2>5
<1>6. ASSUME NEW t \in Texts PROVE Marshal(Escaped(t)) = <<Bs>> \o Escaped(Marshal(t))
  <2>1. Marshal(<<"u">> \o t) = <<"u">> \o Marshal(t)
    BY <1>3, MarshalRecurs
  <2>2. <<"u">> \o t \in Texts
    BY <1>2, <1>3
  <2> QED
    BY <2>1, <2>2, MarshalRecurs DEF Escaped
<1>7. ASSUME NEW t \in Texts, ~HexAhead(t, Width)
      PROVE  Read(Escaped(t)) = <<Bs>> \o <<Invalid>>
  <2> DEFINE m == Marshal(t)
  <2>1. m \in Texts /\ ~HexAhead(m, Width)
    BY <1>7, MarshalRecurs, MarshalBegins, WidthAssumption
  <2>2. Marshal(Escaped(t)) = <<Bs>> \o Escaped(m)
    BY <1>6
  <2> HIDE DEF m
  <2>3. fix(<<Bs>> \o Escaped(m)) = <<Bs>> \o fix(Escaped(m))
    BY <1>0, <1>3, <1>4, <2>1
  <2>4. fix(Escaped(m)) = <<Bs>> \o Escaped(fix(m)) /\ fix(m) \in Texts /\ ~HexAhead(fix(m), Width)
    BY <1>0, <2>1
  <2>5. Unmarshal(<<Bs>> \o (<<Bs>> \o Escaped(fix(m)))) = <<Bs>> \o Unmarshal(Escaped(fix(m)))
    BY <1>4, <2>4, UnmarshalRecurs
  <2>6. Unmarshal(Escaped(fix(m))) = <<Invalid>>
    BY <2>4, UnmarshalRecurs
  <2> QED
    BY <1>1, <2>2, <2>3, <2>4, <2>5, <2>6
<1>8. ASSUME NEW d \in Codes, NEW t \in Texts
      PROVE  Read(Escaped(d \o t)) = Escaped(BlankControl[d] \o Read(t))
  <2> DEFINE m == Marshal(t)
             e == BlankControl[d]
  <2>1. m \in Texts /\ d \o t \in Texts /\ Marshal(d \o t) = d \o m /\ d \o m \in Texts
    BY MarshalRecurs, CodeReads, DigitsCopied
  <2>2. Marshal(Escaped(d \o t)) = <<Bs>> \o Escaped(d \o m)
    BY <1>6, <2>1
  <2>3. e \in Codes /\ Read(t) = Unmarshal(fix(m))
    BY <1>1, Repeats
  <2> HIDE DEF m
  <2>4. fix(m) \in Texts /\ fix(Escaped(d \o m)) = Escaped(e \o fix(m))
    BY <1>0, <2>1
  <2> HIDE DEF e
  <2>5. fix(<<Bs>> \o Escaped(d \o m)) = <<Bs>> \o Escaped(e \o fix(m))
    <3>1. Escaped(d \o m) \in Texts /\ ~Starts(Escaped(d \o m), "u")
      BY <1>4, <2>1
    <3>2. fix(<<Bs>> \o Escaped(d \o m)) = <<Bs>> \o fix(Escaped(d \o m))
      BY <1>0, <1>3, <3>1
    <3> QED
      BY <2>4, <3>2
  <2> DEFINE r == e \o fix(m)
  <2>6. r \in Texts /\ Unmarshal(r) = e \o Unmarshal(fix(m))
    BY <2>3, <2>4, CodeReads, DigitsCopied
  <2> HIDE DEF r
  <2>7. <<"u">> \o r \in Texts /\ Unmarshal(<<"u">> \o r) = <<"u">> \o Unmarshal(r)
    <3>1. "u" \notin {Bs, Quote, Zero, Control}
      BY <1>3 DEF Good
    <3>2. "u" \in Characters /\ r \in Texts
      BY <1>3, <2>6
    <3>3. <<"u">> \o r \in Texts
      BY <1>2, <3>2
    <3>4. Unmarshal(<<"u">> \o r) = <<"u">> \o Unmarshal(r)
      BY <3>1, <3>2, UnmarshalRecurs
    <3> QED
      BY <3>3, <3>4
  <2>8. Unmarshal(<<Bs>> \o Escaped(r)) = <<Bs>> \o Unmarshal(<<"u">> \o r)
    BY <2>7, UnmarshalRecurs DEF Escaped
  <2>9. Unmarshal(<<Bs>> \o Escaped(r)) = Escaped(e \o Unmarshal(fix(m)))
    BY <2>6, <2>7, <2>8 DEF Escaped
  <2> QED
    BY <1>1, <2>2, <2>3, <2>5, <2>9 DEF r, e
<1>9. Read(<< >>) = << >>
  BY <1>0, <1>1, MarshalRecurs, UnmarshalRecurs
<1>10. \A t \in Texts : Read(t) \in Texts
  BY <1>0, <1>1, MarshalRecurs, UnmarshalRecurs
<1> QED
  BY <1>5, <1>7, <1>8, <1>9, <1>10

(***************************************************************************)
(* The escapes of a text, and those of what follows its beginning.         *)
(***************************************************************************)
\* Does the text spell out the code of a control character?
SpellsControl(s) ==
    \E i \in DOMAIN s : EscapeAt(s, i) /\ DigitsAt(s, i) /\ CodeAt(s, i) \in ControlCodes

LEMMA Shifted ==
    ASSUME NEW p \in Texts, NEW t \in Texts, NEW i \in 1..Len(t)
    PROVE  /\ EscapeAt(p \o t, Len(p) + i) <=> EscapeAt(t, i)
           /\ DigitsAt(p \o t, Len(p) + i) <=> DigitsAt(t, i)
           /\ DigitsAt(t, i) => CodeAt(p \o t, Len(p) + i) = CodeAt(t, i)
<1> DEFINE s == p \o t
           n == Len(p)
<1>0. Width \in Nat \ {0}
  BY WidthAssumption
<1>1. /\ s \in Seq(Characters) /\ Len(s) = n + Len(t) /\ n \in Nat /\ Len(t) \in Nat
      /\ \A k \in 1..Len(t) : s[n + k] = t[k]
      /\ t \in Seq(Characters) /\ p \in Seq(Characters)
  BY Joined DEF Texts
<1>2. /\ \A m, k \in 1..Len(t) : SubSeq(s, n + m, n + k) = SubSeq(t, m, k)
  <2> SUFFICES ASSUME NEW m \in 1..Len(t), NEW k \in 1..Len(t)
               PROVE  SubSeq(p \o t, n + m, n + k) = SubSeq(t, m, k)
    OBVIOUS
  <2> DEFINE a == n + m
             b == n + k
  <2>1. /\ a \in (Len(p) + 1)..(Len(p) + Len(t)) /\ b \in (Len(p) + 1)..(Len(p) + Len(t))
        /\ a - Len(p) = m /\ b - Len(p) = k
    BY <1>1
  <2> HIDE DEF a, b
  <2>2. SubSeq(p \o t, a, b) = SubSeq(t, a - Len(p), b - Len(p))
    BY <1>1, <2>1, SubSeqOfConcat2
  <2> QED
    BY <2>1, <2>2 DEF a, b
<1> HIDE DEF s, n
<1>3. EscapeAt(s, n + i) <=> EscapeAt(t, i)
  <2>1. n + i < Len(s) <=> i < Len(t)
    BY <1>1
  <2>2. s[n + i] = t[i] /\ (i < Len(t) => s[n + (i + 1)] = t[i + 1] /\ n + i + 1 = n + (i + 1))
    BY <1>1
  <2> QED
    BY <2>1, <2>2 DEF EscapeAt
<1>4. DigitsAt(s, n + i) <=> DigitsAt(t, i)
  <2>1. n + i + 1 + Width <= Len(s) <=> i + 1 + Width <= Len(t)
    BY <1>0, <1>1
  <2>2. ASSUME i + 1 + Width <= Len(t), NEW k \in (i + 2)..(i + 1 + Width)
        PROVE  s[n + k] = t[k] /\ n + k \in (n + i + 2)..(n + i + 1 + Width)
    <3>1. k \in 1..Len(t)
      BY <1>0, <1>1, <2>2
    <3> QED
      BY <1>0, <1>1, <2>2, <3>1
  <2>3. ASSUME i + 1 + Width <= Len(t), NEW k \in (n + i + 2)..(n + i + 1 + Width)
        PROVE  k - n \in (i + 2)..(i + 1 + Width) /\ s[k] = t[k - n]
    <3>1. k - n \in 1..Len(t) /\ k = n + (k - n)
      BY <1>0, <1>1, <2>3
    <3> QED
      BY <1>0, <1>1, <2>3, <3>1
  <2>4. ASSUME DigitsAt(s, n + i) PROVE DigitsAt(t, i)
    <3>1. i + 1 + Width <= Len(t)
      BY <2>1, <2>4 DEF DigitsAt
    <3>2. ASSUME NEW k \in (i + 2)..(i + 1 + Width) PROVE t[k] \in HexDigits
      BY <2>2, <2>4, <3>1 DEF DigitsAt
    <3> QED
      BY <3>1, <3>2 DEF DigitsAt
  <2>5. ASSUME DigitsAt(t, i) PROVE DigitsAt(s, n + i)
    <3>1. i + 1 + Width <= Len(t)
      BY <2>5 DEF DigitsAt
    <3>2. ASSUME NEW k \in (n + i + 2)..(n + i + 1 + Width) PROVE s[k] \in HexDigits
      BY <2>3, <2>5, <3>1 DEF DigitsAt
    <3> QED
      BY <2>1, <3>1, <3>2 DEF DigitsAt
  <2> QED
    BY <2>4, <2>5
<1>5. ASSUME DigitsAt(t, i) PROVE CodeAt(s, n + i) = CodeAt(t, i)
  <2>1. i + 1 + Width <= Len(t)
    BY <1>5 DEF DigitsAt
  <2>2. /\ i + 2 \in 1..Len(t) /\ i + 1 + Width \in 1..Len(t)
        /\ n + i + 2 = n + (i + 2) /\ n + i + 1 + Width = n + (i + 1 + Width)
    BY <1>0, <1>1, <2>1
  <2> QED
    BY <1>2, <2>2 DEF CodeAt
<1> QED
  BY <1>3, <1>4, <1>5 DEF s, n

\* An escape is in the beginning or in the rest.
LEMMA EscapesSplit ==
    ASSUME NEW p \in Texts, NEW t \in Texts
    PROVE  /\ BadEscape(p \o t) <=>
                  \/ BadEscape(t)
                  \/ \E i \in 1..Len(p) : EscapeAt(p \o t, i) /\ ~DigitsAt(p \o t, i)
           /\ SpellsControl(p \o t) <=>
                  \/ SpellsControl(t)
                  \/ \E i \in 1..Len(p) : EscapeAt(p \o t, i) /\ DigitsAt(p \o t, i)
                                          /\ CodeAt(p \o t, i) \in ControlCodes
<1> DEFINE s == p \o t
           n == Len(p)
<1>1. /\ s \in Seq(Characters) /\ Len(s) = n + Len(t) /\ n \in Nat /\ Len(t) \in Nat
      /\ t \in Seq(Characters)
  BY Joined DEF Texts
<1>2. \A i \in 1..Len(t) : /\ EscapeAt(s, n + i) <=> EscapeAt(t, i)
                           /\ DigitsAt(s, n + i) <=> DigitsAt(t, i)
                           /\ DigitsAt(t, i) => CodeAt(s, n + i) = CodeAt(t, i)
  BY Shifted
<1> HIDE DEF s, n
<1>3. DOMAIN s = 1..Len(s) /\ DOMAIN t = 1..Len(t)
  BY <1>1, LenProperties
<1>4. \A i \in 1..Len(t) : n + i \in 1..Len(s)
  BY <1>1
<1>5. \A k \in 1..Len(s) : k \in 1..n \/ (k - n \in 1..Len(t) /\ n + (k - n) = k)
  BY <1>1
<1>6. \A i \in 1..n : i \in 1..Len(s)
  BY <1>1
<1>7. BadEscape(s) <=> \/ BadEscape(t)
                       \/ \E i \in 1..n : EscapeAt(s, i) /\ ~DigitsAt(s, i)
  <2>1. ASSUME BadEscape(t) PROVE BadEscape(s)
    BY <1>2, <1>3, <1>4, <2>1 DEF BadEscape
  <2>2. ASSUME NEW i \in 1..n, EscapeAt(s, i) /\ ~DigitsAt(s, i) PROVE BadEscape(s)
    BY <1>3, <1>6, <2>2 DEF BadEscape
  <2>3. ASSUME BadEscape(s), \A i \in 1..n : ~(EscapeAt(s, i) /\ ~DigitsAt(s, i))
        PROVE  BadEscape(t)
    <3>1. PICK k \in 1..Len(s) : EscapeAt(s, k) /\ ~DigitsAt(s, k)
      BY <1>3, <2>3 DEF BadEscape
    <3>2. k - n \in 1..Len(t) /\ n + (k - n) = k
      BY <1>5, <2>3, <3>1
    <3>3. EscapeAt(t, k - n) /\ ~DigitsAt(t, k - n)
      BY <1>2, <3>1, <3>2
    <3> QED
      BY <1>3, <3>2, <3>3 DEF BadEscape
  <2> QED
    BY <2>1, <2>2, <2>3
<1>8. SpellsControl(s) <=>
          \/ SpellsControl(t)
          \/ \E i \in 1..n : EscapeAt(s, i) /\ DigitsAt(s, i) /\ CodeAt(s, i) \in ControlCodes
  <2>1. ASSUME SpellsControl(t) PROVE SpellsControl(s)
    BY <1>2, <1>3, <1>4, <2>1 DEF SpellsControl
  <2>2. ASSUME NEW i \in 1..n, EscapeAt(s, i) /\ DigitsAt(s, i) /\ CodeAt(s, i) \in ControlCodes
        PROVE  SpellsControl(s)
    BY <1>3, <1>6, <2>2 DEF SpellsControl
  <2>3. ASSUME SpellsControl(s),
               \A i \in 1..n :
                   ~(EscapeAt(s, i) /\ DigitsAt(s, i) /\ CodeAt(s, i) \in ControlCodes)
        PROVE  SpellsControl(t)
    <3>1. PICK k \in 1..Len(s) : EscapeAt(s, k) /\ DigitsAt(s, k) /\ CodeAt(s, k) \in ControlCodes
      BY <1>3, <2>3 DEF SpellsControl
    <3>2. k - n \in 1..Len(t) /\ n + (k - n) = k
      BY <1>5, <2>3, <3>1
    <3>3. EscapeAt(t, k - n) /\ DigitsAt(t, k - n) /\ CodeAt(t, k - n) \in ControlCodes
      BY <1>2, <3>1, <3>2
    <3> QED
      BY <1>3, <3>2, <3>3 DEF SpellsControl
  <2> QED
    BY <2>1, <2>2, <2>3
<1> QED
  BY <1>7, <1>8 DEF s, n

\* Shape by shape.
LEMMA EscapesRecur ==
    /\ ~BadEscape(<< >>) /\ ~SpellsControl(<< >>)
    /\ \A c \in Characters, t \in Texts :
           ~(c = Bs /\ Starts(t, "u")) =>
               /\ BadEscape(<<c>> \o t) <=> BadEscape(t)
               /\ SpellsControl(<<c>> \o t) <=> SpellsControl(t)
    /\ \A t \in Texts : ~HexAhead(t, Width) => BadEscape(Escaped(t))
    /\ \A d \in Codes, t \in Texts :
           /\ BadEscape(Escaped(d \o t)) <=> BadEscape(t)
           /\ SpellsControl(Escaped(d \o t)) <=> SpellsControl(t) \/ d \in ControlCodes
<1>1. ~BadEscape(<< >>) /\ ~SpellsControl(<< >>)
  BY DEF BadEscape, SpellsControl
<1>2. ASSUME NEW c \in Characters, NEW t \in Texts, ~(c = Bs /\ Starts(t, "u"))
      PROVE  /\ BadEscape(<<c>> \o t) <=> BadEscape(t)
             /\ SpellsControl(<<c>> \o t) <=> SpellsControl(t)
  <2> DEFINE p == <<c>>
  <2>1. p \in Texts /\ Len(p) = 1
    BY DEF Texts
  <2>2. ~EscapeAt(p \o t, 1)
    BY <1>2, ConsReads
  <2> HIDE DEF p
  <2>3. \A i \in 1..Len(p) : i = 1
    BY <2>1
  <2> QED
    BY <2>1, <2>2, <2>3, EscapesSplit DEF p
<1>3. ASSUME NEW t \in Texts, ~HexAhead(t, Width) PROVE BadEscape(Escaped(t))
  <2>1. Escaped(t) \in Texts /\ Len(Escaped(t)) = 2 + Len(t) /\ Len(t) \in Nat
    BY EscapedAs, Distinct DEF Texts
  <2>2. 1 \in DOMAIN Escaped(t)
    BY <2>1, LenProperties DEF Texts
  <2> QED
    BY <1>3, <2>2, EscapedReads DEF BadEscape
<1>4. ASSUME NEW d \in Codes, NEW t \in Texts
      PROVE  /\ BadEscape(Escaped(d \o t)) <=> BadEscape(t)
             /\ SpellsControl(Escaped(d \o t)) <=> SpellsControl(t) \/ d \in ControlCodes
  <2> DEFINE p == Escaped(d)
             s == p \o t
  <2>0. Width \in Nat \ {0} /\ d \in Texts /\ Len(d) = Width /\ d \o t \in Texts
        /\ \A k \in 1..Width : d[k] \in HexDigits
    BY WidthAssumption, CodesAreTexts, CodeReads
  <2>1. /\ p \in Texts /\ Len(p) = 2 + Width /\ p[2] = "u"
        /\ \A i \in 1..Width : p[2 + i] = d[i]
    BY <2>0, EscapedAs, Distinct DEF Texts
  <2>2. s = Escaped(d \o t)
    <3> DEFINE e == <<Bs, "u">>
    <3>1. e \in Seq(Characters) /\ d \in Seq(Characters) /\ t \in Seq(Characters)
          /\ p = e \o d /\ Escaped(d \o t) = e \o (d \o t)
      BY <2>0, EscapedAs, Distinct, Pair DEF Texts
    <3> HIDE DEF e, p
    <3> QED
      BY <3>1, ConcatAssociative
  <2> HIDE DEF p
  <2>3. \A i \in 1..Len(p) : s[i] = p[i]
    BY <2>1, Joined DEF Texts
  <2>4. EscapeAt(s, 1) /\ DigitsAt(s, 1) /\ CodeAt(s, 1) = d
    BY <2>0, <2>2, CodeReads, EscapedReads
  <2>5. ASSUME NEW i \in 1..Len(p), i # 1 PROVE ~EscapeAt(s, i)
    <3>1. CASE i = 2
      BY <2>1, <2>3, <3>1, Distinct DEF EscapeAt
    <3>2. CASE i # 2
      <4>1. i - 2 \in 1..Width /\ 2 + (i - 2) = i
        BY <2>0, <2>1, <2>5, <3>2
      <4>2. s[i] \in HexDigits
        BY <2>0, <2>1, <2>3, <4>1
      <4> QED
        BY <4>2, Distinct DEF EscapeAt
    <3> QED
      BY <3>1, <3>2
  <2>6. 1 \in 1..Len(p)
    BY <2>0, <2>1
  <2> HIDE DEF s
  <2>7. /\ BadEscape(s) <=>
               \/ BadEscape(t)
               \/ \E i \in 1..Len(p) : EscapeAt(s, i) /\ ~DigitsAt(s, i)
        /\ SpellsControl(s) <=>
               \/ SpellsControl(t)
               \/ \E i \in 1..Len(p) : EscapeAt(s, i) /\ DigitsAt(s, i)
                                       /\ CodeAt(s, i) \in ControlCodes
    BY <2>1, EscapesSplit DEF s
  <2>8. BadEscape(s) <=> BadEscape(t)
    BY <2>4, <2>5, <2>7
  <2>9. SpellsControl(s) <=> SpellsControl(t) \/ d \in ControlCodes
    BY <2>4, <2>5, <2>6, <2>7
  <2> QED
    BY <2>2, <2>8, <2>9
<1> QED
  BY <1>1, <1>2, <1>3, <1>4

\* What the first sanitiser leaves is good; it changes nothing if every \u has its
\* code, and a \u without one is still there if there was one.
LEMMA SanitizedOnce ==
    ASSUME NEW x \in Seq(Good)
    PROVE  /\ FixEscapes(Same, x) \in Seq(Good)
           /\ ~BadEscape(x) => FixEscapes(Same, x) = x
           /\ BadEscape(x) => BadEscape(FixEscapes(Same, x))
<1> DEFINE fix(s) == FixEscapes(Same, s)
           Fine(s) == /\ fix(s) \in Seq(Good)
                      /\ ~BadEscape(s) => fix(s) = s
                      /\ BadEscape(s) => BadEscape(fix(s))
           T == {s \in Seq(Good) : Fine(s)}
<1>0. /\ fix(<< >>) = << >> /\ \A s \in Texts : fix(s) \in Texts
      /\ \A c \in Characters, s \in Texts :
             ~(c = Bs /\ Starts(s, "u")) => fix(<<c>> \o s) = <<c>> \o fix(s)
      /\ \A s \in Texts : ~HexAhead(s, Width) => fix(Escaped(s)) = <<Bs>> \o Escaped(fix(s))
      /\ \A d \in Codes, s \in Texts : fix(Escaped(d \o s)) = Escaped(d \o fix(s))
      /\ \A s \in Texts : HexAhead(fix(s), Width) => HexAhead(s, Width)
  <2>1. Same \in [Codes -> Codes] /\ \A d \in Codes : Same[d] = d
    BY Tables
  <2>2. \A d \in Codes, s \in Texts : fix(Escaped(d \o s)) = Escaped(Same[d] \o fix(s))
    BY <2>1, FixRecurs
  <2>3. \A d \in Codes, s \in Texts : fix(Escaped(d \o s)) = Escaped(d \o fix(s))
    BY <2>1, <2>2
  <2>4. \A s \in Texts : HexAhead(fix(s), Width) => HexAhead(s, Width)
    BY <2>1, FixBegins, WidthAssumption
  <2> QED
    BY <2>1, <2>3, <2>4, FixRecurs
<1>1. Good \in SUBSET Characters /\ Bs \in Good /\ "u" \in Good /\ HexDigits \subseteq Good
      /\ Bs # "u"
  BY Tables, Distinct
<1> HIDE DEF fix
<1>2. << >> \in T /\ T \in SUBSET Seq(Good)
  <2>1. << >> \in Seq(Good) /\ fix(<< >>) = << >> /\ ~BadEscape(<< >>)
    BY <1>0, EscapesRecur
  <2> QED
    BY <2>1
<1>3. ASSUME NEW c \in Good, NEW t \in T, ~(c = Bs /\ Starts(t, "u")) PROVE <<c>> \o t \in T
  <2>1. t \in Texts /\ t \in Seq(Good) /\ Fine(t) /\ c \in Characters
    BY <1>1, SeqMonotonic DEF Texts
  <2>2. <<c>> \o t \in Seq(Good) /\ <<c>> \o fix(t) \in Seq(Good)
    BY <2>1, Cons
  <2>3. fix(<<c>> \o t) = <<c>> \o fix(t) /\ (BadEscape(<<c>> \o t) <=> BadEscape(t))
    BY <1>0, <1>3, <2>1, EscapesRecur
  <2>4. ASSUME BadEscape(t) PROVE BadEscape(<<c>> \o fix(t))
    <3>1. fix(t) \in Texts /\ BadEscape(fix(t)) /\ <<c>> \in Texts
      BY <1>0, <2>1, <2>4, Single DEF Texts
    <3> QED
      BY <3>1, EscapesSplit
  <2> QED
    BY <2>1, <2>2, <2>3, <2>4
<1>4. ASSUME NEW t \in T, ~HexAhead(t, Width), Escaped(t) \in Seq(Good) PROVE Escaped(t) \in T
  <2>1. t \in Texts /\ t \in Seq(Good) /\ Fine(t)
    BY <1>1, SeqMonotonic DEF Texts
  <2>2. fix(Escaped(t)) = <<Bs>> \o Escaped(fix(t)) /\ BadEscape(Escaped(t))
    BY <1>0, <1>4, <2>1, EscapesRecur
  <2>3. fix(t) \in Texts /\ ~HexAhead(fix(t), Width)
    BY <1>0, <1>4, <2>1
  <2>4. BadEscape(Escaped(fix(t))) /\ Escaped(fix(t)) \in Texts
    BY <2>3, EscapesRecur, EscapedAs, Distinct DEF Texts
  <2>5. BadEscape(<<Bs>> \o Escaped(fix(t)))
    <3>1. <<Bs>> \in Texts
      BY Distinct, Single DEF Texts
    <3> QED
      BY <2>4, <3>1, EscapesSplit
  <2>6. <<Bs>> \o Escaped(fix(t)) \in Seq(Good)
    BY <1>1, <2>1, EscapedAs, Cons
  <2> QED
    BY <1>4, <2>2, <2>5, <2>6
<1>5. ASSUME NEW d \in Codes, NEW t \in T, Escaped(d \o t) \in Seq(Good)
      PROVE  Escaped(d \o t) \in T
  <2>1. t \in Texts /\ t \in Seq(Good) /\ Fine(t) /\ fix(t) \in Texts
    BY <1>0, <1>1, SeqMonotonic DEF Texts
  <2>2. /\ fix(Escaped(d \o t)) = Escaped(d \o fix(t))
        /\ BadEscape(Escaped(d \o t)) <=> BadEscape(t)
        /\ BadEscape(Escaped(d \o fix(t))) <=> BadEscape(fix(t))
    BY <1>0, <2>1, EscapesRecur
  <2>3. d \in Seq(Good)
    BY <1>1, CodesAreTexts, SeqMonotonic
  <2>4. d \o fix(t) \in Seq(Good)
    BY <2>1, <2>3, ConcatProperties
  <2>5. Escaped(d \o fix(t)) \in Seq(Good)
    BY <1>1, <2>4, EscapedAs
  <2> QED
    BY <1>5, <2>1, <2>2, <2>5
<1> HIDE DEF T
<1>6. T = Seq(Good)
  BY <1>1, <1>2, <1>3, <1>4, <1>5, ByShape
<1> QED
  BY <1>6 DEF T, fix

\* What is read of a good text: itself, but for the codes of control characters,
\* if every \u has its code, and no JSON if one has not.
LEMMA ReadBack ==
    ASSUME NEW x \in Seq(Good)
    PROVE  /\ BadEscape(x) => Has(Read(x), Invalid)
           /\ ~BadEscape(x) => Read(x) \in Seq(Good)
           /\ ~BadEscape(x) /\ ~SpellsControl(x) => Read(x) = x
<1> DEFINE Fine(s) == /\ BadEscape(s) => Has(Read(s), Invalid)
                      /\ ~BadEscape(s) => Read(s) \in Seq(Good)
                      /\ ~BadEscape(s) /\ ~SpellsControl(s) => Read(s) = s
           T == {s \in Seq(Good) : Fine(s)}
<1>1. Good \in SUBSET Characters /\ Bs \in Good /\ "u" \in Good /\ HexDigits \subseteq Good
  BY Tables
<1>2. ASSUME NEW p \in Texts, NEW s \in Texts, Has(s, Invalid) PROVE Has(p \o s, Invalid)
  <2>1. PICK i \in 1..Len(s) : s[i] = Invalid
    BY <1>2, LenProperties DEF Has, Texts
  <2>2. /\ p \o s \in Seq(Characters) /\ Len(p \o s) = Len(p) + Len(s)
        /\ Len(p) \in Nat /\ Len(s) \in Nat /\ (p \o s)[Len(p) + i] = s[i]
    BY Joined DEF Texts
  <2>3. Len(p) + i \in DOMAIN (p \o s)
    <3>1. DOMAIN (p \o s) = 1..Len(p \o s)
      BY <2>2, LenProperties
    <3> QED
      BY <2>2, <3>1
  <2> QED
    BY <2>1, <2>2, <2>3 DEF Has
<1>3. << >> \in T /\ T \in SUBSET Seq(Good)
  <2>1. << >> \in Seq(Good) /\ Read(<< >>) = << >> /\ ~BadEscape(<< >>)
    BY ReadRecurs, EscapesRecur
  <2> QED
    BY <2>1
<1>4. ASSUME NEW c \in Good, NEW t \in T, ~(c = Bs /\ Starts(t, "u")) PROVE <<c>> \o t \in T
  <2>1. /\ t \in Texts /\ t \in Seq(Good) /\ Fine(t) /\ c \in Characters
        /\ Read(t) \in Texts /\ <<c>> \in Texts
    BY <1>1, SeqMonotonic, ReadRecurs, Single DEF Texts
  <2>2. Read(<<c>> \o t) = <<c>> \o Read(t)
    BY <1>4, <2>1, ReadRecurs
  <2>3. /\ BadEscape(<<c>> \o t) <=> BadEscape(t)
        /\ SpellsControl(<<c>> \o t) <=> SpellsControl(t)
    BY <1>4, <2>1, EscapesRecur
  <2>4. <<c>> \o t \in Seq(Good)
    BY <2>1, Cons
  <2>5. ASSUME BadEscape(t) PROVE Has(<<c>> \o Read(t), Invalid)
    BY <1>2, <2>1, <2>5
  <2>6. ASSUME ~BadEscape(t) PROVE <<c>> \o Read(t) \in Seq(Good)
    BY <2>1, <2>6, Cons
  <2> QED
    BY <2>1, <2>2, <2>3, <2>4, <2>5, <2>6
<1>5. ASSUME NEW t \in T, ~HexAhead(t, Width), Escaped(t) \in Seq(Good) PROVE Escaped(t) \in T
  <2>1. t \in Texts
    BY <1>1, SeqMonotonic DEF Texts
  <2>2. Read(Escaped(t)) = <<Bs>> \o <<Invalid>> /\ BadEscape(Escaped(t))
    BY <1>5, <2>1, ReadRecurs, EscapesRecur
  <2>3. Has(<<Invalid>>, Invalid)
    BY DEF Has
  <2>4. <<Bs>> \in Texts /\ <<Invalid>> \in Texts
    BY Single DEF Texts, Characters
  <2>5. Has(<<Bs>> \o <<Invalid>>, Invalid)
    BY <1>2, <2>3, <2>4
  <2> QED
    BY <1>5, <2>2, <2>5
<1>6. ASSUME NEW d \in Codes, NEW t \in T, Escaped(d \o t) \in Seq(Good)
      PROVE  Escaped(d \o t) \in T
  <2> DEFINE e == BlankControl[d]
  <2>1. /\ t \in Texts /\ t \in Seq(Good) /\ Fine(t) /\ Read(t) \in Texts
        /\ e \in Codes /\ (d \notin ControlCodes => e = d)
    BY <1>1, SeqMonotonic, ReadRecurs, Repeats DEF Texts
  <2>2. Read(Escaped(d \o t)) = Escaped(e \o Read(t))
    BY <2>1, ReadRecurs
  <2> HIDE DEF e
  <2>3. /\ BadEscape(Escaped(d \o t)) <=> BadEscape(t)
        /\ SpellsControl(Escaped(d \o t)) <=> SpellsControl(t) \/ d \in ControlCodes
    BY <2>1, EscapesRecur
  <2>4. e \in Seq(Good) /\ e \in Texts
    BY <1>1, <2>1, CodesAreTexts, SeqMonotonic
  <2>5. ASSUME BadEscape(t) PROVE Has(Escaped(e \o Read(t)), Invalid)
    <3>1. Has(e \o Read(t), Invalid) /\ e \o Read(t) \in Texts
      BY <1>2, <2>1, <2>4, <2>5, ConcatProperties DEF Texts
    <3>2. <<"u">> \in Texts /\ <<Bs>> \in Texts /\ <<"u">> \o (e \o Read(t)) \in Texts
      BY <3>1, Distinct, Single, Cons DEF Texts
    <3> QED
      BY <1>2, <3>1, <3>2 DEF Escaped
  <2>6. ASSUME ~BadEscape(t) PROVE Escaped(e \o Read(t)) \in Seq(Good)
    <3>1. e \o Read(t) \in Seq(Good)
      BY <2>1, <2>4, <2>6, ConcatProperties
    <3> QED
      BY <1>1, <3>1, EscapedAs
  <2> QED
    BY <1>6, <2>1, <2>2, <2>3, <2>5, <2>6
<1> HIDE DEF T
<1>7. T = Seq(Good)
  BY <1>1, <1>3, <1>4, <1>5, <1>6, ByShape
<1> QED
  BY <1>7 DEF T

LEMMA TopicTexts ==
    ASSUME NEW h \in Texts
    PROVE  HashToString(h) \in Texts /\ Each(CleanChar, HashToString(h)) \in Seq(Good)
<1> DEFINE Last(n) == /\ n > 0 => h[n] # Zero
                      /\ \A i \in (n + 1)..Len(h) : h[i] = Zero
           Tail0 == {n \in Nat : n <= Len(h) /\ \A i \in (n + 1)..Len(h) : h[i] = Zero}
<1>1. Len(h) \in Nat
  BY LenProperties DEF Texts
<1>2. \E n \in 0..Len(h) : Last(n)
  <2>1. Len(h) \in Tail0 /\ Tail0 \in SUBSET Nat
    BY <1>1
  <2>2. PICK n \in Tail0 : \A m \in Tail0 : n <= m
    <3> HIDE DEF Tail0
    <3> QED
      BY <2>1, LeastNumber
  <2>3. n \in Nat /\ n <= Len(h) /\ \A i \in (n + 1)..Len(h) : h[i] = Zero
    OBVIOUS
  <2>4. ASSUME n > 0, h[n] = Zero PROVE FALSE
    <3>1. n - 1 \in Nat /\ n - 1 <= Len(h) /\ ~(n <= n - 1)
      BY <1>1, <2>3, <2>4
    <3>2. ASSUME NEW i \in (n - 1 + 1)..Len(h) PROVE h[i] = Zero
      <4>1. i = n \/ i \in (n + 1)..Len(h)
        BY <1>1, <2>3
      <4> QED
        BY <2>3, <2>4, <4>1
    <3>3. n - 1 \in Tail0
      BY <3>1, <3>2
    <3> QED
      BY <2>2, <3>1, <3>3
  <2> QED
    BY <1>1, <2>3, <2>4
<1> DEFINE n == CHOOSE k \in 0..Len(h) : Last(k)
<1>3. n \in 0..Len(h)
  BY <1>2
<1>4. HashToString(h) = SubSeq(h, 1, n)
  BY DEF HashToString
<1> HIDE DEF n
<1>5. HashToString(h) \in Texts
  BY <1>3, <1>4, Parts DEF Texts
<1>6. Characters \in SUBSET Characters /\ Good \in SUBSET Characters
      /\ CleanChar \in [Characters -> Texts] /\ \A c \in Characters : CleanChar[c] \in Seq(Good)
  BY Tables
<1> QED
  BY <1>5, <1>6, EachIn DEF Texts

\* The way of a topic into the column and back.
LEMMA TopicSent ==
    ASSUME NEW h \in Texts
    PROVE  LET clean == Each(CleanChar, HashToString(h))
           IN  /\ Accepted(Sent(h)) <=> ~BadEscape(clean)
               /\ ~BadEscape(clean) /\ ~SpellsControl(clean) => GetEvents({Sent(h)}) = {clean}
<1> DEFINE clean == Each(CleanChar, HashToString(h))
           x == SanitizeString(HashToString(h))
<1>1. clean \in Seq(Good)
  BY TopicTexts
<1>2. x = FixEscapes(Same, clean)
  BY DEF SanitizeString
<1>3. Sent(h) = SanitizeJSONString(Marshal(Unmarshal(Marshal(x))))
  BY DEF Sent, SanitizeEvent
<1> HIDE DEF x, clean
<1>4. /\ x \in Seq(Good) /\ (~BadEscape(clean) => x = clean)
      /\ BadEscape(clean) => BadEscape(x)
  BY <1>1, <1>2, SanitizedOnce
<1>5. Unmarshal(Sent(h)) = Read(x)
  BY <1>3, <1>4, ReadsWhatWasWritten DEF Read
<1>6. ASSUME ~BadEscape(clean) PROVE ~Has(Read(x), Invalid) /\ ~Has(Read(x), Zero)
  <2>1. Read(x) \in Seq(Good)
    BY <1>4, <1>6, ReadBack
  <2>2. \A i \in DOMAIN Read(x) : Read(x)[i] \in Good
    BY <2>1, LenProperties, ElementOfSeq
  <2> QED
    BY <2>2 DEF Has, Good
<1>7. ASSUME BadEscape(clean) PROVE Has(Read(x), Invalid)
  BY <1>4, <1>7, ReadBack
<1>8. ASSUME ~BadEscape(clean), ~SpellsControl(clean) PROVE GetEvents({Sent(h)}) = {clean}
  <2>1. Read(x) = clean
    BY <1>1, <1>4, <1>8, ReadBack
  <2> QED
    BY <1>5, <1>6, <1>8, <2>1 DEF GetEvents
<1>9. Accepted(Sent(h)) <=> ~BadEscape(clean)
  BY <1>5, <1>6, <1>7 DEF Accepted
<1> QED
  BY <1>8, <1>9 DEF clean

(***************************************************************************)
(* Batches.                                                                *)
(***************************************************************************)
LEMMA Multiples ==
    ASSUME NEW k \in Nat \ {0}
    PROVE  /\ \A n \in Nat : n * k \in Nat /\ n <= n * k /\ (n + 1) * k = n * k + k
           /\ \A n, m \in Nat : n < m => n * k + k <= m * k
<1>1. ASSUME NEW n \in Nat PROVE n * k \in Nat /\ n <= n * k /\ (n + 1) * k = n * k + k
  <2>1. n * k \in Nat /\ (n + 1) * k = n * k + k
    OBVIOUS
  <2>2. n * k = n + n * (k - 1)
    OBVIOUS
  <2>3. n * (k - 1) \in Nat
    OBVIOUS
  <2> QED
    BY <2>1, <2>2, <2>3
<1>2. ASSUME NEW n \in Nat, NEW m \in Nat, n < m PROVE n * k + k <= m * k
  <2> DEFINE d == m - (n + 1)
  <2>1. d \in Nat /\ m = n + 1 + d
    BY <1>2
  <2> HIDE DEF d
  <2>2. m * k = n * k + k + d * k
    BY <2>1
  <2>3. d * k \in Nat /\ n * k \in Nat
    BY <2>1
  <2> QED
    BY <2>2, <2>3
<1> QED
  BY <1>1, <1>2

\* A block of the range is in one batch, any other in none.
LEMMA BatchOf ==
    ASSUME NEW from \in Nat, NEW to \in Nat, NEW size \in Nat, NEW b \in Nat
    PROVE  LET with == {r \in Batches(from, to, size) : r[1] <= b /\ b <= r[2]}
           IN  /\ ~(from <= b /\ b <= to) => with = {}
               /\ from <= b /\ b <= to => \E r : with = {r}
<1> DEFINE start(n) == from + n * BatchStep(size)
           batch(n) == <<start(n), IF start(n) + size > to THEN to ELSE start(n) + size>>
           with == {r \in Batches(from, to, size) : r[1] <= b /\ b <= r[2]}
           k == size + 1
<1>1. Batches(from, to, size) = {batch(n) : n \in {j \in 0..to : start(j) <= to}}
  BY DEF Batches
<1>2. k \in Nat \ {0} /\ \A n : start(n) = from + n * k
  BY DEF BatchStep
<1>3. /\ \A n \in Nat : n * k \in Nat /\ n <= n * k /\ (n + 1) * k = n * k + k
      /\ \A n, m \in Nat : n < m => n * k + k <= m * k
  <2> HIDE DEF k
  <2> QED
    BY <1>2, Multiples
<1>4. /\ start(0) = from
      /\ \A n \in Nat : /\ start(n) \in Nat /\ from <= start(n) /\ n <= start(n)
                        /\ start(n + 1) = start(n) + size + 1
      /\ \A n, m \in Nat : n < m => start(n) + size < start(m)
  <2>1. start(0) = from
    BY <1>2
  <2>2. ASSUME NEW n \in Nat
        PROVE  /\ start(n) \in Nat /\ from <= start(n) /\ n <= start(n)
               /\ start(n + 1) = start(n) + size + 1
    <3>1. n * k \in Nat /\ n <= n * k /\ (n + 1) * k = n * k + k
      BY <1>3
    <3>2. start(n) = from + n * k /\ start(n + 1) = from + (n + 1) * k
      BY <1>2
    <3> QED
      BY <3>1, <3>2
  <2>3. ASSUME NEW n \in Nat, NEW m \in Nat, n < m PROVE start(n) + size < start(m)
    <3>1. n * k + k <= m * k /\ n * k \in Nat /\ m * k \in Nat
      BY <1>3, <2>3
    <3>2. start(n) = from + n * k /\ start(m) = from + m * k
      BY <1>2
    <3> QED
      BY <3>1, <3>2
  <2> QED
    BY <2>1, <2>2, <2>3
<1>5. \A n : /\ batch(n)[1] = start(n)
             /\ batch(n)[2] = IF start(n) + size > to THEN to ELSE start(n) + size
  OBVIOUS
<1> HIDE DEF start, batch, k
<1> DEFINE covers(n) == start(n) <= b /\ b <= start(n) + size /\ b <= to
<1>6. ASSUME NEW n \in Nat PROVE batch(n)[1] <= b /\ b <= batch(n)[2] <=> covers(n)
  <2>1. start(n) \in Nat
    BY <1>4
  <2>2. /\ batch(n)[1] = start(n)
        /\ batch(n)[2] = IF start(n) + size > to THEN to ELSE start(n) + size
    BY <1>5
  <2> QED
    BY <2>1, <2>2
<1>7. \A r : r \in with <=> \E n \in Nat : covers(n) /\ r = batch(n)
  <2>1. ASSUME NEW n \in Nat, covers(n) PROVE n \in 0..to /\ start(n) <= to
    <3>1. start(n) \in Nat /\ n <= start(n)
      BY <1>4
    <3> QED
      BY <2>1, <3>1
  <2>2. 0..to \subseteq Nat
    OBVIOUS
  <2> QED
    BY <1>1, <1>6, <2>1, <2>2
<1>8. ASSUME ~(from <= b /\ b <= to) PROVE with = {}
  <2>1. ASSUME NEW n \in Nat PROVE ~covers(n)
    <3>1. start(n) \in Nat /\ from <= start(n)
      BY <1>4
    <3> QED
      BY <1>8, <3>1
  <2> HIDE DEF with, covers
  <2> QED
    BY <1>7, <2>1
<1>9. ASSUME from <= b, b <= to PROVE \E r : with = {r}
  <2> DEFINE T == {j \in Nat : start(j) > b}
  <2>1. b + 1 \in T /\ T \in SUBSET Nat
    <3>1. b + 1 \in Nat
      OBVIOUS
    <3>2. start(b + 1) \in Nat /\ b + 1 <= start(b + 1)
      BY <1>4, <3>1
    <3> QED
      BY <3>1, <3>2
  <2>2. PICK m \in T : \A j \in T : m <= j
    <3> HIDE DEF T
    <3>1. T # {}
      BY <2>1
    <3> QED
      BY <2>1, <3>1, LeastNumber
  <2>3. m \in Nat /\ m # 0 /\ start(m) > b
    BY <1>4, <1>9
  <2> DEFINE n == m - 1
  <2>4. n \in Nat /\ n + 1 = m /\ ~(m <= n)
    BY <2>3
  <2> HIDE DEF n
  <2>5. ~(start(n) > b)
    BY <2>2, <2>4
  <2>6. start(n) \in Nat /\ start(m) = start(n) + size + 1
    BY <1>4, <2>4
  <2>7. covers(n)
    BY <1>9, <2>3, <2>5, <2>6
  <2>8. ASSUME NEW j \in Nat, covers(j) PROVE j = n
    <3>1. CASE j < n
      <4>1. start(j) + size < start(n) /\ start(j) \in Nat
        BY <1>4, <2>4, <3>1
      <4> QED
        BY <2>7, <2>8, <2>6, <4>1
    <3>2. CASE n < j
      <4>1. start(n) + size < start(j) /\ start(j) \in Nat
        BY <1>4, <2>4, <3>2
      <4> QED
        BY <2>7, <2>8, <2>6, <4>1
    <3> QED
      BY <2>4, <3>1, <3>2
  <2> HIDE DEF with, covers
  <2>9. with = {batch(n)}
    BY <1>7, <2>4, <2>7, <2>8
  <2> QED
    BY <2>9
<1> QED
  BY <1>8, <1>9
\* The batches of the range that hold block b.
With(b, from, to, size) == {r \in Batches(from, to, size) : r[1] <= b /\ b <= r[2]}

LEMMA InOneBatch ==
    ASSUME NEW from \in Nat, NEW to \in Nat, NEW size \in Nat, NEW b \in Nat
    PROVE  Cardinality(With(b, from, to, size)) = IF from <= b /\ b <= to THEN 1 ELSE 0
<1> DEFINE with == With(b, from, to, size)
<1>1. /\ ~(from <= b /\ b <= to) => with = {}
      /\ from <= b /\ b <= to => \E r : with = {r}
  BY BatchOf DEF With
<1> HIDE DEF with
<1>2. Cardinality(with) = IF from <= b /\ b <= to THEN 1 ELSE 0
  BY <1>1, FS_EmptySet, FS_Singleton
<1> QED
  BY <1>2 DEF with

(***************************************************************************)
(* Logs.                                                                   *)
(***************************************************************************)
\* The struct has a field for every argument of the event, of the type it is
\* decoded to, and no other.
SameShape(event, fields) ==
    /\ Fits(event.plain, OfData, fields) /\ Fits(event.indexed, OfTopic, fields)
    /\ DOMAIN fields = DOMAIN event.indexed \cup DOMAIN event.plain

\* The strings among the arguments are those a tag finds and a hash takes.
StringsKnown(event, fields) ==
    \A n \in DOMAIN fields :
        /\ fields[n] \notin {"zero", "text"}
        /\ ArgType(event, n) = "string" => fields[n] = H /\ AbiKnown(n)
                                           /\ n \notin DOMAIN event.plain

LEMMA Registered ==
    \A e \in DOMAIN Events : e \in DOMAIN EventRegistry /\ EventRegistry[e] = EventStructs[e]
BY DEF Events, EventStructs, EventRegistry

LEMMA FileShape == SameShape(FileEvent, FileStruct) /\ StringsKnown(FileEvent, FileStruct)
BY DEF SameShape, StringsKnown, FileEvent, FileStruct, Fits, OfData, OfTopic, GoType,
       ArgType, AbiKnown, OneWord, H, A

LEMMA BucketShape ==
    SameShape(BucketEvent, BucketStruct) /\ StringsKnown(BucketEvent, BucketStruct)
BY DEF SameShape, StringsKnown, BucketEvent, BucketStruct, Fits, OfData, OfTopic, GoType,
       ArgType, AbiKnown, OneWord, H, A, NoArgs

LEMMA PeerShape == SameShape(PeerEvent, PeerStruct) /\ StringsKnown(PeerEvent, PeerStruct)
BY DEF SameShape, StringsKnown, PeerEvent, PeerStruct, Fits, OfData, OfTopic, GoType,
       ArgType, AbiKnown, OneWord, H, A, NoArgs

LEMMA FillShape == SameShape(FillEvent, FillStruct) /\ StringsKnown(FillEvent, FillStruct)
BY DEF SameShape, StringsKnown, FillEvent, FillStruct, Fits, OfData, OfTopic, GoType,
       ArgType, AbiKnown, OneWord, H, A

LEMMA OtherShapes ==
    \A e \in {"AddFileBlocks", "EIP712DomainChanged", "Initialized", "Upgraded"} :
        /\ SameShape(Events[e], EventStructs[e])
        /\ StringsKnown(Events[e], EventStructs[e])
<1>1. SameShape(Events["AddFileBlocks"], EventStructs["AddFileBlocks"])
  BY DEF SameShape, Events, EventStructs, Fits, OfData, OfTopic, GoType, H, A, NoArgs
<1>2. StringsKnown(Events["AddFileBlocks"], EventStructs["AddFileBlocks"])
  BY DEF StringsKnown, Events, EventStructs, ArgType, AbiKnown, OneWord, H, A, NoArgs
<1>3. SameShape(Events["Initialized"], EventStructs["Initialized"])
  BY DEF SameShape, Events, EventStructs, Fits, OfData, OfTopic, GoType, H, A, NoArgs
<1>4. StringsKnown(Events["Initialized"], EventStructs["Initialized"])
  BY DEF StringsKnown, Events, EventStructs, ArgType, AbiKnown, OneWord, H, A, NoArgs
<1>5. SameShape(Events["Upgraded"], EventStructs["Upgraded"])
  BY DEF SameShape, Events, EventStructs, Fits, OfData, OfTopic, GoType, H, A, NoArgs
<1>6. StringsKnown(Events["Upgraded"], EventStructs["Upgraded"])
  BY DEF StringsKnown, Events, EventStructs, ArgType, AbiKnown, OneWord, H, A, NoArgs
<1>7. SameShape(Events["EIP712DomainChanged"], EventStructs["EIP712DomainChanged"])
  BY DEF SameShape, Events, EventStructs, Fits, OfData, OfTopic, GoType, H, A, NoArgs
<1>8. StringsKnown(Events["EIP712DomainChanged"], EventStructs["EIP712DomainChanged"])
  BY DEF StringsKnown, Events, EventStructs, ArgType, AbiKnown, OneWord, H, A, NoArgs
<1> QED
  BY <1>1, <1>2, <1>3, <1>4, <1>5, <1>6, <1>7, <1>8

\* The three tables agree on every event.
LEMMA TablesAgree ==
    \A e \in DOMAIN Events : /\ SameShape(Events[e], EventRegistry[e])
                             /\ StringsKnown(Events[e], EventRegistry[e])
<1>1. \A e \in {"CreateBucket", "DeleteBucket"} :
         Events[e] = BucketEvent /\ EventStructs[e] = BucketStruct
  BY DEF Events, EventStructs
<1>2. \A e \in {"CreateFile", "AddFileChunk", "CommitFile", "DeleteFile"} :
         Events[e] = FileEvent /\ EventStructs[e] = FileStruct
  BY DEF Events, EventStructs
<1>3. \A e \in {"AddPeerBlock", "DeletePeerBlock"} :
         Events[e] = PeerEvent /\ EventStructs[e] = PeerStruct
  BY DEF Events, EventStructs
<1>4. Events["FillChunkBlock"] = FillEvent /\ EventStructs["FillChunkBlock"] = FillStruct
  BY DEF Events, EventStructs
<1>5. DOMAIN Events = {"CreateBucket", "DeleteBucket"}
          \cup {"CreateFile", "AddFileChunk", "CommitFile", "DeleteFile"}
          \cup {"AddPeerBlock", "DeletePeerBlock"} \cup {"FillChunkBlock"}
          \cup {"AddFileBlocks", "EIP712DomainChanged", "Initialized", "Upgraded"}
  BY DEF Events
<1> QED
  BY <1>1, <1>2, <1>3, <1>4, <1>5, Registered, FileShape, BucketShape, PeerShape, FillShape,
     OtherShapes

LEMMA FiltersRegistered == EventTopicFilters \subseteq DOMAIN Events
BY DEF EventTopicFilters, Events

\* A log the filter lets through, in the shape of its event, is decoded whole.
LEMMA LogDecoded ==
    ASSUME NEW log \in Logs, log.event \in EventTopicFilters, log.data = "full",
           log.topics = Cardinality(DOMAIN Events[log.event].indexed)
    PROVE  LET event == Events[log.event]
               data == DecodeAnyLog(log).data
           IN  /\ DecodeAnyLog(log).err = "none"
               /\ DOMAIN data = DOMAIN event.indexed \cup DOMAIN event.plain
               /\ \A n \in DOMAIN event.indexed \cup DOMAIN event.plain :
                     /\ data[n] # "zero"
                     /\ data[n] = "text" <=> ArgType(event, n) = "string"
<1> DEFINE event == Events[log.event]
           fields == EventRegistry[log.event]
           data == DecodeAnyLog(log).data
<1>1. log.event \in DOMAIN EventRegistry /\ log.event # "none"
  BY FiltersRegistered, Registered DEF EventTopicFilters
<1>2. SameShape(event, fields) /\ StringsKnown(event, fields)
  BY FiltersRegistered, TablesAgree
<1>3. UnpackEvent(log) = "none"
  BY <1>2 DEF SameShape, UnpackEvent
<1>4. DecodeAnyLog(log).err = "none" /\ data = StructToMap(log)
  BY <1>1, <1>3 DEF DecodeAnyLog
<1>5. data = [n \in DOMAIN fields |->
                 IF n \in DOMAIN event.plain /\ log.data # "full" THEN "zero"
                 ELSE IF fields[n] # H THEN fields[n]
                 ELSE IF AbiKnown(n) /\ ArgType(event, n) = "string" THEN "text" ELSE "hex"]
  BY <1>4 DEF StructToMap
<1> HIDE DEF data, event, fields
<1>6. DOMAIN fields = DOMAIN event.indexed \cup DOMAIN event.plain
  BY <1>2 DEF SameShape
<1>7. ASSUME NEW n \in DOMAIN fields
      PROVE  data[n] # "zero" /\ (data[n] = "text" <=> ArgType(event, n) = "string")
  <2>1. data[n] = IF fields[n] # H THEN fields[n]
                  ELSE IF AbiKnown(n) /\ ArgType(event, n) = "string" THEN "text" ELSE "hex"
    BY <1>5
  <2> QED
    BY <1>2, <2>1 DEF StringsKnown
<1>8. DOMAIN data = DOMAIN fields
  BY <1>5
<1>9. /\ DOMAIN data = DOMAIN event.indexed \cup DOMAIN event.plain
      /\ \A n \in DOMAIN event.indexed \cup DOMAIN event.plain :
             data[n] # "zero" /\ (data[n] = "text" <=> ArgType(event, n) = "string")
  BY <1>6, <1>7, <1>8
<1> QED
  BY <1>4, <1>9 DEF event, data

LEMMA ZeroesOfLog ==
    ASSUME NEW log, SameShape(Events[log.event], EventRegistry[log.event]),
           StringsKnown(Events[log.event], EventRegistry[log.event])
    PROVE  {n \in DOMAIN StructToMap(log) : StructToMap(log)[n] = "zero"} =
               IF log.data = "full" THEN {} ELSE DOMAIN Events[log.event].plain
<1> DEFINE event == Events[log.event]
           fields == EventRegistry[log.event]
           data == StructToMap(log)
<1>1. data = [n \in DOMAIN fields |->
                 IF n \in DOMAIN event.plain /\ log.data # "full" THEN "zero"
                 ELSE IF fields[n] # H THEN fields[n]
                 ELSE IF AbiKnown(n) /\ ArgType(event, n) = "string" THEN "text" ELSE "hex"]
  BY DEF StructToMap
<1>2. SameShape(event, fields) /\ StringsKnown(event, fields)
  OBVIOUS
<1> HIDE DEF event, fields, data
<1>3. DOMAIN data = DOMAIN fields /\ DOMAIN event.plain \subseteq DOMAIN fields
  BY <1>1, <1>2 DEF SameShape
<1>4. ASSUME NEW n \in DOMAIN fields
      PROVE  data[n] = "zero" <=> n \in DOMAIN event.plain /\ log.data # "full"
  <2>1. fields[n] # "zero"
    BY <1>2 DEF StringsKnown
  <2> QED
    BY <1>1, <2>1
<1> QED
  BY <1>3, <1>4 DEF event, data

\* Any other log is an error, and none is a panic; without data, and only then,
\* the plain arguments are zero.
LEMMA LogWhole ==
    ASSUME NEW log \in Logs
    PROVE  /\ DecodeAnyLog(log).err # "panic"
           /\ DecodeAnyLog(log).err = "none" =>
                  LET event == Events[log.event]
                      data == DecodeAnyLog(log).data
                  IN  /\ log.topics = Cardinality(DOMAIN event.indexed)
                      /\ log.data = "short" => event.plain = NoArgs
                      /\ {n \in DOMAIN data : data[n] = "zero"} =
                             IF log.data = "full" THEN {} ELSE DOMAIN event.plain
<1>1. DOMAIN EventRegistry \subseteq DOMAIN Events
  BY DEF EventRegistry
<1>2. CASE log.event = "none"
  BY <1>2 DEF DecodeAnyLog
<1>3. CASE log.event # "none" /\ log.event \notin DOMAIN EventRegistry
  BY <1>3 DEF DecodeAnyLog
<1>4. CASE log.event # "none" /\ log.event \in DOMAIN EventRegistry
  <2>1. SameShape(Events[log.event], EventRegistry[log.event])
    BY <1>1, <1>4, TablesAgree
  <2>2. DecodeAnyLog(log).err = UnpackEvent(log)
    BY <1>4 DEF DecodeAnyLog
  <2>3. UnpackEvent(log) # "panic"
    BY <2>1 DEF UnpackEvent, SameShape
  <2>4. ASSUME UnpackEvent(log) = "none"
        PROVE  /\ log.topics = Cardinality(DOMAIN Events[log.event].indexed)
               /\ log.data = "short" => Events[log.event].plain = NoArgs
    BY <2>1, <2>4 DEF UnpackEvent, SameShape
  <2>5. ASSUME UnpackEvent(log) = "none"
        PROVE  {n \in DOMAIN DecodeAnyLog(log).data : DecodeAnyLog(log).data[n] = "zero"} =
                   IF log.data = "full" THEN {} ELSE DOMAIN Events[log.event].plain
    <3>1. StringsKnown(Events[log.event], EventRegistry[log.event])
      BY <1>1, <1>4, TablesAgree
    <3>2. DecodeAnyLog(log).data = StructToMap(log)
      BY <1>4, <2>5 DEF DecodeAnyLog
    <3>3. {n \in DOMAIN StructToMap(log) : StructToMap(log)[n] = "zero"} =
              IF log.data = "full" THEN {} ELSE DOMAIN Events[log.event].plain
      BY <2>1, <3>1, ZeroesOfLog
    <3> QED
      BY <3>2, <3>3
  <2> QED
    BY <2>2, <2>3, <2>4, <2>5
<1> QED
  BY <1>2, <1>3, <1>4

(***************************************************************************)
(* Transactions.                                                           *)
(***************************************************************************)
LEMMA TupleFits == FieldByField(FillArgs, FillChunkBlockArgs)
<1>1. Len(FillArgs) = 9 /\ Len(FillChunkBlockArgs) = 9
  BY DEF FillArgs, FillChunkBlockArgs
<1>2. \A i \in 1..9 : FillChunkBlockArgs[i] = GoType[FillArgs[i]]
  BY DEF FillArgs, FillChunkBlockArgs, GoType, H
<1> QED
  BY <1>1, <1>2 DEF FieldByField

LEMMA MethodsRegistered ==
    /\ DOMAIN TxRegistry = DOMAIN Methods /\ "foreign" \notin DOMAIN Methods
    /\ \A m \in DOMAIN Methods : TxRegistry[m] = TxParams[m]
<1>1. DOMAIN Methods = DOMAIN TxParams /\ "foreign" \notin DOMAIN Methods
  BY DEF Methods, TxParams
<1> QED
  BY <1>1 DEF TxRegistry

LEMMA InputTypes ==
    /\ OfInput("bytes32[]") = "[]Hash" /\ OfInput("uint256[]") = "[]Int"
    /\ OfInput("bytes[]") = "[]HexBytes" /\ OfInput("bytes32[][]") = "[][]Hash"
    /\ OfInput("uint256[][]") = "[][]Int" /\ OfInput("tuple") = "FillArgs"
    /\ OfInput("tuple[]") = "[]FillArgs"
    /\ OfInput("bytes32") = H /\ OfInput("string") = "string" /\ OfInput("address") = A
    /\ OfInput("uint256") = "Int" /\ OfInput("bytes") = "HexBytes"
BY TupleFits DEF OfInput, OfData, GoType

\* The struct of every method takes its arguments.
LEMMA ParamsFit ==
    ASSUME NEW m \in DOMAIN Methods
    PROVE  Fits(Methods[m], OfInput, TxParams[m])
<1>1. CASE m = "addFileChunk"
  BY <1>1, InputTypes DEF Fits, Methods, TxParams
<1>2. CASE m = "addFileChunks"
  BY <1>2, InputTypes DEF Fits, Methods, TxParams
<1>3. CASE m = "commitFile"
  BY <1>3, InputTypes DEF Fits, Methods, TxParams
<1>4. CASE m = "createBucket"
  BY <1>4, InputTypes DEF Fits, Methods, TxParams
<1>5. CASE m = "createFile"
  BY <1>5, InputTypes DEF Fits, Methods, TxParams
<1>6. CASE m = "deleteBucket"
  BY <1>6, InputTypes DEF Fits, Methods, TxParams
<1>7. CASE m = "deleteFile"
  BY <1>7, InputTypes DEF Fits, Methods, TxParams
<1>8. CASE m = "fillChunkBlock"
  BY <1>8, InputTypes DEF Fits, Methods, TxParams
<1>9. CASE m = "fillChunkBlocks"
  BY <1>9, InputTypes DEF Fits, Methods, TxParams
<1>10. CASE m = "initialize"
  BY <1>10, InputTypes DEF Fits, Methods, TxParams
<1>11. CASE m = "setAccessManager"
  BY <1>11, InputTypes DEF Fits, Methods, TxParams
<1>12. CASE m = "setAuthority"
  BY <1>12, InputTypes DEF Fits, Methods, TxParams
<1>13. CASE m = "upgradeToAndCall"
  BY <1>13, InputTypes DEF Fits, Methods, TxParams
<1>14. DOMAIN Methods =
           {"addFileChunk", "addFileChunks", "commitFile", "createBucket", "createFile",
            "deleteBucket", "deleteFile", "fillChunkBlock", "fillChunkBlocks",
            "initialize", "setAccessManager", "setAuthority", "upgradeToAndCall"}
  BY DEF Methods
<1> QED
  BY <1>1, <1>2, <1>3, <1>4, <1>5, <1>6, <1>7, <1>8, <1>9, <1>10, <1>11, <1>12, <1>13, <1>14

\* What both decoders make of one transaction.
LEMMA TxDecoded ==
    ASSUME NEW tx \in Txs
    PROVE  /\ ~tx.hex => /\ DecodeRPCTransaction(tx) = "failed to scan hex data"
                         /\ tx.method = "foreign"
           /\ tx.method # "foreign" =>
                  /\ tx.proper => DecodeRPCTransaction(tx) = "none"
                  /\ ~tx.proper => DecodeRPCTransaction(tx) = "unpack"
           /\ tx.hex => (DecodeTransaction(tx) = "none" <=> DecodeRPCTransaction(tx) = "none")
<1>1. CASE tx \in Calls
  <2>1. PICK m \in DOMAIN Methods \cup {"foreign"}, p \in BOOLEAN, r \in BOOLEAN,
             s \in BOOLEAN : tx = Call(m, p, r, s)
    BY <1>1 DEF Calls
  <2>2. /\ tx.input /\ tx.hex /\ tx.bytes = 5 /\ tx.method = m /\ tx.proper = p
    BY <2>1 DEF Call
  <2>3. CASE m = "foreign"
    <3>1. m \notin DOMAIN TxRegistry
      BY <2>3, MethodsRegistered
    <3> QED
      BY <2>2, <2>3, <3>1 DEF DecodeRPCTransaction, DecodeTransaction
  <2>4. CASE m \in DOMAIN Methods
    <3>1. m \in DOMAIN TxRegistry /\ Fits(Methods[m], OfInput, TxRegistry[m])
      BY <2>4, MethodsRegistered, ParamsFit
    <3>2. UnpackInputs(tx) = IF tx.proper THEN "none" ELSE "unpack"
      BY <2>2, <3>1 DEF UnpackInputs
    <3> QED
      BY <2>2, <3>1, <3>2 DEF DecodeRPCTransaction, DecodeTransaction
  <2> QED
    BY <2>3, <2>4
<1>2. CASE tx \notin Calls
  <2>1. tx.method = "foreign" /\ (~tx.hex => tx.input) /\ tx.bytes \in {0, 3}
    BY <1>2 DEF Txs, Plain, Call
  <2>2. "foreign" \notin DOMAIN TxRegistry
    BY MethodsRegistered
  <2> QED
    BY <2>1, <2>2 DEF DecodeRPCTransaction, DecodeTransaction
<1> QED
  BY <1>1, <1>2

(***************************************************************************)
(* The properties.                                                         *)
(***************************************************************************)
\* The input is of its kind, and the output, when there is one, is what the
\* function of that kind makes of it.
InputsInv ==
    /\ input.kind = "log" => /\ input.value \in Logs
                             /\ output \in {<< >>, <<DecodeAnyLog(input.value)>>}
    /\ input.kind = "txs" =>
           /\ input.value \in Seq(Txs)
           /\ output \in {<< >>, <<[worker |-> WorkerDecodes(input.value),
                                   block |-> DecodeBlock(input.value)]>>}
    /\ input.kind = "text" => /\ input.value \in Texts
                              /\ output \in {<< >>, <<Sent(input.value)>>}
    /\ input.kind = "range" =>
           /\ input.value \in Requests
           /\ output \in {<< >>, <<Batches(input.value.from, input.value.to,
                                          input.value.size)>>}

LEMMA UptoIsSeq == \A S : \A n \in Nat : Upto(n, S) \subseteq Seq(S)
BY DEF Upto

\* Each function is applied to an input of its own kind, once: what is said below
\* of an output is said of the function.
LEMMA InputsInductive == Spec => []InputsInv
<1>1. Init => InputsInv
  <2> SUFFICES ASSUME Init PROVE InputsInv
    OBVIOUS
  <2>1. output = << >>
    BY DEF Init
  <2>2. CASE input \in [kind : {"log"}, value : Logs]
    BY <2>1, <2>2 DEF InputsInv
  <2>3. CASE input \in [kind : {"txs"}, value : Upto(MaxTxs, Txs)]
    BY <2>1, <2>3, UptoIsSeq, InputsAssumption DEF InputsInv
  <2>4. CASE input \in [kind : {"text"}, value : Upto(MaxText, Characters)]
    BY <2>1, <2>4, UptoIsSeq, InputsAssumption DEF InputsInv, Texts
  <2>5. CASE input \in [kind : {"range"}, value : Requests]
    BY <2>1, <2>5 DEF InputsInv
  <2> QED
    BY <2>2, <2>3, <2>4, <2>5 DEF Init
<1>2. InputsInv /\ [Next]_vars => InputsInv'
  <2> SUFFICES ASSUME InputsInv, [Next]_vars PROVE InputsInv'
    OBVIOUS
  <2>1. CASE DecodeLog
    BY <2>1 DEF DecodeLog, Apply, InputsInv
  <2>2. CASE DecodeTxs
    BY <2>2 DEF DecodeTxs, Apply, InputsInv
  <2>3. CASE StoreText
    BY <2>3 DEF StoreText, Apply, InputsInv
  <2>4. CASE FetchInBatches
    BY <2>4 DEF FetchInBatches, Apply, InputsInv
  <2>5. CASE UNCHANGED vars
    BY <2>5 DEF vars, InputsInv
  <2> QED
    BY <2>1, <2>2, <2>3, <2>4, <2>5 DEF Next
<1> QED
  BY <1>1, <1>2, PTL DEF Spec

\* Every log the filter lets through and the ABI shaped is decoded, none of its
\* fields left out or zero, its indexed strings as text (decoding/events.go:83-129).
THEOREM FilteredLogsDecodeHolds == Spec => []FilteredLogsDecode
<1>1. InputsInv => FilteredLogsDecode
  <2> SUFFICES ASSUME InputsInv, Result("log"), input.value.event \in EventTopicFilters,
                      input.value.data = "full",
                      input.value.topics =
                          Cardinality(DOMAIN Events[input.value.event].indexed)
               PROVE  LET event == Events[input.value.event]
                          args == DOMAIN event.indexed \cup DOMAIN event.plain
                          data == output[1].data
                      IN  /\ output[1].err = "none"
                          /\ DOMAIN data = args
                          /\ \A n \in args :
                                /\ data[n] # "zero"
                                /\ data[n] = "text" <=> ArgType(event, n) = "string"
    BY DEF FilteredLogsDecode
  <2>1. input.value \in Logs /\ output[1] = DecodeAnyLog(input.value)
    BY DEF InputsInv, Result
  <2> QED
    BY <2>1, LogDecoded
<1> QED
  BY <1>1, InputsInductive, PTL

\* No log makes the decoder panic, one of another shape is an error, and of one
\* without data exactly the plain arguments are left zero (helpers.go:18).
THEOREM NotInPartHolds == Spec => []NotInPart
<1>1. InputsInv => NotInPart
  <2> SUFFICES ASSUME InputsInv, Result("log") PROVE NotInPart
    BY DEF NotInPart
  <2>1. input.value \in Logs /\ output[1] = DecodeAnyLog(input.value)
    BY DEF InputsInv, Result
  <2> QED
    BY <2>1, LogWhole DEF NotInPart
<1> QED
  BY <1>1, InputsInductive, PTL

\* In a block of any number of transactions, every call of a method of the contract
\* is decoded if its arguments are in order and recorded as failed if they are not,
\* and an input that is not hex is recorded as failed (backfill.go:320-327).
THEOREM OnlyForeignSkippedHolds == Spec => []OnlyForeignSkipped
<1>1. InputsInv => OnlyForeignSkipped
  <2> SUFFICES ASSUME InputsInv, Result("txs"), NEW i \in DOMAIN input.value
               PROVE  LET tx == input.value[i]
                      IN  /\ ~tx.hex => i \in output[1].worker.failed
                          /\ tx.method # "foreign" =>
                                 IF tx.proper THEN i \in output[1].worker.decoded
                                              ELSE i \in output[1].worker.failed
    BY DEF OnlyForeignSkipped
  <2> DEFINE tx == input.value[i]
  <2>1. input.value \in Seq(Txs) /\ output[1].worker = WorkerDecodes(input.value)
    BY DEF InputsInv, Result
  <2>2. tx \in Txs
    BY <2>1, LenProperties, ElementOfSeq
  <2>3. /\ ~IsPermanentDecodeError("unpack")
        /\ ~IsPermanentDecodeError("failed to scan hex data")
    BY DEF IsPermanentDecodeError
  <2>4. /\ output[1].worker.decoded =
               {k \in DOMAIN input.value : DecodeRPCTransaction(input.value[k]) = "none"}
        /\ output[1].worker.failed =
               {k \in DOMAIN input.value :
                   /\ DecodeRPCTransaction(input.value[k]) # "none"
                   /\ ~IsPermanentDecodeError(DecodeRPCTransaction(input.value[k]))}
    BY <2>1 DEF WorkerDecodes
  <2>5. /\ DecodeRPCTransaction(tx) = "none" => i \in output[1].worker.decoded
        /\ DecodeRPCTransaction(tx) = "unpack" => i \in output[1].worker.failed
        /\ DecodeRPCTransaction(tx) = "failed to scan hex data" =>
               i \in output[1].worker.failed
    BY <2>3, <2>4
  <2> HIDE DEF tx
  <2>6. /\ ~tx.hex => i \in output[1].worker.failed
        /\ tx.method # "foreign" => IF tx.proper THEN i \in output[1].worker.decoded
                                                 ELSE i \in output[1].worker.failed
    BY <2>2, <2>5, TxDecoded
  <2> QED
    BY <2>6 DEF tx
<1> QED
  BY <1>1, InputsInductive, PTL

\* On every block without a contract creation the worker of Backfill and DecodeBlock
\* decode the same calls, but for those whose sender cannot be recovered, which only
\* the worker decodes (blocks.go:28-36).
THEOREM DecodersAgreeHolds == Spec => []DecodersAgree
<1>1. InputsInv => DecodersAgree
  <2> DEFINE txs == input.value
             worker == output[1].worker
             block == output[1].block
  <2> SUFFICES ASSUME InputsInv, Result("txs"),
                      \A i \in DOMAIN txs : txs[i].receiver /\ txs[i].hex
               PROVE  /\ ~block.panics
                      /\ block.decoded = {i \in worker.decoded : txs[i].sender}
                      /\ worker.failed \subseteq block.failed
    BY DEF DecodersAgree
  <2>1. txs \in Seq(Txs) /\ worker = WorkerDecodes(txs) /\ block = DecodeBlock(txs)
    BY DEF InputsInv, Result
  <2>2. \A i \in DOMAIN txs : txs[i] \in Txs
    BY <2>1, LenProperties, ElementOfSeq
  <2> HIDE DEF txs, worker, block
  <2>3. \A i \in DOMAIN txs :
           DecodeTransaction(txs[i]) = "none" <=> DecodeRPCTransaction(txs[i]) = "none"
    BY <2>2, TxDecoded
  <2>4. ~block.panics
    BY <2>1 DEF DecodeBlock
  <2>5. block.decoded = {i \in worker.decoded : txs[i].sender}
    BY <2>1, <2>3 DEF DecodeBlock, WorkerDecodes
  <2>6. worker.failed \subseteq block.failed
    BY <2>1, <2>3 DEF DecodeBlock, WorkerDecodes
  <2> QED
    BY <2>4, <2>5, <2>6
<1> QED
  BY <1>1, InputsInductive, PTL

\* The database takes a text, of whatever length, unless a \u in it lacks its
\* digits, and then it refuses it (helpers.go:88-179).
THEOREM TextsAcceptedHolds == Spec => []TextsAccepted
<1>1. InputsInv => TextsAccepted
  <2> SUFFICES ASSUME InputsInv, Result("text") PROVE TextsAccepted
    BY DEF TextsAccepted
  <2>1. input.value \in Texts /\ output[1] = Sent(input.value)
    BY DEF InputsInv, Result
  <2> QED
    BY <2>1, TopicSent DEF TextsAccepted
<1> QED
  BY <1>1, InputsInductive, PTL

\* A text the database takes is read back as it was sanitised, unless it spells out
\* the code of a control character (db.go:441-455).
THEOREM TextsKeptHolds == Spec => []TextsKept
<1>1. InputsInv => TextsKept
  <2> SUFFICES ASSUME InputsInv, Result("text"), Accepted(output[1]) PROVE TextsKept
    BY DEF TextsKept
  <2>1. input.value \in Texts /\ output[1] = Sent(input.value)
    BY DEF InputsInv, Result
  <2> QED
    BY <2>1, TopicSent DEF TextsKept, SpellsControl
<1> QED
  BY <1>1, InputsInductive, PTL

\* However long the range and the batches, every block of the range is asked for
\* once and no other block is (indexing/events.go:44-61).
THEOREM BatchesCoverHolds == Spec => []BatchesCover
<1>1. InputsInv => BatchesCover
  <2> SUFFICES ASSUME InputsInv, Result("range"), NEW b \in 0..(2 * MaxBlock)
               PROVE  Cardinality({r \in output[1] : r[1] <= b /\ b <= r[2]}) =
                          IF input.value.from <= b /\ b <= input.value.to THEN 1 ELSE 0
    BY DEF BatchesCover
  <2>1. /\ input.value \in Requests
        /\ output[1] = Batches(input.value.from, input.value.to, input.value.size)
    BY DEF InputsInv, Result
  <2>2. /\ input.value.from \in Nat /\ input.value.to \in Nat /\ input.value.size \in Nat
        /\ b \in Nat
    BY <2>1, InputsAssumption DEF Requests
  <2>3. Cardinality(With(b, input.value.from, input.value.to, input.value.size)) =
            IF input.value.from <= b /\ b <= input.value.to THEN 1 ELSE 0
    BY <2>2, InOneBatch
  <2> QED
    BY <2>1, <2>3 DEF With
<1> QED
  BY <1>1, InputsInductive, PTL

=============================================================================
