---------------------------- MODULE Relay_proofs ----------------------------
(***************************************************************************)
(* Proofs about the relay.  What the parser makes of a buffer is proved by *)
(* induction on the length of the buffer, with the set of lengths for      *)
(* which the claim holds in the place of a predicate.                      *)
(***************************************************************************)
EXTENDS Relay, SequenceTheorems, WellFoundedInduction, TLAPS

(***************************************************************************)
(* Induction and the filter                                                *)
(***************************************************************************)

\* A set that has 0, and n + 1 with each of its naturals n, has them all.
LEMMA Induction ==
  ASSUME NEW S, 0 \in S, \A n \in Nat : n \in S => n + 1 \in S
  PROVE  Nat \subseteq S
<1> DEFINE T == {n \in Nat : n \notin S}
           R == {ss \in Nat \X Nat : ss[1] < ss[2]}
<1>1. IsWellFoundedOn(R, Nat)
  BY NatLessThanWellFounded, Zenon DEF OpToRel
<1>2. SUFFICES ASSUME T # {} PROVE FALSE
  OBVIOUS
<1>3. PICK x \in T : \A y \in T : ~(<<y, x>> \in R)
  <2>1. T \subseteq Nat
    OBVIOUS
  <2> HIDE DEF T, R
  <2>2. QED
    BY <1>1, <1>2, <2>1, WFMin
<1>4. x # 0
  OBVIOUS
<1>5. x - 1 \in Nat /\ x - 1 \in S
  <2>1. x - 1 \in Nat
    BY <1>4
  <2>2. <<x - 1, x>> \in R
    BY <2>1
  <2>3. QED
    BY <2>1, <2>2, <1>3
<1>6. QED
  BY <1>5

\* Filtering from the front, one element after the other.
LEMMA OnlyUnfolds ==
  ASSUME NEW A, NEW s \in Seq(A), NEW K
  PROVE  \E g : /\ g[0] = <<>>
                /\ \A i \in 1..Len(s) :
                     g[i] = IF s[i] \in K THEN Append(g[i - 1], s[i]) ELSE g[i - 1]
                /\ Only(s, K) = g[Len(s)]
<1> DEFINE Up(g, n) == g = [i \in 0..n |->
                          IF i = 0 THEN <<>>
                          ELSE IF s[i] \in K THEN Append(g[i - 1], s[i]) ELSE g[i - 1]]
           S == {n \in Nat : \E g : Up(g, n)}
<1>1. 0 \in S
  <2> DEFINE g == [i \in 0..0 |-> <<>>]
  <2>1. Up(g, 0)
    OBVIOUS
  <2>2. QED
    BY <2>1
<1>2. \A n \in Nat : n \in S => n + 1 \in S
  <2> SUFFICES ASSUME NEW n \in Nat, n \in S
               PROVE  n + 1 \in S
    OBVIOUS
  <2> PICK g : Up(g, n)
    OBVIOUS
  <2> DEFINE last == IF s[n + 1] \in K THEN Append(g[n], s[n + 1]) ELSE g[n]
             h == [i \in 0..(n + 1) |-> IF i = n + 1 THEN last ELSE g[i]]
  <2>1. ASSUME NEW i \in 0..(n + 1)
        PROVE  h[i] = IF i = 0 THEN <<>>
                      ELSE IF s[i] \in K THEN Append(h[i - 1], s[i]) ELSE h[i - 1]
    <3>1. CASE i = n + 1
      BY <3>1
    <3>2. CASE i \in 0..n
      <4>1. h[i] = g[i]
        BY <3>2
      <4>2. i # 0 => h[i - 1] = g[i - 1]
        BY <3>2
      <4> HIDE DEF h
      <4>3. QED
        BY <3>2, <4>1, <4>2
    <3>3. QED
      BY <3>1, <3>2
  <2>2. Up(h, n + 1)
    <3>1. h = [i \in 0..(n + 1) |-> h[i]]
      OBVIOUS
    <3> HIDE DEF h
    <3>2. QED
      BY <2>1, <3>1
  <2>3. n + 1 \in Nat
    OBVIOUS
  <2> HIDE DEF h, Up
  <2>4. QED
    BY <2>2, <2>3
<1>3. Len(s) \in S
  <2> HIDE DEF S
  <2>1. QED
    BY <1>1, <1>2, Induction
<1> DEFINE up == CHOOSE g : Up(g, Len(s))
<1>4. Up(up, Len(s))
  BY <1>3
<1>5. Only(s, K) = up[Len(s)]
  BY Zenon DEF Only
<1>6. ASSUME NEW i \in 0..Len(s)
      PROVE  up[i] = IF i = 0 THEN <<>>
                     ELSE IF s[i] \in K THEN Append(up[i - 1], s[i]) ELSE up[i - 1]
  <2> HIDE DEF up
  <2>1. QED
    BY <1>4, Zenon
<1> HIDE DEF up
<1>7. Len(s) \in Nat
  OBVIOUS
<1>8. up[0] = <<>>
  BY <1>6, <1>7
<1>9. \A i \in 1..Len(s) :
        up[i] = IF s[i] \in K THEN Append(up[i - 1], s[i]) ELSE up[i - 1]
  BY <1>6, <1>7
<1>10. QED
  BY <1>5, <1>8, <1>9

\* The filter of a longer sequence goes on from that of the shorter one.
LEMMA OnlyAppend ==
  ASSUME NEW A, NEW s \in Seq(A), NEW e \in A, NEW K
  PROVE  Only(Append(s, e), K) = IF e \in K THEN Append(Only(s, K), e) ELSE Only(s, K)
<1> DEFINE n == Len(s)
           t == Append(s, e)
<1>1. /\ t \in Seq(A) /\ Len(t) = n + 1 /\ n \in Nat /\ t[n + 1] = e
      /\ \A i \in 1..n : t[i] = s[i]
  BY AppendProperties, LenProperties
<1> HIDE DEF t, n
<1>2. PICK g : /\ g[0] = <<>>
               /\ \A i \in 1..n :
                    g[i] = IF s[i] \in K THEN Append(g[i - 1], s[i]) ELSE g[i - 1]
               /\ Only(s, K) = g[n]
  BY OnlyUnfolds DEF n
<1>3. PICK h : /\ h[0] = <<>>
               /\ \A i \in 1..Len(t) :
                    h[i] = IF t[i] \in K THEN Append(h[i - 1], t[i]) ELSE h[i - 1]
               /\ Only(t, K) = h[Len(t)]
  BY <1>1, OnlyUnfolds
<1> DEFINE S == {i \in Nat : i <= n => g[i] = h[i]}
<1>4. 0 \in S
  BY <1>1, <1>2, <1>3
<1>5. \A i \in Nat : i \in S => i + 1 \in S
  <2> SUFFICES ASSUME NEW i \in Nat, i \in S
               PROVE  i + 1 \in S
    OBVIOUS
  <2> SUFFICES ASSUME i + 1 <= n
               PROVE  g[i + 1] = h[i + 1]
    OBVIOUS
  <2>1. g[i] = h[i]
    BY <1>1
  <2>2. i + 1 \in 1..n /\ (i + 1) - 1 = i
    BY <1>1
  <2>3. t[i + 1] = s[i + 1]
    BY <1>1, <2>2
  <2>4. g[i + 1] = IF s[i + 1] \in K THEN Append(g[i], s[i + 1]) ELSE g[i]
    BY <1>1, <1>2, <2>2
  <2>5. h[i + 1] = IF t[i + 1] \in K THEN Append(h[i], t[i + 1]) ELSE h[i]
    BY <1>1, <1>3, <2>2
  <2>6. QED
    BY <2>1, <2>3, <2>4, <2>5
<1>6. g[n] = h[n]
  <2>1. n \in S
    <3> HIDE DEF S
    <3>1. QED
      BY <1>1, <1>4, <1>5, Induction
  <2>2. QED
    BY <2>1
<1>7. h[n + 1] = IF e \in K THEN Append(h[n], e) ELSE h[n]
  BY <1>1, <1>3
<1>8. Only(t, K) = IF e \in K THEN Append(Only(s, K), e) ELSE Only(s, K)
  BY <1>1, <1>2, <1>3, <1>6, <1>7
<1>9. QED
  BY <1>8 DEF t

LEMMA OnlyEmpty == \A K : Only(<<>>, K) = <<>>
<1> SUFFICES ASSUME NEW K PROVE Only(<<>>, K) = <<>>
  OBVIOUS
<1>1. PICK g : g[0] = <<>> /\ Only(<<>>, K) = g[0]
  <2>1. <<>> \in Seq({}) /\ Len(<<>>) = 0
    BY EmptySeq
  <2> DEFINE nil == <<>>
  <2> HIDE DEF nil
  <2>2. PICK g : g[0] = <<>> /\ Only(nil, K) = g[Len(nil)]
    <3>1. nil \in Seq({})
      BY <2>1 DEF nil
    <3>2. QED
      BY <3>1, OnlyUnfolds
  <2>3. QED
    BY <2>1, <2>2 DEF nil
<1>2. QED
  BY <1>1

\* Concatenation is associative, for bytes and for frames.
LEMMA ByteAssoc ==
  \A s, t, u \in Seq(Byte) : (s \o t) \o u = s \o (t \o u)
BY ConcatAssociative

LEMMA FrameAssoc ==
  \A s, t, u \in Seq(RawFrame) : (s \o t) \o u = s \o (t \o u)
BY ConcatAssociative

\* A frame that is appended to the later frames is appended to them all.
LEMMA AppendIntoConcat ==
  \A s, t \in Seq(RawFrame), f \in RawFrame : s \o Append(t, f) = Append(s \o t, f)
<1> SUFFICES ASSUME NEW s \in Seq(RawFrame), NEW t \in Seq(RawFrame), NEW f \in RawFrame
             PROVE  s \o Append(t, f) = Append(s \o t, f)
  OBVIOUS
<1>1. <<f>> \in Seq(RawFrame) /\ s \o t \in Seq(RawFrame)
  OBVIOUS
<1>2. Append(t, f) = t \o <<f>> /\ Append(s \o t, f) = (s \o t) \o <<f>>
  BY <1>1, AppendIsConcat
<1>3. (s \o t) \o <<f>> = s \o (t \o <<f>>)
  BY <1>1, FrameAssoc, Zenon
<1>4. QED
  BY <1>2, <1>3, Zenon

\* A claim about sequences holds for all of them when it holds for the empty one
\* and is kept by Append.
LEMMA SeqInduction ==
  ASSUME NEW A, NEW S, <<>> \in S,
         \A s \in Seq(A), e \in A : s \in S => Append(s, e) \in S
  PROVE  Seq(A) \subseteq S
<1> DEFINE T == {n \in Nat : \A s \in Seq(A) : Len(s) = n => s \in S}
<1>1. 0 \in T
  BY EmptySeq
<1>2. \A n \in Nat : n \in T => n + 1 \in T
  <2> SUFFICES ASSUME NEW n \in Nat, n \in T, NEW s \in Seq(A), Len(s) = n + 1
               PROVE  s \in S
    OBVIOUS
  <2>1. s # <<>>
    OBVIOUS
  <2>2. PICK t \in Seq(A), e \in A : s = Append(t, e)
    BY <2>1, SequenceEmptyOrAppend
  <2>3. Len(t) = n
    BY <2>2, AppendProperties, LenProperties
  <2>4. QED
    BY <2>2, <2>3
<1>3. Nat \subseteq T
  <2> HIDE DEF T
  <2>1. QED
    BY <1>1, <1>2, Induction
<1>4. QED
  BY <1>3, LenProperties

LEMMA OnlyType ==
  ASSUME NEW A, NEW s \in Seq(A), NEW K
  PROVE  Only(s, K) \in Seq(A \cap K)
<1> DEFINE S == {t \in Seq(A) : Only(t, K) \in Seq(A \cap K)}
<1>1. <<>> \in S
  BY EmptySeq, OnlyEmpty
<1>2. \A t \in Seq(A), e \in A : t \in S => Append(t, e) \in S
  <2> SUFFICES ASSUME NEW t \in Seq(A), NEW e \in A, t \in S
               PROVE  Append(t, e) \in S
    OBVIOUS
  <2> Append(t, e) \in Seq(A)
    BY AppendProperties
  <2>1. Only(Append(t, e), K) = IF e \in K THEN Append(Only(t, K), e) ELSE Only(t, K)
    BY OnlyAppend
  <2>2. e \in K => Append(Only(t, K), e) \in Seq(A \cap K)
    BY AppendProperties
  <2>3. QED
    BY <2>1, <2>2
<1>3. Seq(A) \subseteq S
  <2> HIDE DEF S
  <2>1. QED
    BY <1>1, <1>2, SeqInduction
<1>4. QED
  BY <1>3

LEMMA OnlyConcat ==
  ASSUME NEW A, NEW s \in Seq(A), NEW t \in Seq(A), NEW K
  PROVE  Only(s \o t, K) = Only(s, K) \o Only(t, K)
<1> DEFINE S == {u \in Seq(A) : Only(s \o u, K) = Only(s, K) \o Only(u, K)}
<1>1. <<>> \in S
  <2>1. Only(s, K) \in Seq(A \cap K)
    BY OnlyType
  <2>2. s \o <<>> = s /\ Only(s, K) \o <<>> = Only(s, K)
    BY <2>1, ConcatEmptySeq
  <2>3. <<>> \in Seq(A)
    BY EmptySeq
  <2>4. QED
    BY <2>2, <2>3, OnlyEmpty
<1>2. \A u \in Seq(A), e \in A : u \in S => Append(u, e) \in S
  <2> SUFFICES ASSUME NEW u \in Seq(A), NEW e \in A, u \in S
               PROVE  Append(u, e) \in S
    OBVIOUS
  <2>1. s \o u \in Seq(A) /\ s \o Append(u, e) = Append(s \o u, e)
    OBVIOUS
  <2>2. Only(s, K) \in Seq(A \cap K) /\ Only(u, K) \in Seq(A \cap K)
    BY OnlyType
  <2>3. Only(Append(u, e), K) = IF e \in K THEN Append(Only(u, K), e) ELSE Only(u, K)
    BY OnlyAppend
  <2>4. Only(Append(s \o u, e), K)
          = IF e \in K THEN Append(Only(s \o u, K), e) ELSE Only(s \o u, K)
    <3> DEFINE w == s \o u
    <3>1. w \in Seq(A)
      BY <2>1
    <3> HIDE DEF w
    <3>2. Only(Append(w, e), K) = IF e \in K THEN Append(Only(w, K), e) ELSE Only(w, K)
      BY <3>1, OnlyAppend
    <3>3. QED
      BY <3>2 DEF w
  <2>5. e \in K => Append(Only(s, K) \o Only(u, K), e) = Only(s, K) \o Append(Only(u, K), e)
    <3> SUFFICES ASSUME e \in K
                 PROVE  Append(Only(s, K) \o Only(u, K), e) = Only(s, K) \o Append(Only(u, K), e)
      OBVIOUS
    <3> DEFINE B == A \cap K
               x == Only(s, K)
               y == Only(u, K)
    <3>1. x \in Seq(B) /\ y \in Seq(B) /\ e \in B
      BY <2>2
    <3> HIDE DEF B, x, y
    <3>2. Append(x \o y, e) = x \o Append(y, e)
      BY <3>1
    <3>3. QED
      BY <3>2 DEF x, y
  <2>6. Append(u, e) \in Seq(A)
    BY AppendProperties
  <2>7. QED
    BY <2>1, <2>3, <2>4, <2>5, <2>6
<1>3. Seq(A) \subseteq S
  <2> HIDE DEF S
  <2>1. QED
    BY <1>1, <1>2, SeqInduction
<1>4. QED
  BY <1>3

\* The filter goes by the elements of the sequence.
LEMMA OnlyAgrees ==
  ASSUME NEW A, NEW s \in Seq(A), NEW K, NEW L,
         \A e \in A : e \in K <=> e \in L
  PROVE  Only(s, K) = Only(s, L)
<1> DEFINE S == {t \in Seq(A) : Only(t, K) = Only(t, L)}
<1>1. <<>> \in S
  BY EmptySeq, OnlyEmpty
<1>2. \A t \in Seq(A), e \in A : t \in S => Append(t, e) \in S
  <2> SUFFICES ASSUME NEW t \in Seq(A), NEW e \in A, t \in S
               PROVE  Append(t, e) \in S
    OBVIOUS
  <2> Append(t, e) \in Seq(A)
    BY AppendProperties
  <2>1. Only(Append(t, e), K) = IF e \in K THEN Append(Only(t, K), e) ELSE Only(t, K)
    BY OnlyAppend
  <2>2. Only(Append(t, e), L) = IF e \in L THEN Append(Only(t, L), e) ELSE Only(t, L)
    BY OnlyAppend
  <2>3. Only(t, K) = Only(t, L) /\ (e \in K <=> e \in L)
    OBVIOUS
  <2> HIDE DEF S
  <2>4. Only(Append(t, e), K) = Only(Append(t, e), L)
    BY <2>1, <2>2, <2>3
  <2>5. QED
    BY <2>4 DEF S
<1>3. Seq(A) \subseteq S
  <2> HIDE DEF S
  <2>1. QED
    BY <1>1, <1>2, SeqInduction
<1>4. QED
  BY <1>3

\* What the filter leaves are the elements that belong to the set.
LEMMA OnlyRange ==
  ASSUME NEW A, NEW s \in Seq(A), NEW K
  PROVE  ToSet(Only(s, K)) = ToSet(s) \cap K
<1> DEFINE S == {t \in Seq(A) : ToSet(Only(t, K)) = ToSet(t) \cap K}
<1>0. ASSUME NEW B, NEW t \in Seq(B), NEW e \in B
      PROVE  ToSet(Append(t, e)) = ToSet(t) \cup {e}
  <2>1. DOMAIN Append(t, e) = DOMAIN t \cup {Len(t) + 1} /\ DOMAIN t = 1..Len(t)
    BY AppendProperties, LenProperties
  <2>2. \A i \in DOMAIN t : Append(t, e)[i] = t[i]
    BY AppendProperties, LenProperties
  <2>3. Append(t, e)[Len(t) + 1] = e
    BY AppendProperties
  <2>4. QED
    BY <2>1, <2>2, <2>3 DEF ToSet
<1>1. <<>> \in S
  <2>1. ToSet(<<>>) = {}
    BY DEF ToSet
  <2>2. QED
    BY <2>1, EmptySeq, OnlyEmpty
<1>2. \A t \in Seq(A), e \in A : t \in S => Append(t, e) \in S
  <2> SUFFICES ASSUME NEW t \in Seq(A), NEW e \in A, t \in S
               PROVE  Append(t, e) \in S
    OBVIOUS
  <2>1. Append(t, e) \in Seq(A)
    BY AppendProperties
  <2>2. Only(Append(t, e), K) = IF e \in K THEN Append(Only(t, K), e) ELSE Only(t, K)
    BY OnlyAppend
  <2>3. Only(t, K) \in Seq(A \cap K)
    BY OnlyType
  <2>4. /\ ToSet(Append(t, e)) = ToSet(t) \cup {e}
        /\ e \in K => ToSet(Append(Only(t, K), e)) = ToSet(Only(t, K)) \cup {e}
    <3>1. e \in K => e \in A \cap K
      OBVIOUS
    <3> HIDE DEF S
    <3>2. QED
      BY <1>0, <2>3, <3>1
  <2>5. ToSet(Only(t, K)) = ToSet(t) \cap K
    OBVIOUS
  <2>6. ToSet(Only(Append(t, e), K)) = ToSet(Append(t, e)) \cap K
    BY <2>2, <2>4, <2>5
  <2>7. QED
    BY <2>1, <2>6
<1>3. Seq(A) \subseteq S
  <2> HIDE DEF S
  <2>1. QED
    BY <1>1, <1>2, SeqInduction
<1>4. QED
  BY <1>3

LEMMA OnlyAll ==
  ASSUME NEW A, NEW s \in Seq(A), NEW K, A \subseteq K
  PROVE  Only(s, K) = s
<1> DEFINE S == {t \in Seq(A) : Only(t, K) = t}
<1>1. <<>> \in S
  BY EmptySeq, OnlyEmpty
<1>2. \A t \in Seq(A), e \in A : t \in S => Append(t, e) \in S
  <2> SUFFICES ASSUME NEW t \in Seq(A), NEW e \in A, t \in S
               PROVE  Append(t, e) \in S
    OBVIOUS
  <2> Append(t, e) \in Seq(A)
    BY AppendProperties
  <2>1. Only(Append(t, e), K) = IF e \in K THEN Append(Only(t, K), e) ELSE Only(t, K)
    BY OnlyAppend
  <2>2. QED
    BY <2>1
<1>3. Seq(A) \subseteq S
  <2> HIDE DEF S
  <2>1. QED
    BY <1>1, <1>2, SeqInduction
<1>4. QED
  BY <1>3

LEMMA OnlyNone ==
  ASSUME NEW A, NEW s \in Seq(A), NEW K, A \cap K = {}
  PROVE  Only(s, K) = <<>>
<1>1. Only(s, K) \in Seq({})
  BY OnlyType
<1>2. QED
  BY <1>1

(***************************************************************************)
(* Where the next frame starts                                             *)
(***************************************************************************)

LEMMA Least ==
  ASSUME NEW S \in SUBSET Nat, S # {}
  PROVE  \E x \in S : \A y \in S : x <= y
<1> DEFINE R == {ss \in Nat \X Nat : ss[1] < ss[2]}
<1>1. IsWellFoundedOn(R, Nat)
  BY NatLessThanWellFounded, Zenon DEF OpToRel
<1>2. PICK x \in S : \A y \in S : ~(<<y, x>> \in R)
  <2> HIDE DEF R
  <2>1. QED
    BY <1>1, WFMin
<1>3. ASSUME NEW y \in S, ~(x <= y) PROVE FALSE
  <2>1. x \in Nat /\ y \in Nat
    OBVIOUS
  <2>2. <<y, x>> \in R
    BY <1>3, <2>1
  <2>3. QED
    BY <1>2, <2>2
<1>4. QED
  BY <1>3

\* The magic that is found is the first.
LEMMA ResyncAt ==
  ASSUME NEW b \in Seq(Byte), NEW k \in 1..Len(b), b[k] = Magic,
         \A i \in 1..(k - 1) : b[i] # Magic
  PROVE  Resync(b) = SubSeq(b, k, Len(b))
<1> DEFINE I == {i \in 1..Len(b) : b[i] = Magic}
<1>1. k \in I /\ \A i \in I : k <= i
  OBVIOUS
<1>2. I \subseteq Int
  OBVIOUS
<1>3. Min(I) = k
  <2> HIDE DEF I
  <2>1. \E x \in I : \A y \in I : x <= y
    BY <1>1
  <2>2. Min(I) \in I /\ \A y \in I : Min(I) <= y
    BY <2>1, Zenon DEF Min
  <2> DEFINE m == Min(I)
  <2>3. m \in I /\ \A y \in I : m <= y
    BY <2>2
  <2> HIDE DEF m
  <2>4. k <= m /\ m <= k /\ m \in Int /\ k \in Int
    BY <1>1, <1>2, <2>3
  <2>5. m = k
    BY <2>4
  <2>6. QED
    BY <2>5 DEF m
<1>4. SelectInSeq(b, LAMBDA c : c = Magic) = IF I # {} THEN Min(I) ELSE 0
  BY Zenon DEF SelectInSeq
<1>5. SelectInSeq(b, LAMBDA c : c = Magic) = k
  <2> HIDE DEF I
  <2>1. QED
    BY <1>1, <1>3, <1>4, Zenon
<1>6. k # 0
  OBVIOUS
<1>7. QED
  BY <1>5, <1>6, Zenon DEF Resync

LEMMA ResyncQuiet ==
  ASSUME NEW b \in Seq(Byte), Quiet(b)
  PROVE  Resync(b) = <<>>
<1> DEFINE I == {i \in 1..Len(b) : b[i] = Magic}
<1>1. I = {}
  BY DEF Quiet, Contains
<1>2. SelectInSeq(b, LAMBDA c : c = Magic) = IF I # {} THEN Min(I) ELSE 0
  BY Zenon DEF SelectInSeq
<1>3. SelectInSeq(b, LAMBDA c : c = Magic) = 0
  <2> HIDE DEF I
  <2>1. QED
    BY <1>1, <1>2, Zenon
<1>4. QED
  BY <1>3, Zenon DEF Resync

LEMMA FirstMagic ==
  ASSUME NEW b \in Seq(Byte), ~Quiet(b)
  PROVE  \E k \in 1..Len(b) : b[k] = Magic /\ \A i \in 1..(k - 1) : b[i] # Magic
<1> DEFINE I == {i \in 1..Len(b) : b[i] = Magic}
<1>1. I \in SUBSET Nat /\ I # {}
  BY DEF Quiet, Contains
<1>2. PICK k \in I : \A i \in I : k <= i
  <2> HIDE DEF I
  <2>1. QED
    BY <1>1, Least
<1>3. \A i \in 1..(k - 1) : b[i] # Magic
  <2> SUFFICES ASSUME NEW i \in 1..(k - 1), b[i] = Magic PROVE FALSE
    OBVIOUS
  <2>1. i \in I
    OBVIOUS
  <2>2. QED
    BY <1>2, <2>1
<1>4. QED
  BY <1>2, <1>3

\* What is left after the search is a suffix, empty or with the magic in front.
LEMMA ResyncType ==
  ASSUME NEW b \in Seq(Byte)
  PROVE  /\ Resync(b) \in Seq(Byte)
         /\ Len(Resync(b)) <= Len(b)
         /\ Quiet(b) => Resync(b) = <<>>
         /\ ~Quiet(b) => Len(Resync(b)) > 0
<1>1. CASE Quiet(b)
  <2>1. Resync(b) = <<>>
    BY <1>1, ResyncQuiet
  <2>2. <<>> \in Seq(Byte) /\ Len(<<>>) = 0 /\ Len(b) \in Nat
    BY EmptySeq, LenProperties
  <2>3. QED
    BY <1>1, <2>1, <2>2
<1>2. CASE ~Quiet(b)
  <2>1. PICK k \in 1..Len(b) : b[k] = Magic /\ \A i \in 1..(k - 1) : b[i] # Magic
    BY <1>2, FirstMagic
  <2>2. Resync(b) = SubSeq(b, k, Len(b))
    BY <2>1, ResyncAt
  <2>3. \A i \in k..Len(b) : b[i] \in Byte
    OBVIOUS
  <2>4. Len(b) \in Nat /\ k \in Int /\ k <= Len(b)
    OBVIOUS
  <2>5. /\ SubSeq(b, k, Len(b)) \in Seq(Byte)
        /\ Len(SubSeq(b, k, Len(b))) = Len(b) - k + 1
    BY <2>3, <2>4, SubSeqProperties
  <2>6. QED
    BY <1>2, <2>2, <2>4, <2>5
<1>3. QED
  BY <1>1, <1>2

\* Bytes that follow do not move the first magic.
LEMMA ResyncConcat ==
  ASSUME NEW a \in Seq(Byte), NEW b \in Seq(Byte), ~Quiet(a)
  PROVE  Resync(a \o b) = Resync(a) \o b
<1> DEFINE c == a \o b
<1>1. /\ c \in Seq(Byte) /\ Len(c) = Len(a) + Len(b)
      /\ \A i \in 1..Len(a) : c[i] = a[i]
      /\ \A i \in 1..Len(b) : c[Len(a) + i] = b[i]
      /\ Len(a) \in Nat /\ Len(b) \in Nat
  BY ConcatProperties, LenProperties
<1>2. PICK k \in 1..Len(a) : a[k] = Magic /\ \A i \in 1..(k - 1) : a[i] # Magic
  BY FirstMagic
<1>3. Resync(a) = SubSeq(a, k, Len(a))
  BY <1>2, ResyncAt
<1>4. Resync(c) = SubSeq(c, k, Len(c))
  <2> HIDE DEF c
  <2>1. k \in 1..Len(c)
    BY <1>1
  <2>2. c[k] = Magic
    BY <1>1, <1>2
  <2>3. \A i \in 1..(k - 1) : i \in 1..Len(a)
    BY <1>1
  <2>4. \A i \in 1..(k - 1) : c[i] # Magic
    BY <1>1, <1>2, <2>3
  <2>5. QED
    BY <1>1, <2>1, <2>2, <2>4, ResyncAt
<1>5. SubSeq(c, k, Len(c)) = SubSeq(a, k, Len(a)) \o b
  OBVIOUS
<1>6. QED
  BY <1>3, <1>4, <1>5

\* Bytes in which no frame starts are skipped.
LEMMA ResyncSkips ==
  ASSUME NEW q \in Seq(Byte), NEW b \in Seq(Byte), Quiet(q)
  PROVE  Resync(q \o b) = Resync(b)
<1> DEFINE c == q \o b
<1>1. /\ c \in Seq(Byte) /\ Len(c) = Len(q) + Len(b)
      /\ \A i \in 1..Len(q) : c[i] = q[i]
      /\ \A i \in 1..Len(b) : c[Len(q) + i] = b[i]
      /\ Len(q) \in Nat /\ Len(b) \in Nat
  BY ConcatProperties, LenProperties
<1>2. \A i \in 1..Len(q) : c[i] # Magic
  BY <1>1 DEF Quiet, Contains
<1>3. CASE Quiet(b)
  <2>1. Quiet(c)
    <3> SUFFICES ASSUME NEW i \in 1..Len(c), c[i] = Magic PROVE FALSE
      BY Zenon DEF Quiet, Contains
    <3>1. i \in 1..Len(q) \/ i - Len(q) \in 1..Len(b)
      BY <1>1
    <3>2. QED
      BY <1>1, <1>2, <1>3, <3>1 DEF Quiet, Contains
  <2>2. QED
    BY <1>1, <1>3, <2>1, ResyncQuiet
<1>4. CASE ~Quiet(b)
  <2>1. PICK k \in 1..Len(b) : b[k] = Magic /\ \A i \in 1..(k - 1) : b[i] # Magic
    BY <1>4, FirstMagic
  <2>2. Resync(b) = SubSeq(b, k, Len(b))
    BY <2>1, ResyncAt
  <2>3. \A i \in 1..(Len(q) + k - 1) : c[i] # Magic
    <3> SUFFICES ASSUME NEW i \in 1..(Len(q) + k - 1), c[i] = Magic PROVE FALSE
      OBVIOUS
    <3>1. i \in 1..Len(q) \/ i - Len(q) \in 1..(k - 1)
      BY <1>1
    <3>2. QED
      BY <1>1, <1>2, <2>1, <3>1
  <2>4. Len(q) + k \in 1..Len(c) /\ c[Len(q) + k] = Magic
    BY <1>1, <2>1
  <2>5. Resync(c) = SubSeq(c, Len(q) + k, Len(c))
    <3> DEFINE m == Len(q) + k
    <3>1. m \in 1..Len(c) /\ c[m] = Magic /\ \A i \in 1..(m - 1) : c[i] # Magic
      BY <2>3, <2>4
    <3> HIDE DEF c, m
    <3>2. Resync(c) = SubSeq(c, m, Len(c))
      BY <1>1, <3>1, ResyncAt
    <3>3. QED
      BY <3>2 DEF m
  <2>6. SubSeq(c, Len(q) + k, Len(c)) = SubSeq(b, k, Len(b))
    OBVIOUS
  <2>7. QED
    BY <2>2, <2>5, <2>6
<1>5. QED
  BY <1>3, <1>4

(***************************************************************************)
(* One frame                                                               *)
(***************************************************************************)

LEMMA CompleteType ==
  ASSUME NEW b \in Seq(Byte), Complete(b)
  PROVE  /\ Len(b) \in Nat /\ Total(b) \in 4..Len(b)
         /\ Rest(b) \in Seq(Byte) /\ Len(Rest(b)) = Len(b) - Total(b)
         /\ SubSeq(b, 1, Total(b)) \in Seq(Byte)
         /\ Len(SubSeq(b, 1, Total(b))) = Total(b)
<1>1. Len(b) \in Nat /\ Len(b) >= 3 /\ Len(b) >= Total(b)
  BY LenProperties DEF Complete
<1>2. b[2] \in 0..255 /\ b[3] \in 0..255
  <2>1. \A i \in 1..Len(b) : b[i] \in Byte
    BY ElementOfSeq
  <2>2. 2 \in 1..Len(b) /\ 3 \in 1..Len(b)
    BY <1>1
  <2>3. QED
    BY <2>1, <2>2 DEF Byte
<1>3. Total(b) \in 4..Len(b)
  <2> DEFINE x == b[2]
             y == b[3]
  <2>1. x \in 0..255 /\ y \in 0..255
    BY <1>2
  <2>2. Total(b) = x * 256 + y + 4
    BY DEF Total
  <2> HIDE DEF x, y
  <2>3. QED
    BY <1>1, <2>1, <2>2
<1> DEFINE t == Total(b)
<1>4. t \in 4..Len(b)
  BY <1>3
<1> HIDE DEF t
<1>5. \A i \in 1..Len(b) : b[i] \in Byte
  BY ElementOfSeq
<1>6. SubSeq(b, t + 1, Len(b)) \in Seq(Byte) /\ Len(SubSeq(b, t + 1, Len(b))) = Len(b) - t
  BY <1>1, <1>4, <1>5, SubSeqProperties
<1>7. SubSeq(b, 1, t) \in Seq(Byte) /\ Len(SubSeq(b, 1, t)) = t
  BY <1>1, <1>4, <1>5, SubSeqProperties
<1>8. QED
  BY <1>1, <1>4, <1>6, <1>7 DEF t, Rest

\* Python's slices are sequences of the same bytes.
LEMMA SliceType ==
  ASSUME NEW A, NEW s \in Seq(A), NEW i \in Nat, NEW j \in Nat
  PROVE  Slice(s, i, j) \in Seq(A)
<1> DEFINE m == IF j < Len(s) THEN j ELSE Len(s)
<1>1. m \in Nat /\ m <= Len(s)
  BY LenProperties
<1> HIDE DEF m
<1>2. \A x \in (i + 1)..m : s[x] \in A
  BY <1>1, ElementOfSeq
<1>3. SubSeq(s, i + 1, m) \in Seq(A)
  BY <1>1, <1>2, SubSeqProperties
<1>4. QED
  BY <1>3 DEF Slice, m

LEMMA FirstType ==
  ASSUME NEW b \in Seq(Byte), Complete(b)
  PROVE  First(b) \in RawFrame
<1> DEFINE raw == SubSeq(b, 1, Total(b))
<1>1. raw \in Seq(Byte) /\ Len(raw) \in Nat /\ Len(raw) - 1 \in Nat
  BY CompleteType
<1> HIDE DEF raw
<1>2. /\ Slice(raw, 3, 5) \in Seq(Byte) /\ Slice(raw, 5, 11) \in Seq(Byte)
      /\ Slice(raw, 11, Len(raw) - 1) \in Seq(Byte)
  BY <1>1, SliceType
<1>3. Decode(raw) \in RawFrame
  BY <1>2 DEF Decode, RawFrame
<1>4. QED
  BY <1>3 DEF First, raw

\* Bytes that follow a complete frame do not change it.
LEMMA CompleteConcat ==
  ASSUME NEW a \in Seq(Byte), NEW b \in Seq(Byte), Complete(a)
  PROVE  /\ Complete(a \o b)
         /\ First(a \o b) = First(a)
         /\ Rest(a \o b) = Rest(a) \o b
<1> DEFINE c == a \o b
           t == Total(a)
<1>1. /\ c \in Seq(Byte) /\ Len(c) = Len(a) + Len(b)
      /\ Len(a) \in Nat /\ Len(b) \in Nat /\ t \in 4..Len(a)
  BY ConcatProperties, LenProperties, CompleteType
<1>2. c[2] = a[2] /\ c[3] = a[3]
  BY <1>1, ConcatProperties
<1>3. Total(c) = t
  BY <1>2 DEF Total
<1> HIDE DEF t
<1>4. SubSeq(c, 1, t) = SubSeq(a, 1, t)
  BY <1>1, SubSeqOfConcat1
<1>5. SubSeq(c, t + 1, Len(c)) = SubSeq(a, t + 1, Len(a)) \o b
  <2> DEFINE x == SubSeq(c, t + 1, Len(c))
             y == SubSeq(a, t + 1, Len(a))
  <2>1. /\ \A i \in 1..Len(a) : a[i] \in Byte /\ c[i] = a[i]
        /\ \A i \in 1..Len(b) : b[i] \in Byte /\ c[Len(a) + i] = b[i]
        /\ \A i \in 1..Len(c) : c[i] \in Byte
    BY <1>1, ConcatProperties, ElementOfSeq
  <2>2. /\ y \in Seq(Byte) /\ Len(y) = Len(a) - t
        /\ \A i \in 1..(Len(a) - t) : y[i] = a[t + i]
    <3>1. \A i \in (t + 1)..Len(a) : a[i] \in Byte
      BY <1>1, <2>1
    <3>2. QED
      BY <1>1, <3>1, SubSeqProperties
  <2> HIDE DEF c
  <2>3. /\ x \in Seq(Byte) /\ Len(x) = Len(c) - t
        /\ \A i \in 1..(Len(c) - t) : x[i] = c[t + i]
    <3>1. \A i \in (t + 1)..Len(c) : c[i] \in Byte
      BY <1>1, <2>1
    <3>2. QED
      BY <1>1, <3>1, SubSeqProperties
  <2> HIDE DEF x, y
  <2>4. /\ y \o b \in Seq(Byte) /\ Len(y \o b) = Len(x)
        /\ \A i \in 1..Len(x) : (y \o b)[i] = IF i <= Len(y) THEN y[i] ELSE b[i - Len(y)]
    <3>1. Len(x) = Len(y) + Len(b)
      BY <1>1, <2>2, <2>3
    <3>2. /\ y \o b \in Seq(Byte) /\ Len(y \o b) = Len(y) + Len(b)
          /\ \A i \in 1..(Len(y) + Len(b)) :
               (y \o b)[i] = IF i <= Len(y) THEN y[i] ELSE b[i - Len(y)]
      BY <2>2, ConcatProperties
    <3>3. QED
      BY <3>1, <3>2
  <2>5. ASSUME NEW i \in 1..Len(x) PROVE x[i] = (y \o b)[i]
    <3>1. i \in 1..(Len(c) - t) /\ x[i] = c[t + i]
      BY <2>3
    <3>2. CASE i <= Len(y)
      BY <1>1, <2>1, <2>2, <2>4, <3>1, <3>2
    <3>3. CASE ~(i <= Len(y))
      <4>1. i - Len(y) \in 1..Len(b) /\ Len(a) + (i - Len(y)) = t + i
        BY <1>1, <2>2, <3>1, <3>3
      <4>2. QED
        BY <2>1, <2>4, <3>1, <3>3, <4>1
    <3>4. QED
      BY <3>2, <3>3
  <2>6. x = y \o b
    BY <2>3, <2>4, <2>5, SeqEqual
  <2>7. QED
    BY <2>6 DEF x, y
<1> HIDE DEF c
<1>6. Complete(c)
  BY <1>1, <1>3 DEF Complete
<1>7. First(c) = First(a) /\ Rest(c) = Rest(a) \o b
  BY <1>3, <1>4, <1>5 DEF First, Rest, t
<1>8. QED
  BY <1>6, <1>7 DEF c

(***************************************************************************)
(* The parser                                                              *)
(***************************************************************************)

\* A buffer of bytes that were parsed, and what the parser gives back.
Parsed == [frames : Seq(RawFrame), left : Seq(Byte)]

\* One turn of the parser, which leaves the rest to g.
Turn(g, buf) ==
  IF Complete(Resync(buf))
  THEN [frames |-> <<First(Resync(buf))>> \o g[Rest(Resync(buf))].frames,
        left |-> g[Rest(Resync(buf))].left]
  ELSE [frames |-> <<>>, left |-> buf]

Shorter(n) == {buf \in Seq(Byte) : Len(buf) < n}

\* The parser on buffers of fewer than n bytes.
ParsesBelow(g, n) == \A buf \in Shorter(n) : g[buf] = Turn(g, buf)

\* What follows the first frame is shorter.
LEMMA RestShorter ==
  ASSUME NEW b \in Seq(Byte), Complete(Resync(b))
  PROVE  Rest(Resync(b)) \in Seq(Byte) /\ Len(Rest(Resync(b))) < Len(b)
<1> DEFINE from == Resync(b)
<1>1. from \in Seq(Byte) /\ Len(from) <= Len(b) /\ Len(b) \in Nat
  BY ResyncType, LenProperties
<1>2. Complete(from)
  OBVIOUS
<1> HIDE DEF from
<1>3. /\ Len(from) \in Nat /\ Total(from) \in 4..Len(from)
      /\ Rest(from) \in Seq(Byte) /\ Len(Rest(from)) = Len(from) - Total(from)
  BY <1>1, <1>2, CompleteType
<1>4. Rest(from) \in Seq(Byte) /\ Len(Rest(from)) < Len(b)
  BY <1>1, <1>3
<1>5. QED
  BY <1>4 DEF from

\* Two parsers of short buffers agree where both parse.
LEMMA ParsesAgree ==
  ASSUME NEW g, NEW h, NEW m \in Nat, NEW n \in Nat, m <= n,
         ParsesBelow(g, m), ParsesBelow(h, n)
  PROVE  \A b \in Shorter(m) : g[b] = h[b]
<1> DEFINE S == {k \in Nat : \A b \in Shorter(k) : Len(b) < m => g[b] = h[b]}
<1>1. 0 \in S
  <2>1. Shorter(0) = {}
    BY LenProperties DEF Shorter
  <2>2. QED
    BY <2>1
<1>2. \A k \in Nat : k \in S => k + 1 \in S
  <2> SUFFICES ASSUME NEW k \in Nat, k \in S
               PROVE  k + 1 \in S
    OBVIOUS
  <2> SUFFICES ASSUME NEW b \in Shorter(k + 1), Len(b) < m
               PROVE  g[b] = h[b]
    OBVIOUS
  <2>1. b \in Seq(Byte) /\ Len(b) \in Nat /\ Len(b) <= k
    BY LenProperties DEF Shorter
  <2>2. g[b] = Turn(g, b) /\ h[b] = Turn(h, b)
    <3>1. b \in Shorter(m) /\ b \in Shorter(n)
      BY <2>1 DEF Shorter
    <3>2. QED
      BY <3>1 DEF ParsesBelow
  <2>3. Complete(Resync(b)) => g[Rest(Resync(b))] = h[Rest(Resync(b))]
    <3> SUFFICES ASSUME Complete(Resync(b))
                 PROVE  g[Rest(Resync(b))] = h[Rest(Resync(b))]
      OBVIOUS
    <3> DEFINE r == Rest(Resync(b))
    <3>1. r \in Seq(Byte) /\ Len(r) < Len(b)
      BY <2>1, RestShorter
    <3>2. Len(r) \in Nat
      BY <3>1, LenProperties
    <3> HIDE DEF r
    <3>3. r \in Shorter(k) /\ Len(r) < m
      BY <2>1, <3>1, <3>2 DEF Shorter
    <3>4. g[r] = h[r]
      BY <3>3
    <3>5. QED
      BY <3>4 DEF r
  <2>4. QED
    BY <2>2, <2>3, Zenon DEF Turn
<1>3. m \in S
  <2> HIDE DEF S
  <2>1. QED
    BY <1>1, <1>2, Induction
<1>4. QED
  BY <1>3 DEF Shorter

\* There is one for every length.
LEMMA ParserBelow ==
  ASSUME NEW n \in Nat
  PROVE  \E g : ParsesBelow(g, n)
<1> DEFINE S == {k \in Nat : \E g : ParsesBelow(g, k)}
<1>1. 0 \in S
  <2>1. Shorter(0) = {}
    BY LenProperties DEF Shorter
  <2>2. \E g : ParsesBelow(g, 0)
    BY <2>1, Zenon DEF ParsesBelow
  <2>3. QED
    BY <2>2
<1>2. \A k \in Nat : k \in S => k + 1 \in S
  <2> SUFFICES ASSUME NEW k \in Nat, k \in S
               PROVE  k + 1 \in S
    OBVIOUS
  <2> PICK g : ParsesBelow(g, k)
    OBVIOUS
  <2> DEFINE h == [b \in Shorter(k + 1) |-> Turn(g, b)]
  <2>1. \A b \in Shorter(k) : h[b] = g[b]
    <3>1. Shorter(k) \subseteq Shorter(k + 1)
      BY LenProperties DEF Shorter
    <3>2. QED
      BY <3>1, Zenon DEF ParsesBelow
  <2>2. ASSUME NEW b \in Shorter(k + 1)
        PROVE  h[b] = Turn(h, b)
    <3>1. h[b] = Turn(g, b)
      OBVIOUS
    <3> HIDE DEF h
    <3>2. b \in Seq(Byte) /\ Len(b) \in Nat /\ Len(b) <= k
      BY LenProperties DEF Shorter
    <3>3. Complete(Resync(b)) => h[Rest(Resync(b))] = g[Rest(Resync(b))]
      <4> SUFFICES ASSUME Complete(Resync(b))
                   PROVE  Rest(Resync(b)) \in Shorter(k)
        BY <2>1, Zenon
      <4> DEFINE r == Rest(Resync(b))
      <4>1. r \in Seq(Byte) /\ Len(r) < Len(b)
        BY <3>2, RestShorter
      <4>2. Len(r) \in Nat
        BY <4>1, LenProperties
      <4> HIDE DEF r
      <4>3. r \in Shorter(k)
        BY <3>2, <4>1, <4>2 DEF Shorter
      <4>4. QED
        BY <4>3 DEF r
    <3>4. QED
      BY <3>1, <3>3, Zenon DEF Turn
  <2> HIDE DEF h
  <2>3. ParsesBelow(h, k + 1)
    BY <2>2 DEF ParsesBelow
  <2>4. QED
    BY <2>3
<1>3. n \in S
  <2> HIDE DEF S
  <2>1. QED
    BY <1>1, <1>2, Induction
<1>4. QED
  BY <1>3

\* So the parser is what its definition says.
LEMMA DrainedIsTurn ==
  ASSUME NEW buf \in Seq(Byte)
  PROVE  Drained[buf] = Turn(Drained, buf)
<1> DEFINE below(n) == CHOOSE g : ParsesBelow(g, n)
           all == [b \in Seq(Byte) |-> below(Len(b) + 1)[b]]
<1>1. \A n \in Nat : ParsesBelow(below(n), n)
  BY ParserBelow, Zenon
<1>2. ASSUME NEW b \in Seq(Byte)
      PROVE  all[b] = Turn(all, b)
  <2> DEFINE n == Len(b) + 1
  <2>1. n \in Nat /\ Len(b) \in Nat /\ b \in Shorter(n)
    BY LenProperties DEF Shorter
  <2>2. all[b] = below(n)[b]
    OBVIOUS
  <2>3. \A r \in Seq(Byte) : all[r] = below(Len(r) + 1)[r]
    OBVIOUS
  <2> HIDE DEF all, n, below
  <2>4. below(n)[b] = Turn(below(n), b)
    BY <1>1, <2>1 DEF ParsesBelow
  <2>5. Complete(Resync(b)) => all[Rest(Resync(b))] = below(n)[Rest(Resync(b))]
    <3> SUFFICES ASSUME Complete(Resync(b))
                 PROVE  all[Rest(Resync(b))] = below(n)[Rest(Resync(b))]
      OBVIOUS
    <3> DEFINE r == Rest(Resync(b))
    <3>1. r \in Seq(Byte) /\ Len(r) < Len(b)
      BY RestShorter
    <3>2. Len(r) \in Nat
      BY <3>1, LenProperties
    <3> HIDE DEF r
    <3> DEFINE m == Len(r) + 1
    <3>3. m \in Nat /\ m <= n /\ r \in Shorter(m)
      BY <2>1, <3>1, <3>2 DEF Shorter, n
    <3>4. all[r] = below(m)[r]
      BY <2>3, <3>1
    <3> HIDE DEF m
    <3>5. ParsesBelow(below(m), m) /\ ParsesBelow(below(n), n)
      BY <1>1, <2>1, <3>3
    <3>6. below(m)[r] = below(n)[r]
      BY <2>1, <3>3, <3>5, ParsesAgree
    <3>7. QED
      BY <3>4, <3>6 DEF r
  <2>6. QED
    BY <2>2, <2>4, <2>5, Zenon DEF Turn
<1>3. all = [b \in Seq(Byte) |-> Turn(all, b)]
  <2>1. all = [b \in Seq(Byte) |-> all[b]]
    OBVIOUS
  <2> HIDE DEF all
  <2>2. QED
    BY <1>2, <2>1
<1> HIDE DEF all
<1>4. \E g : g = [b \in Seq(Byte) |-> Turn(g, b)]
  BY <1>3
<1>5. Drained = CHOOSE g : g = [b \in Seq(Byte) |-> Turn(g, b)]
  BY Zenon DEF Drained, Turn
<1>6. Drained = [b \in Seq(Byte) |-> Turn(Drained, b)]
  BY <1>4, <1>5, Zenon
<1>7. QED
  BY <1>6, Zenon

\* Induction on the length of a buffer, along the rests of the parser.
LEMMA BufferInduction ==
  ASSUME NEW S,
         \A b \in Seq(Byte) :
           (Complete(Resync(b)) => Rest(Resync(b)) \in S) => b \in S
  PROVE  Seq(Byte) \subseteq S
<1> DEFINE T == {n \in Nat : Shorter(n) \subseteq S}
<1>1. 0 \in T
  BY LenProperties DEF Shorter
<1>2. \A n \in Nat : n \in T => n + 1 \in T
  <2> SUFFICES ASSUME NEW n \in Nat, n \in T, NEW b \in Shorter(n + 1)
               PROVE  b \in S
    OBVIOUS
  <2>1. b \in Seq(Byte) /\ Len(b) \in Nat /\ Len(b) <= n
    BY LenProperties DEF Shorter
  <2>2. ASSUME Complete(Resync(b)) PROVE Rest(Resync(b)) \in S
    <3> DEFINE r == Rest(Resync(b))
    <3>1. r \in Seq(Byte) /\ Len(r) < Len(b) /\ Len(r) \in Nat
      BY <2>1, <2>2, RestShorter, LenProperties
    <3> HIDE DEF r
    <3>2. r \in Shorter(n)
      BY <2>1, <3>1 DEF Shorter
    <3>3. QED
      BY <3>2 DEF r
  <2>3. QED
    BY <2>1, <2>2
<1>3. Nat \subseteq T
  <2> HIDE DEF T
  <2>1. QED
    BY <1>1, <1>2, Induction
<1>4. ASSUME NEW b \in Seq(Byte) PROVE b \in S
  <2>1. Len(b) + 1 \in Nat /\ b \in Shorter(Len(b) + 1)
    BY LenProperties DEF Shorter
  <2>2. QED
    BY <1>3, <2>1
<1>5. QED
  BY <1>4

LEMMA IterIncomplete ==
  ASSUME NEW b \in Seq(Byte), ~Complete(Resync(b))
  PROVE  IterFrames(b).frames = <<>> /\ IterFrames(b).left = b
<1>1. IterFrames(b) = [frames |-> <<>>, left |-> b]
  BY DrainedIsTurn, Zenon DEF Turn, IterFrames
<1>2. QED
  BY <1>1

LEMMA IterComplete ==
  ASSUME NEW b \in Seq(Byte), Complete(Resync(b))
  PROVE  /\ IterFrames(b).frames = <<First(Resync(b))>> \o IterFrames(Rest(Resync(b))).frames
         /\ IterFrames(b).left = IterFrames(Rest(Resync(b))).left
<1>1. IterFrames(b) =
        [frames |-> <<First(Resync(b))>> \o IterFrames(Rest(Resync(b))).frames,
         left |-> IterFrames(Rest(Resync(b))).left]
  BY DrainedIsTurn, Zenon DEF Turn, IterFrames
<1>2. QED
  BY <1>1

\* What the parser returns are frames and bytes.
LEMMA IterType ==
  ASSUME NEW b \in Seq(Byte)
  PROVE  /\ IterFrames(b) \in Parsed
         /\ IterFrames(b).frames \in Seq(RawFrame)
         /\ IterFrames(b).left \in Seq(Byte)
<1> DEFINE S == {c \in Seq(Byte) : IterFrames(c) \in Parsed}
<1>1. ASSUME NEW c \in Seq(Byte), Complete(Resync(c)) => Rest(Resync(c)) \in S
      PROVE  c \in S
  <2>1. CASE ~Complete(Resync(c))
    <3>1. IterFrames(c) = [frames |-> <<>>, left |-> c]
      BY <2>1, DrainedIsTurn, Zenon DEF Turn, IterFrames
    <3>2. <<>> \in Seq(RawFrame)
      BY EmptySeq
    <3>3. [frames |-> <<>>, left |-> c] \in Parsed
      BY <3>2 DEF Parsed
    <3>4. QED
      BY <3>1, <3>3
  <2>2. CASE Complete(Resync(c))
    <3> DEFINE from == Resync(c)
               r == IterFrames(Rest(from))
    <3>1. r \in Parsed
      BY <1>1, <2>2
    <3>2. First(from) \in RawFrame
      BY <2>2, ResyncType, FirstType
    <3>3. IterFrames(c) = [frames |-> <<First(from)>> \o r.frames, left |-> r.left]
      BY <2>2, DrainedIsTurn, Zenon DEF Turn, IterFrames
    <3> HIDE DEF r, from
    <3>4. <<First(from)>> \o r.frames \in Seq(RawFrame)
      BY <3>1, <3>2, ConcatProperties DEF Parsed
    <3>5. IterFrames(c) \in Parsed
      BY <3>1, <3>3, <3>4 DEF Parsed
    <3>6. QED
      BY <3>5
  <2>3. QED
    BY <2>1, <2>2
<1>2. Seq(Byte) \subseteq S
  <2> HIDE DEF S
  <2>1. QED
    BY <1>1, BufferInduction
<1>3. IterFrames(b) \in Parsed
  BY <1>2
<1>4. QED
  BY <1>3 DEF Parsed

\* The heart of it (protocol.py:145-156): it makes no difference whether two pieces
\* of a stream are parsed at once, or the first, and what it left with the second.
THEOREM ParserIsIncremental ==
  ASSUME NEW a \in Seq(Byte), NEW b \in Seq(Byte)
  PROVE  /\ IterFrames(a \o b).frames
              = IterFrames(a).frames \o IterFrames(IterFrames(a).left \o b).frames
         /\ IterFrames(a \o b).left = IterFrames(IterFrames(a).left \o b).left
<1> DEFINE Splits(c) ==
             /\ IterFrames(c \o b).frames
                  = IterFrames(c).frames \o IterFrames(IterFrames(c).left \o b).frames
             /\ IterFrames(c \o b).left = IterFrames(IterFrames(c).left \o b).left
           S == {c \in Seq(Byte) : Splits(c)}
<1>1. ASSUME NEW c \in Seq(Byte), Complete(Resync(c)) => Rest(Resync(c)) \in S
      PROVE  c \in S
  <2>1. CASE ~Complete(Resync(c))
    <3>1. IterFrames(c).frames = <<>> /\ IterFrames(c).left = c
      BY <2>1, IterIncomplete
    <3>2. c \o b \in Seq(Byte)
      BY ConcatProperties
    <3>3. IterFrames(c \o b).frames \in Seq(RawFrame)
      BY <3>2, IterType
    <3>4. <<>> \o IterFrames(c \o b).frames = IterFrames(c \o b).frames
      BY <3>3, ConcatEmptySeq
    <3>5. QED
      BY <3>1, <3>4
  <2>2. CASE Complete(Resync(c))
    <3> DEFINE from == Resync(c)
               r == Rest(from)
               f == First(from)
               d == c \o b
    <3>1. from \in Seq(Byte) /\ f \in RawFrame /\ r \in Seq(Byte) /\ r \in S
      BY <1>1, <2>2, ResyncType, FirstType
    <3>2. ~Quiet(c)
      <4> SUFFICES ASSUME Quiet(c) PROVE FALSE
        OBVIOUS
      <4>1. Complete(<<>>)
        BY <2>2, ResyncQuiet
      <4>2. QED
        BY <4>1, EmptySeq DEF Complete
    <3>3. d \in Seq(Byte) /\ Resync(d) = from \o b
      BY <3>2, ResyncConcat, ConcatProperties
    <3>4. Complete(from \o b) /\ First(from \o b) = f /\ Rest(from \o b) = r \o b
      BY <2>2, <3>1, CompleteConcat
    <3>5. /\ IterFrames(c).frames = <<f>> \o IterFrames(r).frames
          /\ IterFrames(c).left = IterFrames(r).left
      BY <2>2, IterComplete
    <3> HIDE DEF d
    <3>6. /\ IterFrames(d).frames = <<f>> \o IterFrames(r \o b).frames
          /\ IterFrames(d).left = IterFrames(r \o b).left
      BY <3>3, <3>4, IterComplete
    <3> HIDE DEF r, f, from
    <3>7. Splits(r)
      BY <3>1
    <3> DEFINE x == IterFrames(r).frames
               y == IterFrames(IterFrames(r).left \o b).frames
    <3>8. x \in Seq(RawFrame) /\ y \in Seq(RawFrame) /\ <<f>> \in Seq(RawFrame)
      <4>1. IterFrames(r).frames \in Seq(RawFrame) /\ IterFrames(r).left \in Seq(Byte)
        BY <3>1, IterType
      <4>2. IterFrames(r).left \o b \in Seq(Byte)
        BY <4>1, ConcatProperties
      <4> DEFINE e == IterFrames(r).left \o b
      <4>3. e \in Seq(Byte)
        BY <4>2
      <4> HIDE DEF e
      <4>4. IterFrames(e).frames \in Seq(RawFrame)
        BY <4>3, IterType
      <4>5. <<f>> \in Seq(RawFrame)
        BY <3>1
      <4>6. QED
        BY <4>1, <4>4, <4>5 DEF e
    <3>9. IterFrames(d).frames = <<f>> \o (x \o y)
      BY <3>6, <3>7
    <3> HIDE DEF x, y
    <3>10. <<f>> \o (x \o y) = (<<f>> \o x) \o y
      BY <3>8, FrameAssoc, Zenon
    <3>11. Splits(c)
      BY <3>5, <3>6, <3>7, <3>9, <3>10 DEF x, y, d
    <3>12. QED
      BY <3>11
  <2>3. QED
    BY <2>1, <2>2
<1>2. Seq(Byte) \subseteq S
  <2> HIDE DEF S
  <2>1. QED
    BY <1>1, BufferInduction
<1>3. QED
  BY <1>2

(***************************************************************************)
(* Encoding                                                                *)
(***************************************************************************)

LEMMA XorType ==
  ASSUME NEW x \in Byte, NEW y \in Byte
  PROVE  Xor(x, y) \in Byte
<1> DEFINE bit(w) == w * ((x \div w + y \div w) % 2)
           b1 == bit(1)
           b2 == bit(2)
           b4 == bit(4)
           b8 == bit(8)
           b16 == bit(16)
           b32 == bit(32)
           b64 == bit(64)
           b128 == bit(128)
<1>1. /\ b1 \in 0..1 /\ b2 \in 0..2 /\ b4 \in 0..4 /\ b8 \in 0..8
      /\ b16 \in 0..16 /\ b32 \in 0..32 /\ b64 \in 0..64 /\ b128 \in 0..128
  BY DEF Byte
<1>2. Xor(x, y) = b1 + b2 + b4 + b8 + b16 + b32 + b64 + b128
  BY Zenon DEF Xor
<1> HIDE DEF b1, b2, b4, b8, b16, b32, b64, b128
<1>3. QED
  BY <1>1, <1>2 DEF Byte

LEMMA ChecksumType ==
  ASSUME NEW s \in Seq(Byte)
  PROVE  Checksum(s) \in Byte
<1> DEFINE Up(g, n) == g = [i \in 0..n |-> IF i = 0 THEN 0 ELSE Xor(g[i - 1], s[i])]
           S == {n \in Nat : \E g : Up(g, n)}
<1>1. 0 \in S
  <2> DEFINE g == [i \in 0..0 |-> 0]
  <2>1. Up(g, 0)
    OBVIOUS
  <2>2. QED
    BY <2>1
<1>2. \A n \in Nat : n \in S => n + 1 \in S
  <2> SUFFICES ASSUME NEW n \in Nat, n \in S
               PROVE  n + 1 \in S
    OBVIOUS
  <2> PICK g : Up(g, n)
    OBVIOUS
  <2> DEFINE last == Xor(g[n], s[n + 1])
             h == [i \in 0..(n + 1) |-> IF i = n + 1 THEN last ELSE g[i]]
  <2>1. ASSUME NEW i \in 0..(n + 1)
        PROVE  h[i] = IF i = 0 THEN 0 ELSE Xor(h[i - 1], s[i])
    <3>1. CASE i = n + 1
      BY <3>1
    <3>2. CASE i \in 0..n
      <4>1. h[i] = g[i]
        BY <3>2
      <4>2. i # 0 => h[i - 1] = g[i - 1]
        BY <3>2
      <4>3. g[i] = IF i = 0 THEN 0 ELSE Xor(g[i - 1], s[i])
        BY <3>2, Zenon
      <4> HIDE DEF h
      <4>4. QED
        BY <4>1, <4>2, <4>3
    <3>3. QED
      BY <3>1, <3>2
  <2>2. Up(h, n + 1)
    <3>1. h = [i \in 0..(n + 1) |-> h[i]]
      OBVIOUS
    <3> HIDE DEF h
    <3>2. QED
      BY <2>1, <3>1
  <2>3. n + 1 \in Nat
    OBVIOUS
  <2> HIDE DEF h, Up
  <2>4. QED
    BY <2>2, <2>3
<1>3. Len(s) \in S
  <2> HIDE DEF S
  <2>1. QED
    BY <1>1, <1>2, LenProperties, Induction
<1> DEFINE up == CHOOSE g : Up(g, Len(s))
<1>4. Up(up, Len(s))
  BY <1>3
<1>5. Checksum(s) = up[Len(s)]
  BY Zenon DEF Checksum
<1>6. ASSUME NEW i \in 0..Len(s)
      PROVE  up[i] = IF i = 0 THEN 0 ELSE Xor(up[i - 1], s[i])
  <2> HIDE DEF up
  <2>1. QED
    BY <1>4, Zenon
<1> HIDE DEF up
<1> DEFINE T == {i \in Nat : i <= Len(s) => up[i] \in Byte}
<1>7. 0 \in T
  BY <1>6, LenProperties DEF Byte
<1>8. \A i \in Nat : i \in T => i + 1 \in T
  <2> SUFFICES ASSUME NEW i \in Nat, i \in T
               PROVE  i + 1 \in T
    OBVIOUS
  <2> SUFFICES ASSUME i + 1 <= Len(s)
               PROVE  up[i + 1] \in Byte
    OBVIOUS
  <2>1. i + 1 \in 1..Len(s) /\ i + 1 \in 0..Len(s) /\ i <= Len(s) /\ (i + 1) - 1 = i
    BY LenProperties
  <2>2. up[i] \in Byte /\ s[i + 1] \in Byte
    BY <2>1, ElementOfSeq
  <2>3. up[i + 1] = Xor(up[i], s[i + 1])
    BY <1>6, <2>1
  <2>4. QED
    BY <2>2, <2>3, XorType
<1>9. Len(s) \in T
  <2> HIDE DEF T
  <2>1. QED
    BY <1>7, <1>8, LenProperties, Induction
<1>10. QED
  BY <1>5, <1>9, LenProperties

LEMMA ConcatAt ==
  ASSUME NEW A, NEW s \in Seq(A), NEW t \in Seq(A)
  PROVE  /\ s \o t \in Seq(A) /\ Len(s \o t) = Len(s) + Len(t)
         /\ Len(s) \in Nat /\ Len(t) \in Nat
         /\ \A i \in 1..Len(s) : (s \o t)[i] = s[i]
         /\ \A i \in 1..Len(t) : (s \o t)[Len(s) + i] = t[i]
<1>1. Len(s) \in Nat /\ Len(t) \in Nat
  BY LenProperties
<1>2. /\ s \o t \in Seq(A) /\ Len(s \o t) = Len(s) + Len(t)
      /\ \A i \in 1..(Len(s) + Len(t)) :
           (s \o t)[i] = IF i <= Len(s) THEN s[i] ELSE t[i - Len(s)]
  BY ConcatProperties
<1>3. \A i \in 1..Len(s) : (s \o t)[i] = s[i]
  BY <1>1, <1>2
<1>4. \A i \in 1..Len(t) : (s \o t)[Len(s) + i] = t[i]
  BY <1>1, <1>2
<1>5. QED
  BY <1>1, <1>2, <1>3, <1>4

\* How an encoded frame is laid out.
LEMMA EncodeLayout ==
  ASSUME NEW f \in Sendable
  PROVE  /\ Encode(f) \in Seq(Byte)
         /\ Len(Encode(f)) = Len(f.payload) + 12
         /\ Len(f.payload) \in Nat
         /\ Encode(f)[1] = Magic
         /\ Total(Encode(f)) = Len(f.payload) + 12
         /\ \A i \in 1..2 : Encode(f)[3 + i] = f.seq[i]
         /\ \A i \in 1..6 : Encode(f)[5 + i] = f.mac[i]
         /\ \A i \in 1..Len(f.payload) : Encode(f)[11 + i] = f.payload[i]
<1> DEFINE s == f.seq
           m == f.mac
           p == f.payload
           body == s \o m \o p
           n == Len(p)
           tail == <<Len(body) \div 256, Len(body) % 256>> \o body
           e == <<Magic>> \o tail \o <<Checksum(tail)>>
<1>1. /\ s \in Seq(Byte) /\ m \in Seq(Byte) /\ p \in Seq(Byte)
      /\ Len(s) = 2 /\ Len(m) = 6 /\ n \in Nat /\ n < 65528
  BY LenProperties DEF Sendable, RawFrame
<1>2. Encode(f) = e
  BY Zenon DEF Encode
<1> HIDE DEF s, m, p
<1>3. /\ body \in Seq(Byte) /\ Len(body) = n + 8
      /\ \A i \in 1..2 : body[i] = s[i]
      /\ \A i \in 1..6 : body[2 + i] = m[i]
      /\ \A i \in 1..n : body[8 + i] = p[i]
  <2> DEFINE sm == s \o m
  <2>1. /\ sm \in Seq(Byte) /\ Len(sm) = 8
        /\ \A i \in 1..2 : sm[i] = s[i]
        /\ \A i \in 1..6 : sm[2 + i] = m[i]
    <3>1. /\ sm \in Seq(Byte) /\ Len(sm) = Len(s) + Len(m)
          /\ \A i \in 1..Len(s) : sm[i] = s[i]
          /\ \A i \in 1..Len(m) : sm[Len(s) + i] = m[i]
      <4>1. s \in Seq(Byte) /\ m \in Seq(Byte)
        BY <1>1
      <4>2. QED
        BY <4>1, ConcatAt
    <3> HIDE DEF sm
    <3>2. QED
      BY <1>1, <3>1
  <2> HIDE DEF sm
  <2>2. /\ sm \o p \in Seq(Byte) /\ Len(sm \o p) = 8 + n
        /\ \A i \in 1..8 : (sm \o p)[i] = sm[i]
        /\ \A i \in 1..n : (sm \o p)[8 + i] = p[i]
    <3>1. /\ sm \o p \in Seq(Byte) /\ Len(sm \o p) = Len(sm) + Len(p)
          /\ \A i \in 1..Len(sm) : (sm \o p)[i] = sm[i]
          /\ \A i \in 1..Len(p) : (sm \o p)[Len(sm) + i] = p[i]
      <4>1. sm \in Seq(Byte) /\ p \in Seq(Byte)
        BY <1>1, <2>1
      <4>2. QED
        BY <4>1, ConcatAt
    <3>2. Len(sm) = 8 /\ Len(p) = n
      BY <1>1, <2>1
    <3>3. QED
      BY <3>1, <3>2, Zenon
  <2>3. body = sm \o p
    BY DEF sm
  <2> HIDE DEF body, n
  <2>4. Len(body) = n + 8 /\ \A i \in 1..8 : body[i] = sm[i]
    <3>1. /\ Len(body) = 8 + n
          /\ \A i \in 1..8 : body[i] = sm[i]
      BY <2>2, <2>3, Zenon
    <3>2. 8 + n = n + 8
      BY <1>1
    <3>3. QED
      BY <3>1, <3>2, Zenon
  <2>5. \A i \in 1..6 : body[2 + i] = m[i]
    <3> SUFFICES ASSUME NEW i \in 1..6 PROVE body[2 + i] = m[i]
      OBVIOUS
    <3>1. 2 + i \in 1..8
      OBVIOUS
    <3>2. QED
      BY <2>1, <2>4, <3>1
  <2>6. \A i \in 1..2 : body[i] = s[i]
    <3>1. \A i \in 1..2 : i \in 1..8
      OBVIOUS
    <3>2. QED
      BY <2>1, <2>4, <3>1
  <2>7. body \in Seq(Byte) /\ \A i \in 1..n : body[8 + i] = p[i]
    BY <2>2, <2>3
  <2>8. QED
    BY <2>4, <2>5, <2>6, <2>7
<1> HIDE DEF body, n
<1> DEFINE hi == Len(body) \div 256
           lo == Len(body) % 256
<1>4. hi \in Byte /\ lo \in Byte /\ hi * 256 + lo = n + 8
  <2> DEFINE k == Len(body)
  <2>1. k = n + 8
    BY <1>3
  <2> HIDE DEF k
  <2>2. k \div 256 \in 0..255 /\ k % 256 \in 0..255 /\ (k \div 256) * 256 + (k % 256) = k
    <3>1. k \in Nat /\ k <= 65535
      BY <1>1, <2>1
    <3>2. QED
      BY <3>1
  <2>3. QED
    BY <2>1, <2>2 DEF k, Byte
<1>5. /\ tail \in Seq(Byte) /\ Len(tail) = n + 10
      /\ tail[1] = hi /\ tail[2] = lo
      /\ \A i \in 1..(n + 8) : tail[2 + i] = body[i]
  <2> HIDE DEF hi, lo
  <2> DEFINE two == <<hi, lo>>
  <2>1. two \in Seq(Byte) /\ Len(two) = 2 /\ two[1] = hi /\ two[2] = lo
    BY <1>4
  <2>2. tail = two \o body
    BY DEF hi, lo
  <2> HIDE DEF two, tail
  <2>3. /\ two \o body \in Seq(Byte) /\ Len(two \o body) = 2 + (n + 8)
        /\ \A i \in 1..2 : (two \o body)[i] = two[i]
        /\ \A i \in 1..(n + 8) : (two \o body)[2 + i] = body[i]
    <3>1. /\ two \o body \in Seq(Byte) /\ Len(two \o body) = Len(two) + Len(body)
          /\ \A i \in 1..Len(two) : (two \o body)[i] = two[i]
          /\ \A i \in 1..Len(body) : (two \o body)[Len(two) + i] = body[i]
      <4>1. two \in Seq(Byte) /\ body \in Seq(Byte)
        BY <1>3, <2>1
      <4>2. QED
        BY <4>1, ConcatAt
    <3>2. QED
      BY <1>3, <2>1, <3>1
  <2>4. tail \in Seq(Byte) /\ \A i \in 1..(n + 8) : tail[2 + i] = body[i]
    BY <2>2, <2>3
  <2>5. Len(tail) = n + 10
    BY <1>1, <2>2, <2>3
  <2>6. tail[1] = hi /\ tail[2] = lo
    <3>1. 1 \in 1..2 /\ 2 \in 1..2
      OBVIOUS
    <3>2. QED
      BY <2>1, <2>2, <2>3, <3>1
  <2>7. QED
    BY <2>4, <2>5, <2>6
<1> HIDE DEF tail
<1>6. Checksum(tail) \in Byte /\ Magic \in Byte
  BY <1>5, ChecksumType DEF Magic, Byte
<1>7. /\ e \in Seq(Byte) /\ Len(e) = n + 12 /\ e[1] = Magic
      /\ \A i \in 1..(n + 10) : e[1 + i] = tail[i]
  BY <1>1, <1>5, <1>6
<1> HIDE DEF e, hi, lo
<1>8. e[2] = hi /\ e[3] = lo /\ \A i \in 1..(n + 8) : e[3 + i] = body[i]
  <2>1. e[1 + 1] = tail[1] /\ e[1 + 2] = tail[2]
    BY <1>1, <1>7
  <2>2. ASSUME NEW i \in 1..(n + 8) PROVE e[3 + i] = body[i]
    <3>1. 2 + i \in 1..(n + 10) /\ 1 + (2 + i) = 3 + i
      BY <1>1
    <3>2. QED
      BY <1>5, <1>7, <3>1
  <2>3. QED
    BY <1>5, <2>1, <2>2
<1>9. Total(e) = n + 12
  BY <1>1, <1>4, <1>8 DEF Total, Byte
<1>10. \A i \in 1..2 : e[3 + i] = s[i]
  <2> SUFFICES ASSUME NEW i \in 1..2 PROVE e[3 + i] = s[i]
    OBVIOUS
  <2>1. i \in 1..(n + 8)
    BY <1>1
  <2>2. e[3 + i] = body[i] /\ body[i] = s[i]
    BY <1>3, <1>8, <2>1, Zenon
  <2>3. QED
    BY <2>2, Zenon
<1>11. \A i \in 1..6 : e[5 + i] = m[i]
  <2> SUFFICES ASSUME NEW i \in 1..6 PROVE e[5 + i] = m[i]
    OBVIOUS
  <2>1. 2 + i \in 1..(n + 8) /\ 3 + (2 + i) = 5 + i
    BY <1>1
  <2>2. QED
    BY <1>3, <1>8, <2>1
<1>12. \A i \in 1..n : e[11 + i] = p[i]
  <2> SUFFICES ASSUME NEW i \in 1..n PROVE e[11 + i] = p[i]
    OBVIOUS
  <2>1. 8 + i \in 1..(n + 8) /\ 3 + (8 + i) = 11 + i
    BY <1>1
  <2>2. QED
    BY <1>3, <1>8, <2>1
<1>13. QED
  BY <1>1, <1>2, <1>7, <1>9, <1>10, <1>11, <1>12 DEF s, m, p, n

\* A part of a sequence, recognised by its elements.
LEMMA PartIs ==
  ASSUME NEW A, NEW e \in Seq(A), NEW x \in Seq(A), NEW k \in Nat,
         k + Len(x) <= Len(e), \A i \in 1..Len(x) : e[k + i] = x[i]
  PROVE  SubSeq(e, k + 1, k + Len(x)) = x
<1> DEFINE y == SubSeq(e, k + 1, k + Len(x))
<1>1. Len(x) \in Nat /\ Len(e) \in Nat
  BY LenProperties
<1>2. \A i \in (k + 1)..(k + Len(x)) : e[i] \in A
  BY <1>1, ElementOfSeq
<1>3. /\ y \in Seq(A) /\ Len(y) = Len(x)
      /\ \A i \in 1..Len(x) : y[i] = e[k + i]
  <2> DEFINE m == k + 1
             n == k + Len(x)
  <2>1. m \in Int /\ n \in Int /\ \A i \in m..n : e[i] \in A
    BY <1>1, <1>2
  <2>2. /\ SubSeq(e, m, n) \in Seq(A)
        /\ Len(SubSeq(e, m, n)) = IF m <= n THEN n - m + 1 ELSE 0
        /\ \A i \in 1..(n - m + 1) : SubSeq(e, m, n)[i] = e[m + i - 1]
    <3> HIDE DEF m, n
    <3>1. QED
      BY <2>1, SubSeqProperties
  <2>3. n - m + 1 = Len(x) /\ (m <= n \/ Len(x) = 0)
    BY <1>1
  <2>4. \A i \in 1..Len(x) : m + i - 1 = k + i
    BY <1>1
  <2>5. y = SubSeq(e, m, n)
    OBVIOUS
  <2> HIDE DEF y, m, n
  <2>6. QED
    BY <1>1, <2>2, <2>3, <2>4, <2>5
<1> HIDE DEF y
<1>4. y = x
  BY <1>3, SeqEqual
<1>5. QED
  BY <1>4 DEF y

LEMMA SliceIs ==
  ASSUME NEW A, NEW e \in Seq(A), NEW x \in Seq(A), NEW k \in Nat, NEW j \in Nat,
         k + Len(x) = j, j < Len(e), \A i \in 1..Len(x) : e[k + i] = x[i]
  PROVE  Slice(e, k, j) = x
<1>1. SubSeq(e, k + 1, k + Len(x)) = x
  BY PartIs, LenProperties
<1>2. Slice(e, k, j) = SubSeq(e, k + 1, j)
  BY DEF Slice
<1>3. QED
  BY <1>1, <1>2

\* What is encoded is decoded again (protocol.py:69-102): the widths and the length
\* field put every part where the parser looks for it.
THEOREM DecodeOfEncode ==
  ASSUME NEW f \in Sendable
  PROVE  /\ Complete(Encode(f)) /\ Resync(Encode(f)) = Encode(f)
         /\ First(Encode(f)) = f
         /\ Rest(Encode(f)) = <<>>
<1> DEFINE e == Encode(f)
           n == Len(f.payload)
<1>1. /\ f \in RawFrame /\ f.seq \in Seq(Byte) /\ f.mac \in Seq(Byte) /\ f.payload \in Seq(Byte)
      /\ Len(f.seq) = 2 /\ Len(f.mac) = 6
  BY DEF Sendable, RawFrame
<1>2. /\ e \in Seq(Byte) /\ Len(e) = n + 12 /\ n \in Nat /\ e[1] = Magic /\ Total(e) = n + 12
      /\ \A i \in 1..2 : e[3 + i] = f.seq[i]
      /\ \A i \in 1..6 : e[5 + i] = f.mac[i]
      /\ \A i \in 1..n : e[11 + i] = f.payload[i]
  BY EncodeLayout
<1> HIDE DEF e
<1>3. Complete(e)
  BY <1>2 DEF Complete
<1>4. SubSeq(e, 1, Len(e)) = e
  BY <1>2, SubSeqFull
<1>5. Resync(e) = e
  <2>1. 1 \in 1..Len(e) /\ \A i \in 1..(1 - 1) : e[i] # Magic
    BY <1>2
  <2>2. QED
    BY <1>2, <1>4, <2>1, ResyncAt
<1>6. Rest(e) = <<>>
  <2>1. Len(e) \in Int /\ Len(e) < Total(e) + 1 /\ Total(e) + 1 \in Int
    BY <1>2
  <2>2. QED
    BY <2>1, SubSeqEmpty DEF Rest
<1> DEFINE u == f.seq
           v == f.mac
           w == f.payload
<1>7. Slice(e, 3, 5) = u
  <2>1. u \in Seq(Byte) /\ 3 + Len(u) = 5 /\ 5 < Len(e) /\ \A i \in 1..Len(u) : e[3 + i] = u[i]
    BY <1>1, <1>2
  <2> HIDE DEF u
  <2>2. QED
    <3>1. e \in Seq(Byte) /\ 3 \in Nat /\ 5 \in Nat
      BY <1>2
    <3>2. QED
      BY <2>1, <3>1, SliceIs
<1>8. Slice(e, 5, 11) = v
  <2>1. v \in Seq(Byte) /\ 5 + Len(v) = 11 /\ 11 < Len(e) /\ \A i \in 1..Len(v) : e[5 + i] = v[i]
    BY <1>1, <1>2
  <2> HIDE DEF v
  <2>2. QED
    <3>1. e \in Seq(Byte) /\ 5 \in Nat /\ 11 \in Nat
      BY <1>2
    <3>2. QED
      BY <2>1, <3>1, SliceIs
<1>9. Slice(e, 11, Len(e) - 1) = w
  <2>1. w \in Seq(Byte) /\ \A i \in 1..Len(w) : e[11 + i] = w[i]
    BY <1>1, <1>2
  <2> DEFINE j == Len(e) - 1
  <2>2. 11 + Len(w) = j /\ j \in Nat /\ j < Len(e)
    <3>1. Len(e) = Len(w) + 12 /\ Len(w) \in Nat
      BY <1>2
    <3> HIDE DEF w
    <3>2. QED
      BY <3>1
  <2> HIDE DEF w, j
  <2>3. Slice(e, 11, j) = w
    BY <1>2, <2>1, <2>2, SliceIs
  <2>4. QED
    BY <2>3 DEF j
<1>10. Decode(e) = f
  <2>1. f = [seq |-> f.seq, mac |-> f.mac, payload |-> f.payload]
    BY <1>1 DEF RawFrame
  <2>2. QED
    BY <1>7, <1>8, <1>9, <2>1, Zenon DEF Decode
<1>11. First(e) = f
  BY <1>2, <1>4, <1>10 DEF First
<1>12. QED
  BY <1>3, <1>5, <1>6, <1>11 DEF e

(***************************************************************************)
(* Bytes between frames                                                    *)
(***************************************************************************)

LEMMA QuietConcat ==
  ASSUME NEW a \in Seq(Byte), NEW b \in Seq(Byte)
  PROVE  Quiet(a \o b) = (Quiet(a) /\ Quiet(b))
<1> DEFINE c == a \o b
<1>1. /\ c \in Seq(Byte) /\ Len(c) = Len(a) + Len(b)
      /\ Len(a) \in Nat /\ Len(b) \in Nat
      /\ \A i \in 1..Len(a) : c[i] = a[i]
      /\ \A i \in 1..Len(b) : c[Len(a) + i] = b[i]
  BY ConcatAt
<1> HIDE DEF c
<1>2. Quiet(c) => Quiet(a) /\ Quiet(b)
  <2> SUFFICES ASSUME \A i \in 1..Len(c) : c[i] # Magic
               PROVE  (\A i \in 1..Len(a) : a[i] # Magic) /\ \A i \in 1..Len(b) : b[i] # Magic
    BY DEF Quiet, Contains
  <2>1. \A i \in 1..Len(a) : i \in 1..Len(c)
    BY <1>1
  <2>2. \A i \in 1..Len(b) : Len(a) + i \in 1..Len(c)
    BY <1>1
  <2>3. QED
    BY <1>1, <2>1, <2>2
<1>3. Quiet(a) /\ Quiet(b) => Quiet(c)
  <2> SUFFICES ASSUME \A i \in 1..Len(a) : a[i] # Magic,
                      \A i \in 1..Len(b) : b[i] # Magic,
                      NEW i \in 1..Len(c)
               PROVE  c[i] # Magic
    BY DEF Quiet, Contains
  <2>1. (i \in 1..Len(a) \/ i - Len(a) \in 1..Len(b)) /\ Len(a) + (i - Len(a)) = i
    BY <1>1
  <2>2. QED
    BY <1>1, <2>1
<1>4. QED
  BY <1>2, <1>3 DEF c, Quiet, Contains

LEMMA QuietIncomplete ==
  ASSUME NEW q \in Seq(Byte), Quiet(q)
  PROVE  ~Complete(Resync(q)) /\ IterFrames(q).frames = <<>> /\ IterFrames(q).left = q
<1>1. ~Complete(Resync(q))
  <2>1. Resync(q) = <<>>
    BY ResyncQuiet
  <2>2. ~Complete(<<>>)
    BY EmptySeq DEF Complete
  <2>3. QED
    BY <2>1, <2>2
<1>2. QED
  BY <1>1, IterIncomplete

LEMMA QuietEmpty == Quiet(<<>>)
BY DEF Quiet, Contains

\* A frame behind bytes that are none is found, and nothing else.
LEMMA IterEncoded ==
  ASSUME NEW q \in Seq(Byte), Quiet(q), NEW f \in Sendable
  PROVE  /\ IterFrames(q \o Encode(f)).frames = <<f>>
         /\ IterFrames(q \o Encode(f)).left = <<>>
<1> DEFINE e == Encode(f)
           c == q \o e
<1>1. e \in Seq(Byte) /\ Complete(e) /\ Resync(e) = e /\ First(e) = f /\ Rest(e) = <<>>
  BY EncodeLayout, DecodeOfEncode
<1> HIDE DEF e
<1>2. c \in Seq(Byte) /\ Resync(c) = e
  BY <1>1, ResyncSkips, ConcatProperties
<1> HIDE DEF c
<1>3. /\ IterFrames(c).frames = <<f>> \o IterFrames(<<>>).frames
      /\ IterFrames(c).left = IterFrames(<<>>).left
  BY <1>1, <1>2, IterComplete
<1>4. IterFrames(<<>>).frames = <<>> /\ IterFrames(<<>>).left = <<>>
  <2>1. <<>> \in Seq(Byte)
    BY EmptySeq
  <2>2. QED
    BY <2>1, QuietEmpty, QuietIncomplete
<1>5. <<f>> \o <<>> = <<f>>
  OBVIOUS
<1>6. QED
  BY <1>3, <1>4, <1>5 DEF c, e

\* Bytes that are no frame do not change what is found behind them.
LEMMA IterSkips ==
  ASSUME NEW q \in Seq(Byte), Quiet(q), NEW b \in Seq(Byte)
  PROVE  /\ IterFrames(q \o b).frames = IterFrames(b).frames
         /\ Quiet(IterFrames(q \o b).left) => Quiet(IterFrames(b).left)
<1> DEFINE c == q \o b
<1>1. c \in Seq(Byte) /\ Resync(c) = Resync(b)
  BY ResyncSkips, ConcatProperties
<1>2. Quiet(c) => Quiet(b)
  BY QuietConcat
<1> HIDE DEF c
<1>3. CASE Complete(Resync(b))
  BY <1>1, <1>3, IterComplete DEF c
<1>4. CASE ~Complete(Resync(b))
  BY <1>1, <1>2, <1>4, IterIncomplete DEF c
<1>5. QED
  BY <1>3, <1>4

(***************************************************************************)
(* What is captured                                                        *)
(***************************************************************************)

LEMMA CapturedType ==
  ASSUME NEW who \in {"cloud", "device", "dashboard"}, NEW fs \in Seq(RawFrame)
  PROVE  /\ Captured(who, fs) \in Seq({e \in Entry : e.from = who})
         /\ Captured(who, fs) \in Seq(Entry)
         /\ Len(Captured(who, fs)) = Len(fs)
         /\ \A i \in 1..Len(fs) : Captured(who, fs)[i] = [from |-> who, frame |-> fs[i]]
<1>1. Len(fs) \in Nat /\ DOMAIN fs = 1..Len(fs)
  BY LenProperties
<1>2. Captured(who, fs) = [i \in 1..Len(fs) |-> [from |-> who, frame |-> fs[i]]]
  BY <1>1 DEF Captured
<1>3. ASSUME NEW i \in 1..Len(fs)
      PROVE  [from |-> who, frame |-> fs[i]] \in {e \in Entry : e.from = who}
  <2>1. fs[i] \in RawFrame
    BY ElementOfSeq
  <2>2. QED
    BY <2>1 DEF Entry
<1>4. ASSUME NEW A, \A i \in 1..Len(fs) : [from |-> who, frame |-> fs[i]] \in A
      PROVE  /\ Captured(who, fs) \in Seq(A) /\ Len(Captured(who, fs)) = Len(fs)
             /\ \A i \in 1..Len(fs) : Captured(who, fs)[i] = [from |-> who, frame |-> fs[i]]
  <2> DEFINE g == [i \in 1..Len(fs) |-> [from |-> who, frame |-> fs[i]]]
  <2>1. g \in Seq(A) /\ Len(g) = Len(fs)
    <3>1. \A i \in 1..Len(fs) : g[i] \in A
      BY <1>4
    <3>2. g = [i \in 1..Len(fs) |-> g[i]]
      OBVIOUS
    <3> HIDE DEF g
    <3>3. QED
      BY <1>1, <3>1, <3>2
  <2>2. QED
    BY <1>2, <2>1
<1>5. \A i \in 1..Len(fs) : [from |-> who, frame |-> fs[i]] \in Entry
  BY <1>3
<1>6. QED
  BY <1>3, <1>4, <1>5

LEMMA CapturedConcat ==
  ASSUME NEW who \in {"cloud", "device", "dashboard"},
         NEW fs \in Seq(RawFrame), NEW gs \in Seq(RawFrame)
  PROVE  Captured(who, fs \o gs) = Captured(who, fs) \o Captured(who, gs)
<1> DEFINE hs == fs \o gs
           x == Captured(who, fs)
           y == Captured(who, gs)
           z == Captured(who, hs)
<1>1. /\ hs \in Seq(RawFrame) /\ Len(hs) = Len(fs) + Len(gs)
      /\ Len(fs) \in Nat /\ Len(gs) \in Nat
      /\ \A i \in 1..Len(fs) : hs[i] = fs[i]
      /\ \A i \in 1..Len(gs) : hs[Len(fs) + i] = gs[i]
  BY ConcatAt
<1> HIDE DEF hs
<1>2. /\ x \in Seq(Entry) /\ Len(x) = Len(fs)
      /\ \A i \in 1..Len(fs) : x[i] = [from |-> who, frame |-> fs[i]]
  BY CapturedType
<1>3. /\ y \in Seq(Entry) /\ Len(y) = Len(gs)
      /\ \A i \in 1..Len(gs) : y[i] = [from |-> who, frame |-> gs[i]]
  BY CapturedType
<1>4. /\ z \in Seq(Entry) /\ Len(z) = Len(hs)
      /\ \A i \in 1..Len(hs) : z[i] = [from |-> who, frame |-> hs[i]]
  BY <1>1, CapturedType
<1> HIDE DEF x, y, z
<1>5. /\ x \o y \in Seq(Entry) /\ Len(x \o y) = Len(fs) + Len(gs)
      /\ \A i \in 1..Len(fs) : (x \o y)[i] = x[i]
      /\ \A i \in 1..Len(gs) : (x \o y)[Len(fs) + i] = y[i]
  <2>1. x \in Seq(Entry) /\ y \in Seq(Entry)
    BY <1>2, <1>3
  <2>2. /\ x \o y \in Seq(Entry) /\ Len(x \o y) = Len(x) + Len(y)
        /\ \A i \in 1..Len(x) : (x \o y)[i] = x[i]
        /\ \A i \in 1..Len(y) : (x \o y)[Len(x) + i] = y[i]
    BY <2>1, ConcatAt
  <2>3. QED
    BY <1>2, <1>3, <2>2
<1>6. ASSUME NEW i \in 1..(Len(fs) + Len(gs)) PROVE z[i] = (x \o y)[i]
  <2>1. CASE i \in 1..Len(fs)
    <3>1. i \in 1..Len(hs) /\ hs[i] = fs[i]
      BY <1>1, <2>1
    <3>2. QED
      BY <1>2, <1>4, <1>5, <2>1, <3>1
  <2>2. CASE i - Len(fs) \in 1..Len(gs)
    <3> DEFINE j == i - Len(fs)
    <3>1. j \in 1..Len(gs) /\ i = Len(fs) + j /\ i \in 1..Len(hs)
      BY <1>1, <2>2
    <3> HIDE DEF j
    <3>2. hs[i] = gs[j] /\ (x \o y)[i] = y[j]
      BY <1>1, <1>5, <3>1
    <3>3. QED
      BY <1>3, <1>4, <3>1, <3>2
  <2>3. i \in 1..Len(fs) \/ i - Len(fs) \in 1..Len(gs)
    BY <1>1
  <2>4. QED
    BY <2>1, <2>2, <2>3
<1>7. z = x \o y
  <2> DEFINE w == x \o y
  <2>1. /\ w \in Seq(Entry) /\ Len(w) = Len(z) /\ z \in Seq(Entry)
        /\ \A i \in 1..Len(w) : z[i] = w[i]
    BY <1>1, <1>4, <1>5, <1>6
  <2> HIDE DEF w
  <2>2. z = w
    BY <2>1, SeqEqual
  <2>3. QED
    BY <2>2 DEF w
<1>8. QED
  BY <1>7 DEF x, y, z, hs

LEMMA CapturedEmpty == \A who : Captured(who, <<>>) = <<>>
BY DEF Captured

From(w) == {e \in Entry : e.from = w}

\* What one captured is found among what all did, and what others did is not.
LEMMA CapturedIsFrom ==
  ASSUME NEW who \in {"cloud", "device", "dashboard"}, NEW fs \in Seq(RawFrame), NEW w
  PROVE  Only(Captured(who, fs), From(w))
           = IF who = w THEN Captured(who, fs) ELSE <<>>
<1> DEFINE A == {e \in Entry : e.from = who}
           K == {e \in Entry : e.from = w}
           x == Captured(who, fs)
<1>1. x \in Seq(A)
  BY CapturedType
<1>2. who = w => A \subseteq K
  OBVIOUS
<1>3. who # w => A \cap K = {}
  OBVIOUS
<1> HIDE DEF A, K, x
<1>4. QED
  <2>1. From(w) = K
    BY DEF From, K
  <2>2. Only(x, K) = IF who = w THEN x ELSE <<>>
    BY <1>1, <1>2, <1>3, OnlyAll, OnlyNone
  <2>3. QED
    BY <2>1, <2>2, Zenon DEF x

Seen(d) == \E i \in DOMAIN d : d[i].from = "device"

LEMMA SinceAt ==
  ASSUME NEW d \in Seq(Entry), NEW k \in 1..Len(d), d[k].from = "device",
         \A i \in 1..(k - 1) : d[i].from # "device"
  PROVE  Since(d) = SubSeq(d, k, Len(d))
<1> DEFINE I == {i \in 1..Len(d) : d[i].from = "device"}
<1>1. k \in I /\ \A i \in I : k <= i
  OBVIOUS
<1>2. I \subseteq Int
  OBVIOUS
<1>3. Min(I) = k
  <2> HIDE DEF I
  <2>1. \E x \in I : \A y \in I : x <= y
    BY <1>1
  <2>2. Min(I) \in I /\ \A y \in I : Min(I) <= y
    BY <2>1, Zenon DEF Min
  <2> DEFINE m == Min(I)
  <2>3. m \in I /\ \A y \in I : m <= y
    BY <2>2
  <2> HIDE DEF m
  <2>4. k <= m /\ m <= k /\ m \in Int /\ k \in Int
    BY <1>1, <1>2, <2>3
  <2>5. m = k
    BY <2>4
  <2>6. QED
    BY <2>5 DEF m
<1>4. SelectInSeq(d, LAMBDA e : e.from = "device") = IF I # {} THEN Min(I) ELSE 0
  BY Zenon DEF SelectInSeq
<1>5. SelectInSeq(d, LAMBDA e : e.from = "device") = k
  <2> HIDE DEF I
  <2>1. QED
    BY <1>1, <1>3, <1>4, Zenon
<1>6. k # 0
  OBVIOUS
<1>7. QED
  BY <1>5, <1>6, Zenon DEF Since

LEMMA SinceNone ==
  ASSUME NEW d \in Seq(Entry), ~Seen(d)
  PROVE  Since(d) = <<>>
<1> DEFINE I == {i \in 1..Len(d) : d[i].from = "device"}
<1>1. I = {}
  BY LenProperties DEF Seen
<1>2. SelectInSeq(d, LAMBDA e : e.from = "device") = IF I # {} THEN Min(I) ELSE 0
  BY Zenon DEF SelectInSeq
<1>3. SelectInSeq(d, LAMBDA e : e.from = "device") = 0
  <2> HIDE DEF I
  <2>1. QED
    BY <1>1, <1>2, Zenon
<1>4. QED
  BY <1>3, Zenon DEF Since

LEMMA FirstSeen ==
  ASSUME NEW d \in Seq(Entry), Seen(d)
  PROVE  \E k \in 1..Len(d) : d[k].from = "device" /\ \A i \in 1..(k - 1) : d[i].from # "device"
<1> DEFINE I == {i \in 1..Len(d) : d[i].from = "device"}
<1>1. I \in SUBSET Nat /\ I # {}
  BY LenProperties DEF Seen
<1>2. PICK k \in I : \A i \in I : k <= i
  <2> HIDE DEF I
  <2>1. QED
    BY <1>1, Least
<1>3. \A i \in 1..(k - 1) : d[i].from # "device"
  <2> SUFFICES ASSUME NEW i \in 1..(k - 1), d[i].from = "device" PROVE FALSE
    OBVIOUS
  <2>1. i \in I
    OBVIOUS
  <2>2. QED
    BY <1>2, <2>1
<1>4. QED
  BY <1>2, <1>3

\* A suffix goes on with what is appended.
LEMMA SuffixConcat ==
  ASSUME NEW A, NEW s \in Seq(A), NEW t \in Seq(A), NEW k \in Nat,
         1 <= k, k <= Len(s) + 1
  PROVE  SubSeq(s \o t, k, Len(s \o t)) = SubSeq(s, k, Len(s)) \o t
<1> DEFINE c == s \o t
           l == SubSeq(s, k, Len(s))
           r == SubSeq(c, k, Len(c))
<1>1. /\ c \in Seq(A) /\ Len(c) = Len(s) + Len(t)
      /\ Len(s) \in Nat /\ Len(t) \in Nat
      /\ \A i \in 1..Len(s) : c[i] = s[i]
      /\ \A i \in 1..Len(t) : c[Len(s) + i] = t[i]
  BY ConcatAt
<1> HIDE DEF c
<1>2. /\ l \in Seq(A) /\ Len(l) = Len(s) - k + 1
      /\ \A i \in 1..(Len(s) - k + 1) : l[i] = s[k + i - 1]
  <2>1. \A i \in k..Len(s) : s[i] \in A
    BY <1>1, ElementOfSeq
  <2>2. QED
    BY <1>1, <2>1, SubSeqProperties
<1>3. /\ r \in Seq(A) /\ Len(r) = Len(c) - k + 1
      /\ \A i \in 1..(Len(c) - k + 1) : r[i] = c[k + i - 1]
  <2>1. \A i \in k..Len(c) : c[i] \in A
    BY <1>1, ElementOfSeq
  <2>2. Len(c) \in Nat /\ k <= Len(c) + 1
    BY <1>1
  <2>3. QED
    BY <2>1, <2>2, SubSeqProperties
<1> HIDE DEF l, r
<1>4. /\ l \o t \in Seq(A) /\ Len(l \o t) = Len(l) + Len(t)
      /\ \A i \in 1..Len(l) : (l \o t)[i] = l[i]
      /\ \A i \in 1..Len(t) : (l \o t)[Len(l) + i] = t[i]
  <2>1. l \in Seq(A)
    BY <1>2
  <2>2. QED
    BY <2>1, ConcatAt
<1>5. ASSUME NEW i \in 1..(Len(l) + Len(t)) PROVE r[i] = (l \o t)[i]
  <2>1. CASE i \in 1..Len(l)
    <3>1. k + i - 1 \in 1..Len(s) /\ i \in 1..(Len(c) - k + 1) /\ i \in 1..(Len(s) - k + 1)
      BY <1>1, <1>2, <2>1
    <3>2. QED
      BY <1>1, <1>2, <1>3, <1>4, <2>1, <3>1
  <2>2. CASE i - Len(l) \in 1..Len(t)
    <3> DEFINE j == i - Len(l)
    <3>1. /\ j \in 1..Len(t) /\ i = Len(l) + j /\ k + i - 1 = Len(s) + j
          /\ i \in 1..(Len(c) - k + 1)
      BY <1>1, <1>2, <2>2
    <3> HIDE DEF j
    <3>2. r[i] = c[Len(s) + j] /\ (l \o t)[i] = t[j]
      BY <1>3, <1>4, <3>1
    <3>3. QED
      BY <1>1, <3>1, <3>2
  <2>3. Len(l) \in Nat
    BY <1>2, LenProperties
  <2>4. QED
    BY <1>1, <2>1, <2>2, <2>3
<1>6. r = l \o t
  <2> DEFINE w == l \o t
  <2>1. /\ w \in Seq(A) /\ r \in Seq(A) /\ Len(w) = Len(r)
        /\ \A i \in 1..Len(w) : r[i] = w[i]
    <3>1. Len(l) + Len(t) = Len(r)
      BY <1>1, <1>2, <1>3
    <3>2. QED
      BY <1>3, <1>4, <1>5, <3>1
  <2> HIDE DEF w
  <2>2. r = w
    BY <2>1, SeqEqual
  <2>3. QED
    BY <2>2 DEF w
<1>7. QED
  BY <1>6 DEF c, l, r

\* Once the device was seen, what follows is in its file.
LEMMA SinceConcat ==
  ASSUME NEW d \in Seq(Entry), NEW es \in Seq(Entry), Seen(d)
  PROVE  Since(d \o es) = Since(d) \o es
<1>1. PICK k \in 1..Len(d) :
        d[k].from = "device" /\ \A i \in 1..(k - 1) : d[i].from # "device"
  BY FirstSeen
<1> DEFINE c == d \o es
<1>2. /\ c \in Seq(Entry) /\ Len(c) = Len(d) + Len(es)
      /\ Len(d) \in Nat /\ Len(es) \in Nat
      /\ \A i \in 1..Len(d) : c[i] = d[i]
  BY ConcatAt
<1> HIDE DEF c
<1>3. k \in 1..Len(c) /\ c[k].from = "device" /\ \A i \in 1..(k - 1) : c[i].from # "device"
  <2>1. k \in 1..Len(c) /\ \A i \in 1..(k - 1) : i \in 1..Len(d)
    BY <1>2
  <2>2. c[k] = d[k] /\ \A i \in 1..(k - 1) : c[i] = d[i]
    BY <1>2, <2>1
  <2>3. QED
    BY <1>1, <2>1, <2>2
<1>4. Since(c) = SubSeq(c, k, Len(c)) /\ Since(d) = SubSeq(d, k, Len(d))
  BY <1>1, <1>2, <1>3, SinceAt
<1>5. SubSeq(c, k, Len(c)) = SubSeq(d, k, Len(d)) \o es
  <2>1. k \in Nat /\ 1 <= k /\ k <= Len(d) + 1
    BY <1>2
  <2>2. QED
    BY <2>1, SuffixConcat DEF c
<1>6. QED
  BY <1>4, <1>5 DEF c

\* The report that identifies the device is the first in its file.
LEMMA SinceFirst ==
  ASSUME NEW d \in Seq(Entry), NEW es \in Seq(Entry), ~Seen(d),
         Len(es) = 1, es[1].from = "device"
  PROVE  Since(d \o es) = es
<1> DEFINE c == d \o es
<1>1. /\ c \in Seq(Entry) /\ Len(c) = Len(d) + Len(es)
      /\ Len(d) \in Nat
      /\ \A i \in 1..Len(d) : c[i] = d[i]
      /\ \A i \in 1..Len(es) : c[Len(d) + i] = es[i]
  <2>1. \A u \in Seq(Entry) :
          /\ d \o u \in Seq(Entry) /\ Len(d \o u) = Len(d) + Len(u)
          /\ Len(d) \in Nat
          /\ \A i \in 1..Len(d) : (d \o u)[i] = d[i]
          /\ \A i \in 1..Len(u) : (d \o u)[Len(d) + i] = u[i]
    BY ConcatAt
  <2>2. QED
    BY <2>1, Zenon
<1> HIDE DEF c
<1> DEFINE k == Len(d) + 1
<1>2. \A i \in 1..Len(d) : d[i].from # "device"
  BY LenProperties DEF Seen
<1>3. k \in 1..Len(c) /\ c[k].from = "device" /\ \A i \in 1..(k - 1) : c[i].from # "device"
  BY <1>1, <1>2
<1>4. Since(c) = SubSeq(c, k, Len(c))
  <2> HIDE DEF k
  <2>1. QED
    BY <1>1, <1>3, SinceAt
<1>5. SubSeq(c, k, Len(c)) = SubSeq(d, k, Len(d)) \o es
  <2>1. k \in Nat /\ 1 <= k /\ k <= Len(d) + 1
    BY <1>1
  <2> HIDE DEF k
  <2>2. QED
    BY <2>1, SuffixConcat DEF c
<1>6. SubSeq(d, k, Len(d)) = <<>>
  BY <1>1, SubSeqEmpty
<1>7. <<>> \o es = es
  BY ConcatEmptySeq
<1>8. QED
  BY <1>4, <1>5, <1>6, <1>7 DEF c

LEMMA SeenConcat ==
  ASSUME NEW d \in Seq(Entry), NEW es \in Seq(Entry)
  PROVE  Seen(d \o es) <=> Seen(d) \/ Seen(es)
<1> DEFINE c == d \o es
<1>1. /\ c \in Seq(Entry) /\ Len(c) = Len(d) + Len(es)
      /\ Len(d) \in Nat /\ Len(es) \in Nat
      /\ DOMAIN c = 1..Len(c) /\ DOMAIN d = 1..Len(d) /\ DOMAIN es = 1..Len(es)
      /\ \A i \in 1..Len(d) : c[i] = d[i]
      /\ \A i \in 1..Len(es) : c[Len(d) + i] = es[i]
  BY ConcatAt, LenProperties
<1> HIDE DEF c
<1>2. ASSUME Seen(c) PROVE Seen(d) \/ Seen(es)
  <2> PICK i \in 1..Len(c) : c[i].from = "device"
    BY <1>1, <1>2 DEF Seen
  <2>1. i \in 1..Len(d) \/ (i - Len(d) \in 1..Len(es) /\ Len(d) + (i - Len(d)) = i)
    BY <1>1
  <2>2. QED
    <3>1. CASE i \in 1..Len(d)
      <4>1. d[i].from = "device"
        BY <1>1, <3>1
      <4>2. QED
        BY <1>1, <3>1, <4>1 DEF Seen
    <3>2. CASE i - Len(d) \in 1..Len(es) /\ Len(d) + (i - Len(d)) = i
      <4> DEFINE k == i - Len(d)
      <4>1. k \in 1..Len(es) /\ c[i] = es[k]
        BY <1>1, <3>2
      <4> HIDE DEF k
      <4>2. es[k].from = "device"
        BY <4>1
      <4>3. QED
        BY <1>1, <4>1, <4>2 DEF Seen
    <3>3. QED
      BY <2>1, <3>1, <3>2
<1>3. ASSUME Seen(d) PROVE Seen(c)
  <2> PICK i \in 1..Len(d) : d[i].from = "device"
    BY <1>1, <1>3 DEF Seen
  <2>1. i \in 1..Len(c)
    BY <1>1
  <2>2. QED
    BY <1>1, <2>1 DEF Seen
<1>4. ASSUME Seen(es) PROVE Seen(c)
  <2> PICK i \in 1..Len(es) : es[i].from = "device"
    BY <1>1, <1>4 DEF Seen
  <2>1. Len(d) + i \in 1..Len(c)
    BY <1>1
  <2>2. QED
    BY <1>1, <2>1 DEF Seen
<1>5. QED
  BY <1>2, <1>3, <1>4 DEF c

LEMMA OnlyIn ==
  ASSUME NEW A, NEW s \in Seq(A), NEW K
  PROVE  Only(s, K) \in Seq(A)
<1>1. Only(s, K) \in Seq(A \cap K)
  BY OnlyType
<1> DEFINE x == Only(s, K)
<1> HIDE DEF x
<1>2. x \in Seq(A)
  BY <1>1 DEF x
<1>3. QED
  BY <1>2 DEF x

(***************************************************************************)
(* The types of the variables                                              *)
(***************************************************************************)

LEMMA TypeParts ==
  TypeOK <=>
    /\ sent \in Seq(Message) /\ noises \in 0..MostNoise
    /\ wire \in Seq(Byte) /\ chunk \in Seq(Byte) /\ heard \in Seq(Byte)
    /\ buffer \in Seq(Byte) /\ delivered \in Seq(Byte)
    /\ frames \in Seq(RawFrame)
    /\ dump \in Seq(Entry) /\ file \in Seq(Entry) /\ unhandled \in Seq(Entry)
    /\ known \in BOOLEAN /\ spliced \in BOOLEAN
BY Zenon DEF TypeOK

\* The bytes that are read and those that are not.
LEMMA CutType ==
  ASSUME NEW w \in Seq(Byte), NEW n \in 1..Len(w)
  PROVE  /\ SubSeq(w, 1, n) \in Seq(Byte)
         /\ SubSeq(w, n + 1, Len(w)) \in Seq(Byte)
         /\ SubSeq(w, 1, n) \o SubSeq(w, n + 1, Len(w)) = w
         /\ SubSeq(w, 1, n) # <<>>
<1>1. Len(w) \in Nat /\ \A i \in 1..Len(w) : w[i] \in Byte
  BY LenProperties, ElementOfSeq
<1>2. SubSeq(w, 1, n) \in Seq(Byte) /\ Len(SubSeq(w, 1, n)) = n
  <2>1. 1 \in Int /\ n \in Int /\ 1 <= n /\ n - 1 + 1 = n /\ \A i \in 1..n : w[i] \in Byte
    BY <1>1
  <2>2. QED
    BY <2>1, SubSeqProperties
<1>3. SubSeq(w, n + 1, Len(w)) \in Seq(Byte)
  <2>1. n + 1 \in Int /\ Len(w) \in Int /\ \A i \in (n + 1)..Len(w) : w[i] \in Byte
    BY <1>1
  <2>2. QED
    BY <2>1, SubSeqProperties
<1>4. SubSeq(w, 1, n) \o SubSeq(w, n + 1, Len(w)) = w
  <2>1. 1 \in 1..(Len(w) + 1) /\ n \in (1 - 1)..Len(w) /\ Len(w) \in n..Len(w)
    BY <1>1
  <2>2. SubSeq(w, 1, n) \o SubSeq(w, n + 1, Len(w)) = SubSeq(w, 1, Len(w))
    BY <2>1, ConcatAdjacentSubSeq
  <2>3. QED
    BY <2>2, SubSeqFull
<1>5. n # 0
  OBVIOUS
<1>6. QED
  BY <1>2, <1>3, <1>4, <1>5, EmptySeq

LEMMA CaptureType ==
  ASSUME TypeOK, NEW es \in Seq(Entry), Capture(es)
  PROVE  dump' \in Seq(Entry) /\ file' \in Seq(Entry) /\ unhandled' \in Seq(Entry)
<1>1. dump \in Seq(Entry) /\ file \in Seq(Entry) /\ unhandled \in Seq(Entry)
  BY TypeParts
<1>2. Unhandled(es) \in Seq(Entry)
  BY OnlyIn DEF Unhandled
<1>3. dump \o es \in Seq(Entry) /\ file \o es \in Seq(Entry)
  BY <1>1, ConcatProperties
<1>4. unhandled \o Unhandled(es) \in Seq(Entry)
  BY <1>1, <1>2, ConcatProperties
<1>5. QED
  BY <1>1, <1>3, <1>4 DEF Capture, CaptureDevice, captureVars

\* What the pump makes of a chunk.
LEMMA ObserveChunkParts ==
  ASSUME TypeOK, ObserveChunk
  PROVE  LET drained == IterFrames(buffer \o chunk)
         IN  /\ buffer \o chunk \in Seq(Byte)
             /\ drained.frames \in Seq(RawFrame) /\ drained.left \in Seq(Byte)
             /\ Captured("cloud", drained.frames) \in Seq(Entry)
             /\ Capture(Captured("cloud", drained.frames))
             /\ chunk' = <<>> /\ heard' = heard \o chunk /\ heard' \in Seq(Byte)
             /\ buffer' = drained.left
             /\ frames' = frames \o drained.frames
             /\ sent' = sent /\ noises' = noises /\ wire' = wire
             /\ delivered' = delivered /\ known' = known /\ spliced' = spliced
<1>1. buffer \in Seq(Byte) /\ chunk \in Seq(Byte) /\ heard \in Seq(Byte)
  BY TypeParts
<1>2. buffer \o chunk \in Seq(Byte) /\ heard \o chunk \in Seq(Byte)
  BY <1>1, ConcatProperties
<1> DEFINE b == buffer \o chunk
<1>3. IterFrames(b).frames \in Seq(RawFrame) /\ IterFrames(b).left \in Seq(Byte)
  BY <1>2, IterType
<1>4. Captured("cloud", IterFrames(b).frames) \in Seq(Entry)
  <2> DEFINE x == IterFrames(b).frames
  <2>1. x \in Seq(RawFrame)
    BY <1>3
  <2> HIDE DEF x
  <2>2. Captured("cloud", x) \in Seq(Entry)
    BY <2>1, CapturedType
  <2>3. QED
    BY <2>2 DEF x
<1>5. QED
  BY <1>2, <1>3, <1>4, Zenon DEF ObserveChunk, cloudVars

LEMMA ReportParts ==
  ASSUME NEW f \in Report, ObserveReport(f)
  PROVE  /\ f \in RawFrame /\ <<f>> \in Seq(RawFrame) /\ Len(<<f>>) = 1
         /\ Captured("device", <<f>>) \in Seq(Entry)
         /\ Capture(Captured("device", <<f>>))
         /\ known' = TRUE
         /\ UNCHANGED <<cloudVars, pumpVars, delivered, spliced>>
<1>1. f \in RawFrame /\ <<f>> \in Seq(RawFrame) /\ Len(<<f>>) = 1
  BY FrameAssumption
<1>2. Captured("device", <<f>>) \in Seq(Entry)
  <2> DEFINE x == <<f>>
  <2>1. x \in Seq(RawFrame)
    BY <1>1
  <2> HIDE DEF x
  <2>2. Captured("device", x) \in Seq(Entry)
    BY <2>1, CapturedType
  <2>3. QED
    BY <2>2 DEF x
<1>3. QED
  BY <1>1, <1>2 DEF ObserveReport

LEMMA InjectParts ==
  ASSUME TypeOK, NEW f \in Command, Inject(f)
  PROVE  /\ f \in Sendable /\ f \in RawFrame /\ <<f>> \in Seq(RawFrame)
         /\ Encode(f) \in Seq(Byte)
         /\ Captured("dashboard", <<f>>) \in Seq(Entry)
         /\ delivered' = delivered \o Encode(f) /\ delivered' \in Seq(Byte)
         /\ dump' = dump \o Captured("dashboard", <<f>>) /\ dump' \in Seq(Entry)
         /\ file' = file \o Captured("dashboard", <<f>>) /\ file' \in Seq(Entry)
         /\ spliced' = (spliced \/ InsideFrame)
         /\ known = TRUE
         /\ UNCHANGED <<cloudVars, pumpVars, unhandled, known>>
<1>1. f \in Sendable /\ f \in RawFrame /\ <<f>> \in Seq(RawFrame)
  BY FrameAssumption DEF Sendable
<1>2. Captured("dashboard", <<f>>) \in Seq(Entry)
  <2> DEFINE x == <<f>>
  <2>1. x \in Seq(RawFrame)
    BY <1>1
  <2> HIDE DEF x
  <2>2. Captured("dashboard", x) \in Seq(Entry)
    BY <2>1, CapturedType
  <2>3. QED
    BY <2>2 DEF x
<1>3. Encode(f) \in Seq(Byte)
  BY <1>1, EncodeLayout
<1>4. delivered \in Seq(Byte) /\ dump \in Seq(Entry) /\ file \in Seq(Entry) /\ known \in BOOLEAN
  BY TypeParts
<1>5. delivered \o Encode(f) \in Seq(Byte)
  BY <1>3, <1>4, ConcatProperties
<1>6. dump \o Captured("dashboard", <<f>>) \in Seq(Entry)
  BY <1>2, <1>4, ConcatProperties
<1>7. file \o Captured("dashboard", <<f>>) \in Seq(Entry)
  BY <1>2, <1>4, ConcatProperties
<1>8. QED
  BY <1>1, <1>2, <1>3, <1>4, <1>5, <1>6, <1>7 DEF Inject

LEMMA TypeInit == Init => TypeOK
<1> SUFFICES ASSUME Init PROVE TypeOK
  OBVIOUS
<1>1. <<>> \in Seq(Message) /\ <<>> \in Seq(Byte) /\ <<>> \in Seq(RawFrame) /\ <<>> \in Seq(Entry)
  BY EmptySeq
<1>2. 0 \in 0..MostNoise
  BY FrameAssumption
<1>3. QED
  BY <1>1, <1>2, TypeParts DEF Init

LEMMA TypeStep == TypeOK /\ [Next]_vars => TypeOK'
<1> SUFFICES ASSUME TypeOK, [Next]_vars PROVE TypeOK'
  OBVIOUS
<1> DEFINE Typed ==
      /\ sent' \in Seq(Message) /\ noises' \in 0..MostNoise
      /\ wire' \in Seq(Byte) /\ chunk' \in Seq(Byte) /\ heard' \in Seq(Byte)
      /\ buffer' \in Seq(Byte) /\ delivered' \in Seq(Byte)
      /\ frames' \in Seq(RawFrame)
      /\ dump' \in Seq(Entry) /\ file' \in Seq(Entry) /\ unhandled' \in Seq(Entry)
      /\ known' \in BOOLEAN /\ spliced' \in BOOLEAN
<1> SUFFICES Typed
  BY Zenon DEF TypeOK
<1>0. /\ sent \in Seq(Message) /\ noises \in 0..MostNoise
      /\ wire \in Seq(Byte) /\ chunk \in Seq(Byte) /\ heard \in Seq(Byte)
      /\ buffer \in Seq(Byte) /\ delivered \in Seq(Byte)
      /\ frames \in Seq(RawFrame)
      /\ dump \in Seq(Entry) /\ file \in Seq(Entry) /\ unhandled \in Seq(Entry)
      /\ known \in BOOLEAN /\ spliced \in BOOLEAN
  BY TypeParts
<1>1. ASSUME NEW f \in Message, CloudSends(f) PROVE Typed
  <2>1. Append(sent, f) \in Seq(Message)
    BY <1>0, AppendProperties
  <2>2. Encode(f) \in Seq(Byte)
    BY EncodeLayout, FrameAssumption
  <2>3. wire \o Encode(f) \in Seq(Byte)
    BY <1>0, <2>2, ConcatProperties
  <2>4. QED
    BY <1>0, <1>1, <2>1, <2>3, Zenon DEF CloudSends, pumpVars, captureVars
<1>2. ASSUME NEW bytes \in Noise, CloudStrays(bytes) PROVE Typed
  <2>1. bytes \in Seq(Byte)
    BY FrameAssumption
  <2>2. wire \o bytes \in Seq(Byte)
    BY <1>0, <2>1, ConcatProperties
  <2>3. noises < MostNoise /\ noises' = noises + 1
    BY <1>2 DEF CloudStrays
  <2>4. noises' \in 0..MostNoise
    <3>1. noises \in 0..MostNoise /\ MostNoise \in Nat
      BY <1>0, FrameAssumption
    <3>2. QED
      BY <2>3, <3>1
  <2>5. QED
    BY <1>0, <1>2, <2>2, <2>4, Zenon DEF CloudStrays, pumpVars, captureVars
<1>3. ASSUME NEW n \in 1..Len(wire), Forward(n) PROVE Typed
  <2>1. SubSeq(wire, 1, n) \in Seq(Byte) /\ SubSeq(wire, n + 1, Len(wire)) \in Seq(Byte)
    BY <1>0, CutType
  <2>2. chunk' \in Seq(Byte) /\ wire' \in Seq(Byte)
    BY <1>3, <2>1 DEF Forward
  <2>3. delivered \o chunk' \in Seq(Byte)
    BY <1>0, <2>2, ConcatProperties
  <2>4. QED
    BY <1>0, <1>3, <2>2, <2>3, Zenon DEF Forward, captureVars
<1>4. ASSUME ObserveChunk PROVE Typed
  <2> DEFINE x == IterFrames(buffer \o chunk)
  <2>1. /\ x.frames \in Seq(RawFrame) /\ x.left \in Seq(Byte)
        /\ Captured("cloud", x.frames) \in Seq(Entry)
        /\ Capture(Captured("cloud", x.frames))
        /\ chunk' = <<>> /\ heard' \in Seq(Byte) /\ buffer' = x.left
        /\ frames' = frames \o x.frames
        /\ UNCHANGED <<sent, noises, wire, delivered, known, spliced>>
    BY <1>4, ObserveChunkParts
  <2> HIDE DEF x
  <2>2. dump' \in Seq(Entry) /\ file' \in Seq(Entry) /\ unhandled' \in Seq(Entry)
    BY <2>1, CaptureType
  <2>3. frames \o x.frames \in Seq(RawFrame)
    BY <1>0, <2>1, ConcatProperties
  <2>4. <<>> \in Seq(Byte)
    BY EmptySeq
  <2>5. QED
    BY <1>0, <2>1, <2>2, <2>3, <2>4, Zenon
<1>5. ASSUME NEW f \in Report, ObserveReport(f) PROVE Typed
  <2>1. /\ Captured("device", <<f>>) \in Seq(Entry)
        /\ Capture(Captured("device", <<f>>))
        /\ known' = TRUE
        /\ UNCHANGED <<cloudVars, pumpVars, delivered, spliced>>
    BY <1>5, ReportParts
  <2>2. dump' \in Seq(Entry) /\ file' \in Seq(Entry) /\ unhandled' \in Seq(Entry)
    BY <2>1, CaptureType
  <2>3. QED
    BY <1>0, <2>1, <2>2, Zenon DEF cloudVars, pumpVars
<1>6. ASSUME NEW f \in Command, Inject(f) PROVE Typed
  <2>1. /\ delivered' \in Seq(Byte) /\ dump' \in Seq(Entry) /\ file' \in Seq(Entry)
        /\ spliced' = (spliced \/ InsideFrame)
        /\ UNCHANGED <<cloudVars, pumpVars, unhandled, known>>
    BY <1>6, InjectParts
  <2>2. spliced' \in BOOLEAN
    BY <2>1, Zenon
  <2>3. QED
    BY <1>0, <2>1, <2>2, Zenon DEF cloudVars, pumpVars
<1>7. CASE UNCHANGED vars
  BY <1>0, <1>7, Zenon DEF vars, cloudVars, pumpVars, captureVars
<1>8. QED
  BY <1>1, <1>2, <1>3, <1>4, <1>5, <1>6, <1>7, Zenon DEF Next

(***************************************************************************)
(* The parser and the captures, whatever the cloud sends                   *)
(***************************************************************************)

\* The inductive invariant of the captures: it needs no assumption on what is sent
\* between two frames.
CInv ==
  /\ TypeOK
  /\ ChunkingInvisible
  /\ KnownOnceSeen
  /\ CapturesAgree

LEMMA ChunkingParts ==
  ASSUME TypeOK
  PROVE  ChunkingInvisible <=> frames = IterFrames(heard).frames /\ buffer = IterFrames(heard).left
<1>1. IterFrames(heard) \in Parsed
  BY TypeParts, IterType
<1> DEFINE x == IterFrames(heard)
<1> HIDE DEF x
<1>2. x \in Parsed
  BY <1>1 DEF x
<1>3. [frames |-> frames, left |-> buffer] = x <=> frames = x.frames /\ buffer = x.left
  BY <1>2 DEF Parsed
<1>4. QED
  BY <1>3 DEF x, ChunkingInvisible

LEMMA ChunkingKept ==
  ASSUME TypeOK, TypeOK', ChunkingInvisible, ObserveChunk
  PROVE  /\ ChunkingInvisible'
         /\ IterFrames(heard').frames
              = IterFrames(heard).frames \o IterFrames(buffer \o chunk).frames
<1>1. /\ heard' = heard \o chunk
      /\ buffer' = IterFrames(buffer \o chunk).left
      /\ frames' = frames \o IterFrames(buffer \o chunk).frames
  BY ObserveChunkParts
<1>2. frames = IterFrames(heard).frames /\ buffer = IterFrames(heard).left
  BY ChunkingParts
<1>3. /\ IterFrames(heard \o chunk).frames
           = IterFrames(heard).frames \o IterFrames(IterFrames(heard).left \o chunk).frames
      /\ IterFrames(heard \o chunk).left = IterFrames(IterFrames(heard).left \o chunk).left
  <2>1. heard \in Seq(Byte) /\ chunk \in Seq(Byte)
    BY TypeParts
  <2>2. QED
    BY <2>1, ParserIsIncremental
<1>4. frames' = IterFrames(heard').frames /\ buffer' = IterFrames(heard').left
  BY <1>1, <1>2, <1>3, Zenon
<1>5. heard' \in Seq(Byte)
  <2>1. heard \in Seq(Byte) /\ chunk \in Seq(Byte)
    BY TypeParts
  <2>2. QED
    BY <1>1, <2>1, ConcatProperties
<1>6. IterFrames(heard') \in Parsed
  <2> DEFINE h == heard'
  <2>1. h \in Seq(Byte)
    BY <1>5
  <2> HIDE DEF h
  <2>2. IterFrames(h) \in Parsed
    BY <2>1, IterType
  <2>3. QED
    BY <2>2 DEF h
<1> DEFINE x == IterFrames(heard')
<1>7. x \in Parsed /\ frames' = x.frames /\ buffer' = x.left
  BY <1>4, <1>6
<1> HIDE DEF x
<1>8. [frames |-> frames', left |-> buffer'] = x
  BY <1>7 DEF Parsed
<1>9. ChunkingInvisible'
  BY <1>8 DEF x, ChunkingInvisible
<1>10. QED
  BY <1>1, <1>2, <1>3, <1>9, Zenon

LEMMA CaptureParts ==
  /\ CapturesAgree <=>
       /\ CapturedFrom("cloud") = Captured("cloud", IterFrames(heard).frames)
       /\ file = Since(dump)
       /\ unhandled = Only(file, Focused)
  /\ KnownOnceSeen <=> (known <=> Seen(dump))
BY Zenon DEF CapturesAgree, KnownOnceSeen, Seen

\* The same of the next state.
LEMMA CapturePartsNext ==
  CapturesAgree' <=>
    /\ CapturedFrom("cloud")' = Captured("cloud", IterFrames(heard').frames)
    /\ file' = Since(dump')
    /\ unhandled' = Only(file', Focused)
<1> DEFINE Parts ==
      /\ CapturedFrom("cloud") = Captured("cloud", IterFrames(heard).frames)
      /\ file = Since(dump)
      /\ unhandled = Only(file, Focused)
<1>1. CapturesAgree <=> Parts
  BY CaptureParts, Zenon
<1> HIDE DEF Parts
<1>2. CapturesAgree' <=> Parts'
  BY <1>1, PTL
<1>3. QED
  BY <1>2, Zenon DEF Parts

LEMMA UnhandledIsFocused ==
  ASSUME NEW who \in {"cloud", "device"}, NEW fs \in Seq(RawFrame)
  PROVE  Unhandled(Captured(who, fs)) = Only(Captured(who, fs), Focused)
<1> DEFINE A == {e \in Entry : e.from = who}
           K == {e \in Entry : IsUnhandled(e.frame)}
           x == Captured(who, fs)
<1>1. x \in Seq(A)
  BY CapturedType
<1>2. \A e \in A : e \in K <=> e \in Focused
  BY DEF Focused
<1> HIDE DEF A, K, x
<1>3. Only(x, K) = Only(x, Focused)
  BY <1>1, <1>2, OnlyAgrees
<1>4. QED
  BY <1>3 DEF x, K, Unhandled

LEMMA CommandNotFocused ==
  ASSUME NEW fs \in Seq(RawFrame)
  PROVE  Only(Captured("dashboard", fs), Focused) = <<>>
<1> DEFINE A == {e \in Entry : e.from = "dashboard"}
           x == Captured("dashboard", fs)
<1>1. x \in Seq(A)
  BY CapturedType
<1>2. A \cap Focused = {}
  BY DEF Focused
<1> HIDE DEF A, x
<1>3. Only(x, Focused) = <<>>
  BY <1>1, <1>2, OnlyNone
<1>4. QED
  BY <1>3 DEF x

\* Only a device makes a device seen.
LEMMA SeenCaptured ==
  ASSUME NEW who \in {"cloud", "device", "dashboard"}, NEW fs \in Seq(RawFrame)
  PROVE  Seen(Captured(who, fs)) <=> who = "device" /\ Len(fs) > 0
<1> DEFINE x == Captured(who, fs)
<1>1. /\ x \in Seq(Entry) /\ Len(x) = Len(fs) /\ Len(fs) \in Nat
      /\ \A i \in 1..Len(fs) : x[i].from = who
  <2>1. x \in Seq(Entry) /\ Len(x) = Len(fs)
    BY CapturedType
  <2> HIDE DEF x
  <2>2. \A i \in 1..Len(fs) : x[i].from = who
    <3> SUFFICES ASSUME NEW i \in 1..Len(fs) PROVE x[i].from = who
      OBVIOUS
    <3>1. x \in Seq({e \in Entry : e.from = who})
      BY CapturedType DEF x
    <3>2. x[i] \in {e \in Entry : e.from = who}
      BY <2>1, <3>1, ElementOfSeq
    <3>3. QED
      BY <3>2
  <2>3. Len(fs) \in Nat
    BY LenProperties
  <2>4. QED
    BY <2>1, <2>2, <2>3
<1> HIDE DEF x
<1>2. DOMAIN x = 1..Len(fs)
  BY <1>1, LenProperties
<1>3. Seen(x) <=> \E i \in 1..Len(fs) : who = "device"
  BY <1>1, <1>2 DEF Seen
<1>4. (\E i \in 1..Len(fs) : who = "device") <=> who = "device" /\ Len(fs) > 0
  <2>1. Len(fs) > 0 <=> 1 \in 1..Len(fs)
    BY <1>1
  <2>2. (\E i \in 1..Len(fs) : TRUE) <=> Len(fs) > 0
    BY <1>1
  <2>3. QED
    BY <2>2, Zenon
<1>5. QED
  BY <1>3, <1>4 DEF x

\* Capture keeps the files in step with the dump.
LEMMA CaptureKeeps ==
  ASSUME TypeOK, KnownOnceSeen, CapturesAgree,
         NEW es \in Seq(Entry), Capture(es), known' \in BOOLEAN,
         Unhandled(es) = Only(es, Focused),
         known => known',
         known' => known \/ (Len(es) = 1 /\ es[1].from = "device"),
         ~known' => ~Seen(es)
  PROVE  /\ dump' = dump \o es
         /\ file' = Since(dump') /\ unhandled' = Only(file', Focused)
         /\ known' <=> Seen(dump')
<1>1. /\ dump \in Seq(Entry) /\ file \in Seq(Entry) /\ unhandled \in Seq(Entry)
      /\ known \in BOOLEAN
  BY TypeParts
<1>2. /\ file = Since(dump) /\ unhandled = Only(file, Focused)
      /\ known <=> Seen(dump)
  BY CaptureParts
<1>3. dump' = dump \o es
  BY DEF Capture
<1>4. Seen(dump') <=> Seen(dump) \/ Seen(es)
  BY <1>1, <1>3, SeenConcat
<1>5. CASE known'
  <2>1. file' = file \o es /\ unhandled' = unhandled \o Unhandled(es)
    BY <1>5 DEF Capture, CaptureDevice
  <2>2. unhandled' = Only(file', Focused)
    <3>1. Only(file \o es, Focused) = Only(file, Focused) \o Only(es, Focused)
      BY <1>1, OnlyConcat
    <3>2. QED
      BY <1>2, <2>1, <3>1
  <2>3. CASE known
    <3>1. Since(dump \o es) = Since(dump) \o es
      BY <1>1, <1>2, <2>3, SinceConcat
    <3>2. QED
      BY <1>2, <1>3, <1>4, <1>5, <2>1, <2>2, <2>3, <3>1
  <2>4. CASE ~known
    <3>1. Len(es) = 1 /\ es[1].from = "device" /\ ~Seen(dump)
      BY <1>2, <1>5, <2>4
    <3>2. Since(dump \o es) = es /\ Since(dump) = <<>>
      BY <1>1, <3>1, SinceFirst, SinceNone
    <3>3. <<>> \o es = es
      BY ConcatEmptySeq
    <3>4. Seen(es)
      <4>1. 1 \in DOMAIN es
        BY <3>1, LenProperties
      <4>2. QED
        BY <3>1, <4>1 DEF Seen
    <3>5. QED
      BY <1>2, <1>3, <1>4, <1>5, <2>1, <2>2, <3>2, <3>3, <3>4
  <2>5. QED
    BY <1>1, <2>3, <2>4
<1>6. CASE ~known'
  <2>1. ~known /\ ~Seen(dump) /\ ~Seen(dump')
    BY <1>2, <1>4, <1>6
  <2>2. file' = file /\ unhandled' = unhandled
    BY <1>6 DEF Capture
  <2>3. dump' \in Seq(Entry)
    BY <1>1, <1>3, ConcatProperties
  <2>4. Since(dump) = <<>> /\ Since(dump') = <<>>
    <3> DEFINE d == dump'
    <3>1. d \in Seq(Entry) /\ ~Seen(d)
      BY <2>1, <2>3
    <3> HIDE DEF d
    <3>2. Since(d) = <<>>
      BY <3>1, SinceNone
    <3>3. QED
      BY <1>1, <2>1, <3>2, SinceNone DEF d
  <2>5. QED
    BY <1>2, <1>3, <1>6, <2>1, <2>2, <2>4
<1>7. QED
  BY <1>5, <1>6

LEMMA CInvInit == Init => CInv
<1> SUFFICES ASSUME Init PROVE CInv
  OBVIOUS
<1>1. TypeOK
  BY TypeInit
<1>2. IterFrames(<<>>).frames = <<>> /\ IterFrames(<<>>).left = <<>>
  <2>1. <<>> \in Seq(Byte)
    BY EmptySeq
  <2>2. QED
    BY <2>1, QuietEmpty, QuietIncomplete
<1>3. ChunkingInvisible
  BY <1>1, <1>2, ChunkingParts DEF Init
<1>4. ~Seen(<<>>)
  BY DEF Seen
<1>5. Since(<<>>) = <<>>
  <2>1. <<>> \in Seq(Entry)
    BY EmptySeq
  <2>2. QED
    BY <1>4, <2>1, SinceNone
<1>6. CapturedFrom("cloud") = Captured("cloud", IterFrames(heard).frames)
  BY <1>2, OnlyEmpty, CapturedEmpty DEF Init, CapturedFrom
<1>7. file = Since(dump) /\ unhandled = Only(file, Focused) /\ (known <=> Seen(dump))
  BY <1>4, <1>5, OnlyEmpty DEF Init
<1>8. QED
  BY <1>1, <1>3, <1>6, <1>7, CaptureParts DEF CInv

LEMMA CInvStep == CInv /\ [Next]_vars => CInv'
<1> SUFFICES ASSUME CInv, [Next]_vars PROVE CInv'
  OBVIOUS
<1> DEFINE Goal ==
      /\ ChunkingInvisible'
      /\ Only(dump', {e \in Entry : e.from = "cloud"})
           = Captured("cloud", IterFrames(heard').frames)
      /\ file' = Since(dump') /\ unhandled' = Only(file', Focused)
      /\ known' <=> Seen(dump')
<1>0. /\ TypeOK /\ ChunkingInvisible /\ KnownOnceSeen /\ CapturesAgree
      /\ TypeOK'
  BY TypeStep DEF CInv
<1> SUFFICES Goal
  <2>1. KnownOnceSeen'
    BY DEF KnownOnceSeen, Seen
  <2>2. CapturedFrom("cloud")' = Captured("cloud", IterFrames(heard').frames)
    BY DEF CapturedFrom
  <2>3. CapturesAgree' <=>
          /\ CapturedFrom("cloud")' = Captured("cloud", IterFrames(heard').frames)
          /\ file' = Since(dump')
          /\ unhandled' = Only(file', Focused)
    BY CapturePartsNext, Zenon
  <2>4. QED
    BY <1>0, <2>1, <2>2, <2>3 DEF CInv
<1> DEFINE Cloud == {e \in Entry : e.from = "cloud"}
<1>t. /\ dump \in Seq(Entry) /\ file \in Seq(Entry) /\ unhandled \in Seq(Entry)
      /\ known \in BOOLEAN /\ known' \in BOOLEAN
  BY <1>0, TypeParts DEF TypeOK
<1>c. /\ Only(dump, Cloud) = Captured("cloud", IterFrames(heard).frames)
      /\ file = Since(dump) /\ unhandled = Only(file, Focused)
      /\ known <=> Seen(dump)
  BY <1>0, CaptureParts DEF CapturedFrom
<1>s. ASSUME UNCHANGED <<heard, buffer, frames, dump, file, unhandled, known>>
      PROVE  Goal
  BY <1>0, <1>c, <1>s, Zenon DEF ChunkingInvisible
<1>1. ASSUME NEW f \in Message, CloudSends(f) PROVE Goal
  BY <1>1, <1>s, Zenon DEF CloudSends, pumpVars, captureVars
<1>2. ASSUME NEW bytes \in Noise, CloudStrays(bytes) PROVE Goal
  BY <1>2, <1>s, Zenon DEF CloudStrays, pumpVars, captureVars
<1>3. ASSUME NEW n \in 1..Len(wire), Forward(n) PROVE Goal
  BY <1>3, <1>s, Zenon DEF Forward, captureVars
<1>4. ASSUME ObserveChunk PROVE Goal
  <2> DEFINE b == buffer \o chunk
             x == IterFrames(b).frames
             es == Captured("cloud", x)
  <2>1. b \in Seq(Byte) /\ x \in Seq(RawFrame) /\ es \in Seq(Entry) /\ Capture(es) /\ known' = known
    BY <1>0, <1>4, ObserveChunkParts
  <2>2. ChunkingInvisible' /\ IterFrames(heard').frames = IterFrames(heard).frames \o x
    BY <1>0, <1>4, ChunkingKept
  <2> HIDE DEF b
  <2> HIDE DEF x
  <2>3. /\ Unhandled(es) = Only(es, Focused) /\ ~Seen(es)
        /\ Only(es, Cloud) = es
    <3>1. Unhandled(es) = Only(es, Focused)
      BY <2>1, UnhandledIsFocused
    <3>2. Seen(es) <=> "cloud" = "device" /\ Len(x) > 0
      BY <2>1, SeenCaptured
    <3>3. Only(es, Cloud) = es
      <4>1. Only(es, From("cloud")) = es
        BY <2>1, CapturedIsFrom
      <4>2. QED
        BY <4>1, Zenon DEF From
    <3>4. QED
      BY <3>1, <3>2, <3>3
  <2>4. Captured("cloud", IterFrames(heard).frames \o x)
          = Captured("cloud", IterFrames(heard).frames) \o es
    <3> DEFINE y == IterFrames(heard).frames
    <3>1. y \in Seq(RawFrame)
      <4>1. heard \in Seq(Byte)
        BY <1>0, TypeParts
      <4>2. QED
        BY <4>1, IterType
    <3> HIDE DEF y
    <3>2. Captured("cloud", y \o x) = Captured("cloud", y) \o es
      BY <2>1, <3>1, CapturedConcat
    <3>3. QED
      BY <3>2 DEF y
  <2> HIDE DEF es, Cloud
  <2>5. /\ dump' = dump \o es
        /\ file' = Since(dump') /\ unhandled' = Only(file', Focused)
        /\ known' <=> Seen(dump')
    BY <1>0, <1>t, <2>1, <2>3, CaptureKeeps
  <2>6. Only(dump', Cloud) = Captured("cloud", IterFrames(heard').frames)
    <3>1. Only(dump \o es, Cloud) = Only(dump, Cloud) \o Only(es, Cloud)
      <4>1. dump \in Seq(Entry) /\ file \in Seq(Entry) /\ es \in Seq(Entry)
        BY <1>t, <2>1
      <4>2. QED
        BY <4>1, OnlyConcat
    <3>2. QED
      BY <1>c, <2>2, <2>3, <2>4, <2>5, <3>1
  <2>7. QED
    BY <2>2, <2>5, <2>6 DEF Cloud
<1>5. ASSUME NEW f \in Report, ObserveReport(f) PROVE Goal
  <2> DEFINE x == <<f>>
             es == Captured("device", x)
  <2>1. /\ x \in Seq(RawFrame) /\ Len(x) = 1 /\ es \in Seq(Entry)
        /\ Capture(es) /\ known' = TRUE
        /\ UNCHANGED <<cloudVars, pumpVars, delivered, spliced>>
    BY <1>5, ReportParts
  <2> HIDE DEF x
  <2>2. /\ Unhandled(es) = Only(es, Focused)
        /\ Len(es) = 1 /\ es[1].from = "device"
        /\ Only(es, Cloud) = <<>>
    <3>1. Unhandled(es) = Only(es, Focused)
      BY <2>1, UnhandledIsFocused
    <3>2. Len(es) = Len(x) /\ \A i \in 1..Len(x) : es[i] = [from |-> "device", frame |-> x[i]]
      BY <2>1, CapturedType
    <3>3. Only(es, Cloud) = <<>>
      <4>1. x \in Seq(RawFrame)
        BY <2>1
      <4>2. Only(es, From("cloud")) = <<>>
        BY <4>1, CapturedIsFrom
      <4>3. QED
        BY <4>2, Zenon DEF From
    <3> HIDE DEF es
    <3>4. es[1].from = "device"
      BY <2>1, <3>2
    <3>5. QED
      BY <2>1, <3>1, <3>2, <3>3, <3>4
  <2> HIDE DEF es, Cloud
  <2>3. /\ dump' = dump \o es
        /\ file' = Since(dump') /\ unhandled' = Only(file', Focused)
        /\ known' <=> Seen(dump')
    BY <1>0, <1>t, <2>1, <2>2, CaptureKeeps
  <2>4. Only(dump', Cloud) = Captured("cloud", IterFrames(heard').frames)
    <3>1. Only(dump \o es, Cloud) = Only(dump, Cloud) \o Only(es, Cloud)
      <4>1. dump \in Seq(Entry) /\ file \in Seq(Entry) /\ es \in Seq(Entry)
        BY <1>t, <2>1
      <4>2. QED
        BY <4>1, OnlyConcat
    <3>2. Only(dump, Cloud) \o <<>> = Only(dump, Cloud)
      <4>1. Only(dump, Cloud) \in Seq(Entry)
        BY <1>t, OnlyIn
      <4>2. QED
        BY <4>1, ConcatEmptySeq
    <3>3. heard' = heard
      BY <2>1 DEF pumpVars
    <3>4. QED
      BY <1>c, <2>2, <2>3, <3>1, <3>2, <3>3
  <2>5. ChunkingInvisible'
    BY <1>0, <2>1 DEF pumpVars, ChunkingInvisible
  <2>6. QED
    BY <2>3, <2>4, <2>5 DEF Cloud
<1>6. ASSUME NEW f \in Command, Inject(f) PROVE Goal
  <2> DEFINE x == <<f>>
             es == Captured("dashboard", x)
  <2>1. /\ x \in Seq(RawFrame) /\ es \in Seq(Entry)
        /\ dump' = dump \o es /\ file' = file \o es /\ known = TRUE
        /\ UNCHANGED <<cloudVars, pumpVars, unhandled, known>>
    BY <1>0, <1>6, InjectParts
  <2> HIDE DEF x
  <2>2. Only(es, Focused) = <<>> /\ Only(es, Cloud) = <<>>
    <3>1. Only(es, Focused) = <<>>
      BY <2>1, CommandNotFocused
    <3>2. Only(es, Cloud) = <<>>
      <4>1. x \in Seq(RawFrame)
        BY <2>1
      <4>2. Only(es, From("cloud")) = <<>>
        BY <4>1, CapturedIsFrom
      <4>3. QED
        BY <4>2, Zenon DEF From
    <3>3. QED
      BY <3>1, <3>2
  <2> HIDE DEF es, Cloud
  <2>3. Seen(dump) /\ Seen(dump \o es)
    <3>1. Seen(dump)
      BY <1>c, <2>1
    <3>2. QED
      BY <1>t, <2>1, <3>1, SeenConcat
  <2>4. Since(dump \o es) = Since(dump) \o es
    BY <1>t, <2>1, <2>3, SinceConcat
  <2>5. Only(file \o es, Focused) = Only(file, Focused)
    <3>1. Only(file \o es, Focused) = Only(file, Focused) \o Only(es, Focused)
      <4>1. dump \in Seq(Entry) /\ file \in Seq(Entry) /\ es \in Seq(Entry)
        BY <1>t, <2>1
      <4>2. QED
        BY <4>1, OnlyConcat
    <3>2. Only(file, Focused) \in Seq(Entry)
      BY <1>t, OnlyIn
    <3>3. QED
      BY <2>2, <3>1, <3>2, ConcatEmptySeq
  <2>6. Only(dump \o es, Cloud) = Only(dump, Cloud)
    <3>1. Only(dump \o es, Cloud) = Only(dump, Cloud) \o Only(es, Cloud)
      <4>1. dump \in Seq(Entry) /\ file \in Seq(Entry) /\ es \in Seq(Entry)
        BY <1>t, <2>1
      <4>2. QED
        BY <4>1, OnlyConcat
    <3>2. Only(dump, Cloud) \in Seq(Entry)
      BY <1>t, OnlyIn
    <3>3. QED
      BY <2>2, <3>1, <3>2, ConcatEmptySeq
  <2>7. ChunkingInvisible' /\ heard' = heard /\ unhandled' = unhandled /\ known' = known
    BY <1>0, <2>1 DEF pumpVars, ChunkingInvisible
  <2>8. QED
    BY <1>c, <2>1, <2>3, <2>4, <2>5, <2>6, <2>7, Zenon DEF Cloud
<1>7. CASE UNCHANGED vars
  BY <1>7, <1>s, Zenon DEF vars, pumpVars, captureVars
<1>8. QED
  BY <1>1, <1>2, <1>3, <1>4, <1>5, <1>6, <1>7, Zenon DEF Next

\* Every byte has its type, and however the stream is cut, what was observed and
\* what is kept is what one pass over all of it gives; the captures hold what was
\* observed and injected (protocol.py:69-94, 145-156; proxy.py:77-82, 111-141).
THEOREM CapturesSafe == Spec => []CInv
BY CInvInit, CInvStep, PTL DEF Spec

\* How TCP cuts the stream makes no difference (protocol.py:69-94, 145-156).
THEOREM ChunkingIsInvisible == Spec => []ChunkingInvisible
<1>1. CInv => ChunkingInvisible
  BY DEF CInv
<1>2. QED
  BY <1>1, CapturesSafe, PTL

\* The dump, the file of the device and the focused list are complete
\* (proxy.py:77-82, 111-142).
THEOREM CapturesComplete == Spec => []CaptureIsComplete
<1>1. CInv => CaptureIsComplete
  <2> SUFFICES ASSUME CInv PROVE CaptureIsComplete
    OBVIOUS
  <2>1. file \in Seq(Entry)
    BY TypeParts DEF CInv
  <2>2. ToSet(Only(file, Focused)) = ToSet(file) \cap Focused
    BY <2>1, OnlyRange
  <2>3. QED
    BY <2>2, Zenon DEF CInv, CapturesAgree, CaptureIsComplete
<1>2. QED
  BY <1>1, CapturesSafe, PTL

(***************************************************************************)
(* The streams, when no magic is sent between two frames                   *)
(***************************************************************************)

\* Bytes that hold these frames, and behind them none that has begun.
Holds(bytes, fs) == IterFrames(bytes).frames = fs /\ Quiet(IterFrames(bytes).left)

LEMMA HoldsSent ==
  ASSUME NEW a \in Seq(Byte), NEW fs \in Seq(RawFrame), Holds(a, fs), NEW f \in Sendable
  PROVE  Holds(a \o Encode(f), Append(fs, f)) /\ IterFrames(a \o Encode(f)).left = <<>>
<1> DEFINE l == IterFrames(a).left
           e == Encode(f)
<1>1. l \in Seq(Byte) /\ e \in Seq(Byte) /\ Quiet(l)
  BY IterType, EncodeLayout DEF Holds
<1>2. IterFrames(l \o e).frames = <<f>> /\ IterFrames(l \o e).left = <<>>
  <2> HIDE DEF l
  <2>1. QED
    BY <1>1, IterEncoded
<1>3. /\ IterFrames(a \o e).frames = IterFrames(a).frames \o IterFrames(l \o e).frames
      /\ IterFrames(a \o e).left = IterFrames(l \o e).left
  <2> HIDE DEF e
  <2>1. QED
    BY <1>1, ParserIsIncremental
<1>4. IterFrames(a).frames = fs
  BY DEF Holds
<1>5. f \in RawFrame
  BY DEF Sendable
<1>6. fs \o <<f>> = Append(fs, f)
  BY <1>5, AppendIsConcat
<1>7. QED
  BY <1>2, <1>3, <1>4, <1>6, QuietEmpty DEF Holds

LEMMA HoldsQuiet ==
  ASSUME NEW a \in Seq(Byte), NEW fs \in Seq(RawFrame), Holds(a, fs),
         NEW q \in Seq(Byte), Quiet(q)
  PROVE  Holds(a \o q, fs)
<1> DEFINE l == IterFrames(a).left
<1>1. l \in Seq(Byte) /\ Quiet(l)
  BY IterType DEF Holds
<1>2. /\ IterFrames(a \o q).frames = IterFrames(a).frames \o IterFrames(l \o q).frames
      /\ IterFrames(a \o q).left = IterFrames(l \o q).left
  BY ParserIsIncremental
<1> HIDE DEF l
<1> DEFINE lq == l \o q
<1>3. lq \in Seq(Byte) /\ Quiet(lq)
  BY <1>1, QuietConcat, ConcatProperties
<1> HIDE DEF lq
<1>4. IterFrames(lq).frames = <<>> /\ IterFrames(lq).left = lq
  BY <1>3, QuietIncomplete
<1>5. IterFrames(a).frames = fs /\ fs \o <<>> = fs
  BY ConcatEmptySeq DEF Holds
<1>6. QED
  BY <1>2, <1>3, <1>4, <1>5 DEF Holds, lq

\* What the device has parsed of d, and will have when w follows: the frames of
\* the cloud, and the commands c between them.
Shared(d, w, fs, c) ==
  LET now == IterFrames(d)
      coming == IterFrames(now.left \o w)
  IN  /\ Only(now.frames, RawFrame \ Command) \o coming.frames = fs
      /\ Quiet(coming.left)
      /\ Captured("dashboard", Only(now.frames, Command)) = c

LEMMA SharedParts ==
  /\ StreamHoldsSent <=> Holds(heard \o chunk \o wire, sent)
  /\ StreamIsShared <=> Shared(delivered, wire, sent, CapturedFrom("dashboard"))
BY Zenon DEF StreamHoldsSent, Holds, StreamIsShared, Shared

LEMMA SharedPartsNext ==
  /\ StreamHoldsSent' <=> Holds(heard' \o chunk' \o wire', sent')
  /\ StreamIsShared' <=> Shared(delivered', wire', sent', CapturedFrom("dashboard")')
<1> DEFINE P == Holds(heard \o chunk \o wire, sent)
           Q == Shared(delivered, wire, sent, CapturedFrom("dashboard"))
<1>1. (StreamHoldsSent <=> P) /\ (StreamIsShared <=> Q)
  BY SharedParts, Zenon
<1> HIDE DEF P, Q
<1>2. (StreamHoldsSent' <=> P') /\ (StreamIsShared' <=> Q')
  BY <1>1, PTL
<1>3. QED
  BY <1>2, Zenon DEF P, Q

\* The types of what Shared speaks of.
LEMMA SharedTypes ==
  ASSUME NEW d \in Seq(Byte), NEW w \in Seq(Byte)
  PROVE  LET now == IterFrames(d)
             coming == IterFrames(now.left \o w)
         IN  /\ now.frames \in Seq(RawFrame) /\ now.left \in Seq(Byte)
             /\ now.left \o w \in Seq(Byte)
             /\ coming.frames \in Seq(RawFrame) /\ coming.left \in Seq(Byte)
             /\ Only(now.frames, RawFrame \ Command) \in Seq(RawFrame)
             /\ Only(now.frames, Command) \in Seq(RawFrame)
<1> DEFINE now == IterFrames(d)
<1>1. now.frames \in Seq(RawFrame) /\ now.left \in Seq(Byte)
  BY IterType
<1> HIDE DEF now
<1> DEFINE b == now.left \o w
<1>2. b \in Seq(Byte)
  BY <1>1, ConcatProperties
<1> HIDE DEF b
<1>3. IterFrames(b).frames \in Seq(RawFrame) /\ IterFrames(b).left \in Seq(Byte)
  BY <1>2, IterType
<1>4. /\ Only(now.frames, RawFrame \ Command) \in Seq(RawFrame)
      /\ Only(now.frames, Command) \in Seq(RawFrame)
  BY <1>1, OnlyIn
<1>5. QED
  BY <1>1, <1>2, <1>3, <1>4 DEF b, now

LEMMA SharedSends ==
  ASSUME NEW d \in Seq(Byte), NEW w \in Seq(Byte), NEW fs \in Seq(Message), NEW c,
         Shared(d, w, fs, c), NEW f \in Message
  PROVE  Shared(d, w \o Encode(f), Append(fs, f), c)
<1> DEFINE now == IterFrames(d)
           b == now.left \o w
           e == Encode(f)
           p == Only(now.frames, RawFrame \ Command)
<1>1. /\ now.left \in Seq(Byte) /\ b \in Seq(Byte) /\ p \in Seq(RawFrame)
      /\ IterFrames(b).frames \in Seq(RawFrame)
  BY SharedTypes
<1>2. /\ p \o IterFrames(b).frames = fs /\ Quiet(IterFrames(b).left)
      /\ Captured("dashboard", Only(now.frames, Command)) = c
  BY Zenon DEF Shared
<1>3. f \in Sendable /\ f \in RawFrame /\ e \in Seq(Byte)
  BY EncodeLayout, FrameAssumption DEF Sendable
<1>4. now.left \o (w \o e) = b \o e
  <2> DEFINE l == now.left
  <2>1. l \in Seq(Byte)
    BY <1>1
  <2> HIDE DEF l, e
  <2>2. (l \o w) \o e = l \o (w \o e)
    BY <1>3, <2>1, ByteAssoc, Zenon
  <2>3. QED
    BY <2>2 DEF l
<1> DEFINE g == IterFrames(b).frames
<1> HIDE DEF b
<1>5. Holds(b \o e, Append(g, f))
  <2>1. g \in Seq(RawFrame) /\ Holds(b, g)
    BY <1>1, <1>2 DEF Holds
  <2> HIDE DEF g
  <2>2. QED
    BY <1>1, <1>3, <2>1, HoldsSent
<1>6. p \o Append(g, f) = Append(fs, f)
  <2>1. g \in Seq(RawFrame) /\ p \o g = fs
    BY <1>1, <1>2
  <2> HIDE DEF g, p
  <2>2. p \o Append(g, f) = Append(p \o g, f)
    <3>1. p \in Seq(RawFrame) /\ g \in Seq(RawFrame) /\ f \in RawFrame
      BY <1>1, <1>3, <2>1
    <3>2. QED
      BY <3>1, AppendIntoConcat, Zenon
  <2>3. QED
    BY <2>1, <2>2
<1>7. /\ p \o IterFrames(b \o e).frames = Append(fs, f)
      /\ Quiet(IterFrames(b \o e).left)
  BY <1>5, <1>6 DEF Holds
<1> HIDE DEF e
<1>8. /\ p \o IterFrames(now.left \o (w \o e)).frames = Append(fs, f)
      /\ Quiet(IterFrames(now.left \o (w \o e)).left)
  BY <1>4, <1>7
<1>9. Shared(d, w \o e, Append(fs, f), c)
  BY <1>2, <1>8, Zenon DEF Shared
<1>10. QED
  BY <1>9 DEF e

LEMMA SharedStrays ==
  ASSUME NEW d \in Seq(Byte), NEW w \in Seq(Byte), NEW fs \in Seq(Message), NEW c,
         Shared(d, w, fs, c), NEW q \in Seq(Byte), Quiet(q)
  PROVE  Shared(d, w \o q, fs, c)
<1> DEFINE now == IterFrames(d)
           b == now.left \o w
           p == Only(now.frames, RawFrame \ Command)
           g == IterFrames(b).frames
<1>1. now.left \in Seq(Byte) /\ b \in Seq(Byte) /\ g \in Seq(RawFrame)
  BY SharedTypes
<1>2. /\ p \o g = fs /\ Quiet(IterFrames(b).left)
      /\ Captured("dashboard", Only(now.frames, Command)) = c
  BY Zenon DEF Shared
<1>3. now.left \o (w \o q) = b \o q
  <2> DEFINE l == now.left
  <2>1. l \in Seq(Byte)
    BY <1>1
  <2> HIDE DEF l
  <2>2. (l \o w) \o q = l \o (w \o q)
    BY <2>1, ByteAssoc, Zenon
  <2>3. QED
    BY <2>2 DEF l
<1> HIDE DEF b
<1>4. Holds(b \o q, g)
  <2>1. Holds(b, g)
    BY <1>2 DEF Holds
  <2> HIDE DEF g
  <2>2. QED
    BY <1>1, <2>1, HoldsQuiet
<1>5. IterFrames(b \o q).frames = g /\ Quiet(IterFrames(b \o q).left)
  BY <1>4 DEF Holds
<1> HIDE DEF g
<1>6. /\ p \o IterFrames(now.left \o (w \o q)).frames = fs
      /\ Quiet(IterFrames(now.left \o (w \o q)).left)
  BY <1>2, <1>3, <1>5
<1>7. QED
  BY <1>2, <1>6, Zenon DEF Shared

\* The middle of a sequence of messages holds messages.
LEMMA MiddleType ==
  ASSUME NEW A, NEW B, NEW s \in Seq(A), NEW t \in Seq(A), NEW u \in Seq(A),
         s \o (t \o u) \in Seq(B)
  PROVE  t \in Seq(B)
<1> DEFINE tu == t \o u
<1>1. /\ tu \in Seq(A) /\ Len(tu) = Len(t) + Len(u)
      /\ Len(t) \in Nat /\ Len(u) \in Nat
      /\ \A i \in 1..Len(t) : tu[i] = t[i]
  BY ConcatAt
<1> HIDE DEF tu
<1> DEFINE r == s \o tu
<1>2. /\ Len(r) = Len(s) + Len(tu) /\ Len(s) \in Nat
      /\ \A i \in 1..Len(tu) : r[Len(s) + i] = tu[i]
  <2>1. tu \in Seq(A)
    BY <1>1
  <2>2. QED
    BY <2>1, ConcatAt
<1>3. r \in Seq(B)
  BY DEF tu
<1> HIDE DEF r
<1>4. ASSUME NEW i \in 1..Len(t) PROVE t[i] \in B
  <2>1. i \in 1..Len(tu) /\ Len(s) + i \in 1..Len(r)
    BY <1>1, <1>2
  <2>2. r[Len(s) + i] \in B
    BY <1>3, <2>1, ElementOfSeq
  <2>3. QED
    BY <1>1, <1>2, <2>1, <2>2
<1>5. t = [i \in 1..Len(t) |-> t[i]]
  BY LenProperties
<1>6. QED
  BY <1>1, <1>4, <1>5

LEMMA SharedForwards ==
  ASSUME NEW d \in Seq(Byte), NEW x \in Seq(Byte), NEW w \in Seq(Byte),
         NEW fs \in Seq(Message), NEW c, Shared(d, x \o w, fs, c)
  PROVE  Shared(d \o x, w, fs, c)
<1> DEFINE now == IterFrames(d)
           l == now.left
           turn == IterFrames(l \o x)
           rest == IterFrames(turn.left \o w)
           p == Only(now.frames, RawFrame \ Command)
           q == Only(now.frames, Command)
<1>1. x \o w \in Seq(Byte)
  BY ConcatProperties
<1>2. /\ now.frames \in Seq(RawFrame) /\ l \in Seq(Byte) /\ l \o x \in Seq(Byte)
      /\ turn.frames \in Seq(RawFrame) /\ turn.left \in Seq(Byte)
      /\ p \in Seq(RawFrame) /\ q \in Seq(RawFrame)
  BY SharedTypes
<1>3. /\ p \o IterFrames(l \o (x \o w)).frames = fs
      /\ Quiet(IterFrames(l \o (x \o w)).left)
      /\ Captured("dashboard", q) = c
  BY Zenon DEF Shared
<1>4. /\ IterFrames(d \o x).frames = now.frames \o turn.frames
      /\ IterFrames(d \o x).left = turn.left
  BY ParserIsIncremental
<1>5. /\ IterFrames(l \o (x \o w)).frames = turn.frames \o rest.frames
      /\ IterFrames(l \o (x \o w)).left = rest.left
  <2>1. (l \o x) \o w = l \o (x \o w)
    <3>1. l \in Seq(Byte)
      BY <1>2
    <3> HIDE DEF l
    <3>2. QED
      BY <3>1, ByteAssoc, Zenon
  <2> DEFINE lx == l \o x
  <2>2. lx \in Seq(Byte)
    BY <1>2
  <2> HIDE DEF lx
  <2>3. /\ IterFrames(lx \o w).frames
             = IterFrames(lx).frames \o IterFrames(IterFrames(lx).left \o w).frames
        /\ IterFrames(lx \o w).left = IterFrames(IterFrames(lx).left \o w).left
    BY <2>2, ParserIsIncremental
  <2>4. QED
    BY <2>1, <2>3 DEF lx
<1>6. rest.frames \in Seq(RawFrame)
  <2> DEFINE tl == turn.left
  <2>1. tl \in Seq(Byte)
    BY <1>2
  <2> HIDE DEF tl
  <2>2. tl \o w \in Seq(Byte)
    BY <2>1, ConcatProperties
  <2> DEFINE tw == tl \o w
  <2> HIDE DEF tw
  <2>3. IterFrames(tw).frames \in Seq(RawFrame)
    BY <2>2, IterType DEF tw
  <2>4. QED
    BY <2>3 DEF tw, tl
<1> DEFINE nf == now.frames
           tf == turn.frames
           rf == rest.frames
<1>7. /\ nf \in Seq(RawFrame) /\ tf \in Seq(RawFrame) /\ rf \in Seq(RawFrame)
      /\ p \o (tf \o rf) = fs
  BY <1>2, <1>3, <1>5, <1>6
<1>8. /\ Only(nf \o tf, RawFrame \ Command) = p \o Only(tf, RawFrame \ Command)
      /\ Only(nf \o tf, Command) = q \o Only(tf, Command)
  <2> HIDE DEF nf, tf
  <2>1. /\ Only(nf \o tf, RawFrame \ Command)
             = Only(nf, RawFrame \ Command) \o Only(tf, RawFrame \ Command)
        /\ Only(nf \o tf, Command) = Only(nf, Command) \o Only(tf, Command)
    <3>1. nf \in Seq(RawFrame) /\ tf \in Seq(RawFrame)
      BY <1>7
    <3>2. \A K : Only(nf \o tf, K) = Only(nf, K) \o Only(tf, K)
      BY <3>1, OnlyConcat
    <3>3. QED
      BY <3>2, Zenon
  <2>2. QED
    BY <2>1 DEF nf
<1> HIDE DEF nf, tf, rf, rest, turn, p, q, now, l
<1>9. tf \in Seq(Message)
  <2>1. p \o (tf \o rf) \in Seq(Message)
    BY <1>7
  <2>2. QED
    BY <1>2, <1>7, <2>1, MiddleType
<1>10. Only(tf, RawFrame \ Command) = tf /\ Only(tf, Command) = <<>>
  <2>1. Message \subseteq RawFrame \ Command /\ Message \cap Command = {}
    BY FrameAssumption DEF Sendable
  <2>2. QED
    BY <1>9, <2>1, OnlyAll, OnlyNone
<1>11. (p \o tf) \o rf = fs
  <2>1. p \in Seq(RawFrame) /\ tf \in Seq(RawFrame) /\ rf \in Seq(RawFrame)
    BY <1>2, <1>7
  <2>2. (p \o tf) \o rf = p \o (tf \o rf)
    BY <2>1, FrameAssoc, Zenon
  <2>3. QED
    BY <1>7, <2>2
<1>12. q \o <<>> = q
  BY <1>2, ConcatEmptySeq
<1>13. /\ Only(IterFrames(d \o x).frames, RawFrame \ Command)
            \o IterFrames(IterFrames(d \o x).left \o w).frames = fs
       /\ Quiet(IterFrames(IterFrames(d \o x).left \o w).left)
       /\ Captured("dashboard", Only(IterFrames(d \o x).frames, Command)) = c
  <2>1. IterFrames(d \o x).frames = nf \o tf /\ IterFrames(d \o x).left = turn.left
    BY <1>4 DEF nf, tf
  <2>2. IterFrames(IterFrames(d \o x).left \o w).frames = rf
    BY <2>1 DEF rf, rest
  <2>3. IterFrames(IterFrames(d \o x).left \o w).left = rest.left
    BY <2>1 DEF rest
  <2>4. Quiet(rest.left) /\ Captured("dashboard", q) = c
    BY <1>3, <1>5
  <2>5. QED
    BY <1>8, <1>10, <1>11, <1>12, <2>1, <2>2, <2>3, <2>4
<1>14. QED
  BY <1>13, Zenon DEF Shared

\* Nothing but a quiet rest is outside of every frame.
LEMMA OutsideIsQuiet ==
  ASSUME NEW l \in Seq(Byte), Resync(l) = <<>>
  PROVE  Quiet(l)
<1> SUFFICES ASSUME ~Quiet(l) PROVE FALSE
  OBVIOUS
<1>1. PICK k \in 1..Len(l) : l[k] = Magic /\ \A i \in 1..(k - 1) : l[i] # Magic
  BY FirstMagic
<1>2. Resync(l) = SubSeq(l, k, Len(l))
  BY <1>1, ResyncAt
<1>3. Len(SubSeq(l, k, Len(l))) = Len(l) - k + 1
  <2>1. Len(l) \in Nat /\ k \in Int /\ k <= Len(l) /\ \A i \in k..Len(l) : l[i] \in Byte
    BY LenProperties, ElementOfSeq
  <2>2. QED
    BY <2>1, SubSeqProperties
<1>4. Len(l) - k + 1 # 0
  BY LenProperties
<1>5. Len(<<>>) = 0
  BY EmptySeq
<1>6. Len(SubSeq(l, k, Len(l))) = 0
  BY <1>2, <1>5, Zenon
<1>7. QED
  BY <1>3, <1>4, <1>6

LEMMA OnlyOne ==
  ASSUME NEW f \in RawFrame, NEW K
  PROVE  Only(<<f>>, K) = IF f \in K THEN <<f>> ELSE <<>>
<1> DEFINE A == {f}
           s == <<f>>
<1>1. s \in Seq(A)
  OBVIOUS
<1>2. (f \in K => A \subseteq K) /\ (f \notin K => A \cap K = {})
  OBVIOUS
<1> HIDE DEF A, s
<1>3. Only(s, K) = IF f \in K THEN s ELSE <<>>
  BY <1>1, <1>2, OnlyAll, OnlyNone
<1>4. QED
  BY <1>3 DEF s

\* A command between two frames is one frame more.
LEMMA SharedInjects ==
  ASSUME NEW d \in Seq(Byte), NEW w \in Seq(Byte), NEW fs \in Seq(Message), NEW c,
         Shared(d, w, fs, c), Resync(IterFrames(d).left) = <<>>, NEW f \in Command
  PROVE  Shared(d \o Encode(f), w, fs, c \o Captured("dashboard", <<f>>))
<1> DEFINE now == IterFrames(d)
           l == now.left
           nf == now.frames
           e == Encode(f)
           p == Only(nf, RawFrame \ Command)
           q == Only(nf, Command)
           rest == IterFrames(l \o w)
<1>1. /\ nf \in Seq(RawFrame) /\ l \in Seq(Byte)
      /\ p \in Seq(RawFrame) /\ q \in Seq(RawFrame)
  BY SharedTypes
<1>2. /\ p \o rest.frames = fs /\ Quiet(rest.left) /\ Captured("dashboard", q) = c
  BY Zenon DEF Shared
<1>3. f \in Sendable /\ f \in RawFrame /\ e \in Seq(Byte)
  BY EncodeLayout, FrameAssumption DEF Sendable
<1>4. Quiet(l)
  BY <1>1, OutsideIsQuiet
<1>5. /\ IterFrames(d \o e).frames = Append(nf, f)
      /\ IterFrames(d \o e).left = <<>>
  <2>1. Holds(d, nf)
    BY <1>4 DEF Holds
  <2> HIDE DEF nf
  <2>2. Holds(d \o e, Append(nf, f)) /\ IterFrames(d \o e).left = <<>>
    BY <1>1, <1>3, <2>1, HoldsSent
  <2>3. QED
    BY <2>2 DEF Holds
<1>6. <<>> \o w = w
  BY ConcatEmptySeq
<1>7. rest.frames = IterFrames(w).frames /\ Quiet(IterFrames(w).left)
  <2> HIDE DEF l
  <2>1. /\ IterFrames(l \o w).frames = IterFrames(w).frames
        /\ Quiet(IterFrames(l \o w).left) => Quiet(IterFrames(w).left)
    BY <1>1, <1>4, IterSkips
  <2>2. QED
    BY <1>2, <2>1
<1>8. Only(Append(nf, f), RawFrame \ Command) = p
  <2> HIDE DEF nf
  <2>1. f \notin RawFrame \ Command
    OBVIOUS
  <2>2. QED
    BY <1>1, <1>3, <2>1, OnlyAppend
<1>9. Only(Append(nf, f), Command) = Append(q, f)
  <2> HIDE DEF nf
  <2>1. QED
    BY <1>1, <1>3, OnlyAppend
<1>10. Captured("dashboard", Append(q, f)) = c \o Captured("dashboard", <<f>>)
  <2> HIDE DEF q
  <2>1. Append(q, f) = q \o <<f>>
    BY <1>1, <1>3, AppendIsConcat
  <2> DEFINE g == <<f>>
  <2>2. g \in Seq(RawFrame)
    BY <1>3
  <2> HIDE DEF g
  <2>3. Captured("dashboard", q \o g) = Captured("dashboard", q) \o Captured("dashboard", g)
    BY <1>1, <2>2, CapturedConcat
  <2>4. QED
    BY <1>2, <2>1, <2>3 DEF g
<1> HIDE DEF e, p, q, rest, nf
<1>11. /\ Only(IterFrames(d \o e).frames, RawFrame \ Command)
            \o IterFrames(IterFrames(d \o e).left \o w).frames = fs
       /\ Quiet(IterFrames(IterFrames(d \o e).left \o w).left)
       /\ Captured("dashboard", Only(IterFrames(d \o e).frames, Command))
            = c \o Captured("dashboard", <<f>>)
  BY <1>2, <1>5, <1>6, <1>7, <1>8, <1>9, <1>10
<1>12. Shared(d \o e, w, fs, c \o Captured("dashboard", <<f>>))
  BY <1>11, Zenon DEF Shared
<1>13. QED
  BY <1>12 DEF e

LEMMA PrefixOfConcat ==
  ASSUME NEW A, NEW s \in Seq(A), NEW t \in Seq(A)
  PROVE  IsPrefix(s, s \o t)
<1> DEFINE r == s \o t
<1>1. /\ r \in Seq(A) /\ Len(r) = Len(s) + Len(t)
      /\ Len(s) \in Nat /\ Len(t) \in Nat
      /\ \A i \in 1..Len(s) : r[i] = s[i]
  BY ConcatAt
<1> HIDE DEF r
<1>2. SubSeq(r, 1, Len(s)) = s
  <2>1. 0 + Len(s) <= Len(r) /\ \A i \in 1..Len(s) : r[0 + i] = s[i]
    BY <1>1
  <2>2. SubSeq(r, 0 + 1, 0 + Len(s)) = s
    BY <1>1, <2>1, PartIs
  <2>3. 0 + 1 = 1 /\ 0 + Len(s) = Len(s)
    BY <1>1
  <2>4. QED
    BY <2>2, <2>3
<1>3. SubSeq(s, 1, Len(s)) = s
  BY SubSeqFull
<1>4. Len(s) <= Len(r)
  BY <1>1
<1>5. QED
  BY <1>2, <1>3, <1>4 DEF r, IsPrefix

\* What a pass leaves gives nothing to another.
LEMMA NothingLeft ==
  ASSUME NEW d \in Seq(Byte)
  PROVE  IterFrames(IterFrames(d).left).frames = <<>>
<1> DEFINE l == IterFrames(d).left
           x == IterFrames(d).frames
           y == IterFrames(l).frames
<1>1. l \in Seq(Byte) /\ x \in Seq(RawFrame)
  BY IterType
<1>2. y \in Seq(RawFrame)
  <2> HIDE DEF l
  <2>1. QED
    BY <1>1, IterType
<1>3. d \o <<>> = d /\ l \o <<>> = l
  <2> HIDE DEF l
  <2>1. QED
    BY <1>1, ConcatEmptySeq
<1>4. x = x \o y
  <2> DEFINE nil == <<>>
  <2>1. nil \in Seq(Byte)
    BY EmptySeq
  <2> HIDE DEF nil
  <2>2. IterFrames(d \o nil).frames = IterFrames(d).frames \o IterFrames(IterFrames(d).left \o nil).frames
    BY <2>1, ParserIsIncremental
  <2>3. QED
    BY <1>3, <2>2 DEF nil
<1> HIDE DEF x, y
<1>5. Len(y) = 0
  <2>1. Len(x \o y) = Len(x) + Len(y) /\ Len(x) \in Nat /\ Len(y) \in Nat
    BY <1>1, <1>2, ConcatProperties, LenProperties
  <2>2. QED
    BY <1>4, <2>1
<1>6. y = <<>>
  BY <1>2, <1>5, EmptySeq
<1>7. QED
  BY <1>6 DEF y, l

\* The invariant gives what the runs check.
LEMMA HoldsInOrder ==
  ASSUME TypeOK, ChunkingInvisible, StreamHoldsSent
  PROVE  FramesInOrder
<1> DEFINE rest == IterFrames(buffer \o (chunk \o wire))
<1>1. /\ heard \in Seq(Byte) /\ chunk \in Seq(Byte) /\ wire \in Seq(Byte)
      /\ buffer \in Seq(Byte) /\ frames \in Seq(RawFrame)
  BY TypeParts
<1>2. IterFrames(heard \o chunk \o wire).frames = sent
  BY SharedParts DEF Holds
<1>3. frames = IterFrames(heard).frames /\ buffer = IterFrames(heard).left
  BY ChunkingParts
<1>4. (heard \o chunk) \o wire = heard \o (chunk \o wire)
  <2>1. heard \in Seq(Byte) /\ chunk \in Seq(Byte) /\ wire \in Seq(Byte)
    BY <1>1
  <2>2. QED
    BY <2>1, ByteAssoc, Zenon
<1>5. sent = frames \o rest.frames /\ rest.frames \in Seq(RawFrame)
  <2> DEFINE cw == chunk \o wire
  <2>1. cw \in Seq(Byte)
    BY <1>1, ConcatProperties
  <2> HIDE DEF cw
  <2>2. IterFrames(heard \o cw).frames
          = IterFrames(heard).frames \o IterFrames(IterFrames(heard).left \o cw).frames
    BY <1>1, <2>1, ParserIsIncremental
  <2> DEFINE bcw == buffer \o cw
  <2>3. bcw \in Seq(Byte)
    BY <1>1, <2>1, ConcatProperties
  <2> HIDE DEF bcw
  <2>4. IterFrames(bcw).frames \in Seq(RawFrame)
    BY <2>3, IterType
  <2>5. QED
    BY <1>2, <1>3, <1>4, <2>2, <2>4 DEF cw, bcw
<1> HIDE DEF rest
<1>6. IsPrefix(frames, sent)
  <2> DEFINE r == rest.frames
  <2>1. r \in Seq(RawFrame) /\ sent = frames \o r
    BY <1>5
  <2> HIDE DEF r
  <2>2. IsPrefix(frames, frames \o r)
    BY <1>1, <2>1, PrefixOfConcat
  <2>3. QED
    BY <2>1, <2>2
<1>7. ASSUME wire = <<>>, chunk = <<>> PROVE frames = sent
  <2>1. heard \o <<>> \o <<>> = heard
    BY <1>1, ConcatEmptySeq
  <2>2. QED
    BY <1>2, <1>3, <1>7, <2>1
<1>8. QED
  BY <1>6, <1>7 DEF FramesInOrder

LEMMA SharedIsReadable ==
  ASSUME TypeOK, StreamIsShared
  PROVE  DeviceReadsFrames
<1> DEFINE now == IterFrames(delivered)
           p == Only(now.frames, RawFrame \ Command)
           q == Only(now.frames, Command)
           g == IterFrames(now.left \o wire).frames
<1>1. delivered \in Seq(Byte) /\ wire \in Seq(Byte)
  BY TypeParts
<1>2. now.left \in Seq(Byte) /\ p \in Seq(RawFrame) /\ g \in Seq(RawFrame)
  BY <1>1, SharedTypes
<1>3. p \o g = sent /\ Captured("dashboard", q) = CapturedFrom("dashboard")
  BY Zenon DEF StreamIsShared
<1>4. IsPrefix(p, sent)
  <2> HIDE DEF p, g
  <2>1. IsPrefix(p, p \o g)
    BY <1>2, PrefixOfConcat
  <2>2. QED
    BY <1>3, <2>1
<1>5. ASSUME wire = <<>> PROVE p = sent
  <2>1. now.left \o <<>> = now.left
    <3> DEFINE l == now.left
    <3>1. l \in Seq(Byte)
      BY <1>2
    <3> HIDE DEF l
    <3>2. l \o <<>> = l
      BY <3>1, ConcatEmptySeq
    <3>3. QED
      BY <3>2 DEF l
  <2>2. g = <<>>
    BY <1>1, <1>5, <2>1, NothingLeft
  <2> HIDE DEF p, g
  <2>3. p \o <<>> = p
    BY <1>2, ConcatEmptySeq
  <2>4. QED
    BY <1>3, <2>2, <2>3
<1>6. QED
  BY <1>3, <1>4, <1>5, Zenon DEF DeviceReadsFrames, Received

LEMMA DashboardKept ==
  ASSUME TypeOK, NEW who \in {"cloud", "device"}, NEW fs \in Seq(RawFrame),
         dump' = dump \o Captured(who, fs)
  PROVE  CapturedFrom("dashboard")' = CapturedFrom("dashboard")
<1> DEFINE K == {e \in Entry : e.from = "dashboard"}
           es == Captured(who, fs)
<1>1. es \in Seq(Entry)
  BY CapturedType
<1>2. es \in Seq({e \in Entry : e.from = who}) /\ {e \in Entry : e.from = who} \cap K = {}
  BY CapturedType
<1>3. Only(es, K) = <<>>
  <2> HIDE DEF es, K
  <2>1. QED
    BY <1>2, OnlyNone
<1>4. dump \in Seq(Entry)
  BY TypeParts
<1> HIDE DEF es, K
<1>5. Only(dump \o es, K) = Only(dump, K) \o Only(es, K)
  BY <1>1, <1>4, OnlyConcat
<1>6. Only(dump, K) \in Seq(Entry)
  BY <1>4, OnlyIn
<1>7. Only(dump, K) \o <<>> = Only(dump, K)
  BY <1>6, ConcatEmptySeq
<1>8. Only(dump', K) = Only(dump, K)
  BY <1>3, <1>5, <1>7 DEF es
<1>9. QED
  BY <1>8 DEF CapturedFrom, K

LEMMA IInvInit == Init => IInv
<1> SUFFICES ASSUME Init PROVE IInv
  OBVIOUS
<1>1. CInv
  BY CInvInit
<1>2. <<>> \in Seq(Byte) /\ <<>> \o <<>> = <<>>
  BY EmptySeq
<1>3. IterFrames(<<>>).frames = <<>> /\ IterFrames(<<>>).left = <<>> /\ Quiet(<<>>)
  BY <1>2, QuietEmpty, QuietIncomplete
<1>4. StreamHoldsSent
  BY <1>2, <1>3, SharedParts DEF Init, Holds
<1>5. StreamIsShared
  BY <1>2, <1>3, OnlyEmpty, CapturedEmpty DEF Init, StreamIsShared, CapturedFrom
<1>6. QED
  BY <1>1, <1>4, <1>5 DEF CInv, IInv

LEMMA StreamStep ==
  ASSUME NoiseHasNoMagic
  PROVE  IInv /\ [Next]_vars => StreamHoldsSent'
<1> SUFFICES ASSUME IInv, [Next]_vars PROVE StreamHoldsSent'
  OBVIOUS
<1> DEFINE all == heard \o chunk \o wire
           Goal == Holds(heard' \o chunk' \o wire', sent')
<1> SUFFICES Goal
  BY SharedPartsNext, Zenon
<1>1. /\ heard \in Seq(Byte) /\ chunk \in Seq(Byte) /\ wire \in Seq(Byte)
      /\ sent \in Seq(Message) /\ sent \in Seq(RawFrame)
  <2>1. Message \subseteq RawFrame
    BY FrameAssumption DEF Sendable
  <2>2. /\ heard \in Seq(Byte) /\ chunk \in Seq(Byte) /\ wire \in Seq(Byte)
        /\ sent \in Seq(Message)
    BY TypeParts DEF IInv
  <2>3. QED
    BY <2>1, <2>2
<1>2. heard \o chunk \in Seq(Byte) /\ all \in Seq(Byte)
  <2>1. heard \o chunk \in Seq(Byte)
    BY <1>1, ConcatProperties
  <2> DEFINE hc == heard \o chunk
  <2>2. hc \in Seq(Byte)
    BY <2>1
  <2> HIDE DEF hc
  <2>3. hc \o wire \in Seq(Byte)
    BY <1>1, <2>2, ConcatProperties
  <2>4. QED
    BY <2>1, <2>3 DEF hc
<1>3. Holds(all, sent)
  BY SharedParts DEF IInv
<1>4. ASSUME NEW bytes \in Seq(Byte), wire' = wire \o bytes, heard' = heard, chunk' = chunk
      PROVE  heard' \o chunk' \o wire' = all \o bytes
  <2> DEFINE hc == heard \o chunk
  <2>1. hc \in Seq(Byte)
    BY <1>2
  <2> HIDE DEF hc
  <2>2. (hc \o wire) \o bytes = hc \o (wire \o bytes)
    BY <1>1, <2>1, ByteAssoc, Zenon
  <2>3. QED
    BY <1>4, <2>2 DEF hc
<1>5. ASSUME NEW f \in Message, CloudSends(f) PROVE Goal
  <2>1. f \in Sendable /\ Encode(f) \in Seq(Byte)
    BY EncodeLayout, FrameAssumption
  <2>2. heard' \o chunk' \o wire' = all \o Encode(f) /\ sent' = Append(sent, f)
    BY <1>4, <1>5, <2>1 DEF CloudSends, pumpVars
  <2> HIDE DEF all
  <2>3. Holds(all \o Encode(f), Append(sent, f))
    BY <1>1, <1>2, <1>3, <2>1, HoldsSent
  <2>4. QED
    BY <2>2, <2>3
<1>6. ASSUME NEW bytes \in Noise, CloudStrays(bytes) PROVE Goal
  <2>1. bytes \in Seq(Byte) /\ Quiet(bytes)
    BY FrameAssumption DEF NoiseHasNoMagic
  <2>2. heard' \o chunk' \o wire' = all \o bytes /\ sent' = sent
    BY <1>4, <1>6, <2>1 DEF CloudStrays, pumpVars
  <2> HIDE DEF all
  <2>3. Holds(all \o bytes, sent)
    BY <1>1, <1>2, <1>3, <2>1, HoldsQuiet
  <2>4. QED
    BY <2>2, <2>3
<1>7. ASSUME NEW n \in 1..Len(wire), Forward(n) PROVE Goal
  <2> DEFINE x == SubSeq(wire, 1, n)
             y == SubSeq(wire, n + 1, Len(wire))
  <2>1. x \in Seq(Byte) /\ y \in Seq(Byte) /\ x \o y = wire
    BY <1>1, CutType
  <2>2. chunk = <<>> /\ chunk' = x /\ wire' = y /\ heard' = heard /\ sent' = sent
    BY <1>7 DEF Forward
  <2> HIDE DEF x, y
  <2>3. (heard \o x) \o y = heard \o (x \o y)
    <3>1. heard \in Seq(Byte) /\ x \in Seq(Byte) /\ y \in Seq(Byte)
      BY <1>1, <2>1
    <3>2. QED
      BY <3>1, ByteAssoc, Zenon
  <2>4. heard \o <<>> = heard
    BY <1>1, ConcatEmptySeq
  <2>5. heard' \o chunk' \o wire' = all
    BY <2>1, <2>2, <2>3, <2>4
  <2>6. QED
    BY <1>3, <2>2, <2>5
<1>8. ASSUME ObserveChunk PROVE Goal
  <2>1. chunk' = <<>> /\ heard' = heard \o chunk /\ sent' = sent /\ wire' = wire
    BY <1>8, ObserveChunkParts DEF IInv
  <2>2. (heard \o chunk) \o <<>> = heard \o chunk
    BY <1>2, ConcatEmptySeq
  <2>3. QED
    BY <1>3, <2>1, <2>2
<1>9. ASSUME UNCHANGED <<heard, chunk, wire, sent>> PROVE Goal
  BY <1>3, <1>9
<1>10. ASSUME NEW f \in Report, ObserveReport(f) PROVE Goal
  BY <1>9, <1>10 DEF ObserveReport, cloudVars, pumpVars
<1>11. ASSUME NEW f \in Command, Inject(f) PROVE Goal
  BY <1>9, <1>11 DEF Inject, cloudVars, pumpVars
<1>12. CASE UNCHANGED vars
  BY <1>9, <1>12 DEF vars, cloudVars, pumpVars
<1>13. QED
  BY <1>5, <1>6, <1>7, <1>8, <1>10, <1>11, <1>12, Zenon DEF Next

LEMMA SharedStep ==
  ASSUME NoiseHasNoMagic
  PROVE  IInv /\ [Next]_vars => (spliced \/ StreamIsShared)'
<1> SUFFICES ASSUME IInv, [Next]_vars PROVE spliced' \/ StreamIsShared'
  OBVIOUS
<1> DEFINE c == CapturedFrom("dashboard")
           Goal == spliced' \/ Shared(delivered', wire', sent', c')
<1> SUFFICES Goal
  BY SharedPartsNext, Zenon
<1>0. TypeOK /\ (spliced \/ Shared(delivered, wire, sent, c))
  BY SharedParts DEF IInv
<1>1. /\ wire \in Seq(Byte) /\ delivered \in Seq(Byte) /\ sent \in Seq(Message)
      /\ dump \in Seq(Entry) /\ spliced \in BOOLEAN
  BY <1>0, TypeParts
<1>2. ASSUME UNCHANGED dump PROVE c' = c
  BY <1>2 DEF CapturedFrom
<1>3. ASSUME NEW f \in Message, CloudSends(f) PROVE Goal
  <2>1. /\ delivered' = delivered /\ wire' = wire \o Encode(f) /\ sent' = Append(sent, f)
        /\ spliced' = spliced /\ c' = c
    BY <1>2, <1>3 DEF CloudSends, captureVars
  <2> HIDE DEF c
  <2>2. Shared(delivered, wire, sent, c) => Shared(delivered, wire \o Encode(f), Append(sent, f), c)
    BY <1>1, SharedSends
  <2>3. QED
    BY <1>0, <2>1, <2>2
<1>4. ASSUME NEW bytes \in Noise, CloudStrays(bytes) PROVE Goal
  <2>1. /\ delivered' = delivered /\ wire' = wire \o bytes /\ sent' = sent
        /\ spliced' = spliced /\ c' = c
    BY <1>2, <1>4 DEF CloudStrays, captureVars
  <2>2. bytes \in Seq(Byte) /\ Quiet(bytes)
    BY FrameAssumption DEF NoiseHasNoMagic
  <2> HIDE DEF c
  <2>3. Shared(delivered, wire, sent, c) => Shared(delivered, wire \o bytes, sent, c)
    BY <1>1, <2>2, SharedStrays
  <2>4. QED
    BY <1>0, <2>1, <2>3
<1>5. ASSUME NEW n \in 1..Len(wire), Forward(n) PROVE Goal
  <2> DEFINE x == SubSeq(wire, 1, n)
             y == SubSeq(wire, n + 1, Len(wire))
  <2>1. x \in Seq(Byte) /\ y \in Seq(Byte) /\ wire = x \o y
    BY <1>1, CutType
  <2>2. /\ delivered' = delivered \o x /\ wire' = y /\ sent' = sent
        /\ spliced' = spliced /\ c' = c
    BY <1>2, <1>5 DEF Forward, captureVars
  <2> HIDE DEF x, y, c
  <2>3. Shared(delivered, x \o y, sent, c) => Shared(delivered \o x, y, sent, c)
    BY <1>1, <2>1, SharedForwards
  <2>4. QED
    BY <1>0, <2>1, <2>2, <2>3
<1>6. ASSUME ObserveChunk PROVE Goal
  <2> DEFINE x == IterFrames(buffer \o chunk).frames
  <2>1. /\ x \in Seq(RawFrame) /\ Capture(Captured("cloud", x))
        /\ UNCHANGED <<sent, wire, delivered, spliced>>
    BY <1>0, <1>6, ObserveChunkParts
  <2> HIDE DEF x
  <2>2. dump' = dump \o Captured("cloud", x)
    BY <2>1 DEF Capture
  <2>3. c' = c
    BY <1>0, <2>1, <2>2, DashboardKept
  <2>4. QED
    BY <1>0, <2>1, <2>3
<1>7. ASSUME NEW f \in Report, ObserveReport(f) PROVE Goal
  <2> DEFINE x == <<f>>
  <2>1. /\ x \in Seq(RawFrame) /\ Capture(Captured("device", x))
        /\ UNCHANGED <<cloudVars, pumpVars, delivered, spliced>>
    BY <1>7, ReportParts
  <2> HIDE DEF x
  <2>2. dump' = dump \o Captured("device", x)
    BY <2>1 DEF Capture
  <2>3. c' = c
    BY <1>0, <2>1, <2>2, DashboardKept
  <2>4. QED
    BY <1>0, <2>1, <2>3 DEF cloudVars
<1>8. ASSUME NEW f \in Command, Inject(f) PROVE Goal
  <2> DEFINE K == {e \in Entry : e.from = "dashboard"}
             es == Captured("dashboard", <<f>>)
  <2>1. /\ f \in RawFrame /\ <<f>> \in Seq(RawFrame) /\ es \in Seq(Entry)
        /\ delivered' = delivered \o Encode(f) /\ dump' = dump \o es
        /\ spliced' = (spliced \/ InsideFrame)
        /\ UNCHANGED <<cloudVars, pumpVars, unhandled, known>>
    BY <1>0, <1>8, InjectParts
  <2>2. Only(es, K) = es
    <3> DEFINE x == <<f>>
    <3>1. x \in Seq(RawFrame)
      BY <2>1
    <3> HIDE DEF x
    <3>2. Only(Captured("dashboard", x), From("dashboard")) = Captured("dashboard", x)
      BY <3>1, CapturedIsFrom
    <3>3. QED
      BY <3>2, Zenon DEF x, From
  <2> HIDE DEF es, K
  <2>3. Only(dump \o es, K) = Only(dump, K) \o Only(es, K)
    BY <1>1, <2>1, OnlyConcat
  <2>4. c' = c \o es
    BY <2>1, <2>2, <2>3 DEF CapturedFrom, K
  <2>5. CASE ~spliced /\ ~InsideFrame
    <3>1. Shared(delivered, wire, sent, c) /\ Resync(IterFrames(delivered).left) = <<>>
      BY <1>0, <2>5 DEF InsideFrame
    <3> HIDE DEF c
    <3>2. Shared(delivered \o Encode(f), wire, sent, c \o es)
      BY <1>1, <3>1, SharedInjects DEF es
    <3>3. QED
      BY <2>1, <2>4, <3>2 DEF cloudVars
  <2>6. CASE spliced \/ InsideFrame
    BY <2>1, <2>6
  <2>7. QED
    BY <2>5, <2>6
<1>9. CASE UNCHANGED vars
  <2>1. UNCHANGED <<delivered, wire, sent, spliced, dump>>
    BY <1>9 DEF vars, cloudVars, captureVars
  <2>2. QED
    BY <1>0, <1>2, <2>1
<1>10. QED
  BY <1>3, <1>4, <1>5, <1>6, <1>7, <1>8, <1>9, Zenon DEF Next

LEMMA IInvStep ==
  ASSUME NoiseHasNoMagic
  PROVE  IInv /\ [Next]_vars => IInv'
<1> SUFFICES ASSUME IInv, [Next]_vars PROVE IInv'
  OBVIOUS
<1>1. CInv'
  BY CInvStep DEF CInv, IInv
<1>2. StreamHoldsSent' /\ (spliced \/ StreamIsShared)'
  BY StreamStep, SharedStep
<1>3. QED
  BY <1>1, <1>2 DEF CInv, IInv

\* What was parsed, what is on its way and what was captured belong to one stream,
\* when nothing between two frames looks like the start of one (proxy.py:74-82,
\* 111-165).
THEOREM RelaySafe ==
  ASSUME NoiseHasNoMagic
  PROVE  Spec => []IInv
BY IInvInit, IInvStep, PTL DEF Spec

\* The pump observes the frames in the order they were sent, unharmed, each once it
\* is complete (protocol.py:69-102, 145-156).
THEOREM FramesAreInOrder ==
  ASSUME NoiseHasNoMagic
  PROVE  Spec => []FramesInOrder
<1>1. IInv => FramesInOrder
  BY HoldsInOrder DEF IInv
<1>2. QED
  BY <1>1, RelaySafe, PTL

\* Unless a command fell inside a frame, the device reads all that the cloud and
\* the dashboard wrote, whole and once (proxy.py:74-76, 160).
THEOREM SharedStreamIsReadable ==
  ASSUME NoiseHasNoMagic
  PROVE  Spec => []SharedStreamReadable
<1>1. IInv => SharedStreamReadable
  BY SharedIsReadable DEF IInv, SharedStreamReadable
<1>2. QED
  BY <1>1, RelaySafe, PTL

=============================================================================
