-------------------------- MODULE AssetPathsProofs --------------------------
(***************************************************************************)
(* Proofs about AssetPaths.                                                *)
(***************************************************************************)
EXTENDS AssetPaths, SequenceTheorems, WellFoundedInduction, TLAPS

LEMMA LeastNumber ==
    ASSUME NEW T \in SUBSET Nat, T # {}
    PROVE  \E m \in T : \A n \in T : m <= n
<1>1. \E m \in T : \A n \in T : ~(<<n, m>> \in OpToRel(<, Nat))
  BY NatLessThanWellFounded, WFMin
<1>2. PICK m \in T : \A n \in T : ~(<<n, m>> \in OpToRel(<, Nat))
  BY <1>1
<1>3. ASSUME NEW n \in T PROVE m <= n
  <2>1. ~(<<n, m>> \in OpToRel(<, Nat))
    BY <1>2
  <2>2. m \in Nat /\ n \in Nat
    OBVIOUS
  <2>3. CASE n < m
    <3>1. <<n, m>> \in OpToRel(<, Nat)
      BY <2>2, <2>3 DEF OpToRel
    <3> QED
      BY <2>1, <3>1
  <2> QED
    BY <2>2, <2>3
<1> QED
  BY <1>3

LEMMA NumbersByInduction ==
    ASSUME NEW T \in SUBSET Nat, 0 \in T, \A n \in T : n + 1 \in T
    PROVE  T = Nat
<1>1. SUFFICES ASSUME Nat \ T # {} PROVE FALSE
  OBVIOUS
<1>2. PICK m \in Nat \ T : \A n \in Nat \ T : m <= n
  BY <1>1, LeastNumber
<1>3. m - 1 \in Nat /\ m - 1 \notin Nat \ T
  BY <1>2
<1> QED
  BY <1>2, <1>3

Flattens(F, s, n) ==
    /\ F = [i \in 1 .. n |-> F[i]]
    /\ \A i \in 1 .. n : F[i] = IF i = 1 THEN s[i] ELSE F[i - 1] \o s[i]

LEMMA FlattenExists ==
    ASSUME NEW s, NEW n \in Nat
    PROVE  \E F : Flattens(F, s, n)
<1> DEFINE T == {k \in Nat : \E F : Flattens(F, s, k)}
<1>1. 0 \in T
  <2>1. Flattens([i \in 1 .. 0 |-> 0], s, 0)
    BY DEF Flattens
  <2> QED
    BY <2>1
<1>2. ASSUME NEW k \in T PROVE k + 1 \in T
  <2>1. PICK F : Flattens(F, s, k)
    OBVIOUS
  <2> DEFINE G == [i \in 1 .. k + 1 |-> IF i \in 1 .. k THEN F[i] ELSE
                                        IF i = 1 THEN s[i] ELSE F[k] \o s[i]]
  <2>2. \A i \in 1 .. k : G[i] = F[i]
    OBVIOUS
  <2>3. G[k + 1] = IF k + 1 = 1 THEN s[k + 1] ELSE F[k] \o s[k + 1]
    OBVIOUS
  <2>4. G = [i \in 1 .. k + 1 |-> G[i]]
    OBVIOUS
  <2> HIDE DEF G
  <2>5. ASSUME NEW i \in 1 .. k + 1
        PROVE G[i] = IF i = 1 THEN s[i] ELSE G[i - 1] \o s[i]
    <3>1. CASE i = k + 1
      <4>1. CASE k = 0
        BY <2>3, <3>1, <4>1
      <4>2. CASE k # 0
        <5>1. k \in 1 .. k /\ i - 1 = k /\ i # 1
          BY <3>1, <4>2
        <5>2. G[i - 1] = F[k]
          BY <2>2, <5>1
        <5> QED
          BY <2>3, <3>1, <5>1, <5>2
      <4> QED
        BY <4>1, <4>2
    <3>2. CASE i # k + 1
      <4>1. i \in 1 .. k
        BY <3>2
      <4>2. F[i] = IF i = 1 THEN s[i] ELSE F[i - 1] \o s[i]
        BY <2>1, <4>1 DEF Flattens
      <4>3. i # 1 => G[i - 1] = F[i - 1]
        BY <2>2, <4>1
      <4> QED
        BY <2>2, <4>1, <4>2, <4>3
    <3> QED
      BY <3>1, <3>2
  <2>6. Flattens(G, s, k + 1)
    BY <2>4, <2>5 DEF Flattens
  <2> QED
    BY <2>6
<1> HIDE DEF T
<1>3. T \in SUBSET Nat
  BY DEF T
<1>4. T = Nat
  BY <1>1, <1>2, <1>3, NumbersByInduction
<1> QED
  BY <1>4 DEF T

LEMMA FlattenFirst ==
    ASSUME NEW s, NEW n \in Nat, NEW F, Flattens(F, s, n), 1 \in 1 .. n
    PROVE  F[1] = s[1]
BY DEF Flattens

LEMMA FlattenStep ==
    ASSUME NEW s, NEW n \in Nat, NEW F, Flattens(F, s, n), NEW i \in 1 .. n - 1
    PROVE  F[i + 1] = F[i] \o s[i + 1]
<1>1. i + 1 \in 1 .. n /\ i + 1 # 1 /\ (i + 1) - 1 = i
  OBVIOUS
<1>2. F[i + 1] = IF i + 1 = 1 THEN s[i + 1] ELSE F[(i + 1) - 1] \o s[i + 1]
  BY <1>1 DEF Flattens
<1> QED
  BY <1>1, <1>2

LEMMA FlattenUnique ==
    ASSUME NEW s, NEW t, NEW n \in Nat \ {0}, NEW F, NEW G,
           Flattens(F, s, n), Flattens(G, t, n + 1),
           \A i \in 1 .. n : s[i] = t[i]
    PROVE  F[n] = G[n]
<1> DEFINE T == {k \in Nat : k + 1 \in 1 .. n => F[k + 1] = G[k + 1]}
<1>1. 0 \in T
  <2>1. 1 \in 1 .. n /\ 1 \in 1 .. n + 1 /\ n + 1 \in Nat
    OBVIOUS
  <2>2. F[1] = s[1]
    BY <2>1, FlattenFirst
  <2>3. G[1] = t[1]
    BY <2>1, FlattenFirst
  <2> QED
    BY <2>1, <2>2, <2>3
<1>2. ASSUME NEW k \in T PROVE k + 1 \in T
  <2> DEFINE i == k + 1
  <2>1. SUFFICES ASSUME i + 1 \in 1 .. n PROVE F[i + 1] = G[i + 1]
    OBVIOUS
  <2>2. k \in Nat
    OBVIOUS
  <2>3. i \in 1 .. n /\ F[i] = G[i]
    BY <2>1, <2>2
  <2> HIDE DEF i
  <2>4. i \in 1 .. n - 1 /\ i \in 1 .. (n + 1) - 1 /\ n + 1 \in Nat
    BY <2>1, <2>3
  <2>5. F[i + 1] = F[i] \o s[i + 1]
    BY <2>4, FlattenStep
  <2>6. G[i + 1] = G[i] \o t[i + 1]
    BY <2>4, FlattenStep
  <2> QED
    BY <2>1, <2>3, <2>5, <2>6
<1> HIDE DEF T
<1>3. T \in SUBSET Nat
  BY DEF T
<1>4. T = Nat
  BY <1>1, <1>2, <1>3, NumbersByInduction
<1>5. n - 1 \in T
  BY <1>4
<1> QED
  BY <1>5 DEF T

LEMMA FlattenIsLast ==
    ASSUME NEW s, Len(s) \in Nat \ {0}
    PROVE  \E F : Flattens(F, s, Len(s)) /\ FlattenSeq(s) = F[Len(s)]
<1> DEFINE F == CHOOSE flatten : flatten = [i \in 1 .. Len(s) |-> IF i = 1 THEN s[i] ELSE flatten[i - 1] \o s[i]]
<1>1. \E f : f = [i \in 1 .. Len(s) |-> IF i = 1 THEN s[i] ELSE f[i - 1] \o s[i]]
  <2>1. PICK f : Flattens(f, s, Len(s))
    BY FlattenExists
  <2>2. f = [i \in 1 .. Len(s) |-> IF i = 1 THEN s[i] ELSE f[i - 1] \o s[i]]
    BY <2>1 DEF Flattens
  <2> QED
    BY <2>2
<1>2. F = [i \in 1 .. Len(s) |-> IF i = 1 THEN s[i] ELSE F[i - 1] \o s[i]]
  BY <1>1, Zenon
<1>3. FlattenSeq(s) = F[Len(s)]
  BY Zenon DEF FlattenSeq
<1> HIDE DEF F
<1>4. Flattens(F, s, Len(s))
  BY <1>2 DEF Flattens
<1> QED
  BY <1>3, <1>4

LEMMA FlattenOneMore ==
    ASSUME NEW s, NEW t, NEW n \in Nat \ {0}, Len(s) = n, Len(t) = n + 1,
           \A i \in 1 .. n : s[i] = t[i]
    PROVE  FlattenSeq(t) = FlattenSeq(s) \o t[n + 1]
<1>1. PICK G : Flattens(G, t, n + 1) /\ FlattenSeq(t) = G[n + 1]
  BY FlattenIsLast
<1>2. PICK F : Flattens(F, s, n) /\ FlattenSeq(s) = F[n]
  BY FlattenIsLast
<1>3. F[n] = G[n]
  BY <1>1, <1>2, FlattenUnique
<1>4. G[n + 1] = G[n] \o t[n + 1]
  <2>1. n + 1 \in Nat /\ n \in 1 .. (n + 1) - 1
    OBVIOUS
  <2> QED
    BY <1>1, <2>1, FlattenStep
<1> QED
  BY <1>1, <1>2, <1>3, <1>4

LEMMA FlattenSingle ==
    ASSUME NEW s, Len(s) = 1
    PROVE  FlattenSeq(s) = s[1]
<1>1. PICK F : Flattens(F, s, Len(s)) /\ FlattenSeq(s) = F[Len(s)]
  <2>1. Len(s) \in Nat \ {0}
    OBVIOUS
  <2> QED
    BY <2>1, FlattenIsLast
<1>2. Flattens(F, s, 1) /\ FlattenSeq(s) = F[1]
  BY <1>1
<1> QED
  BY <1>2, FlattenFirst

LEMMA FlattenAppend ==
    ASSUME NEW S, NEW s \in Seq(Seq(S)), NEW e \in Seq(S)
    PROVE  FlattenSeq(Append(s, e)) = FlattenSeq(s) \o e
<1> DEFINE t == Append(s, e)
<1>1. /\ t \in Seq(Seq(S)) /\ Len(t) = Len(s) + 1 /\ Len(s) \in Nat
      /\ \A i \in 1 .. Len(s) : s[i] = t[i]
      /\ t[Len(s) + 1] = e
  BY AppendProperties, LenProperties
<1> HIDE DEF t
<1>2. CASE Len(s) = 0
  <2>1. s = <<>> /\ FlattenSeq(s) = <<>>
    BY <1>2, EmptySeq DEF FlattenSeq
  <2>2. Len(t) = 1
    BY <1>1, <1>2
  <2>3. FlattenSeq(t) = t[1]
    BY <2>2, FlattenSingle
  <2> QED
    BY <1>1, <1>2, <2>1, <2>3, ConcatEmptySeq DEF t
<1>3. CASE Len(s) # 0
  <2>1. Len(s) \in Nat \ {0}
    BY <1>1, <1>3
  <2>2. FlattenSeq(t) = FlattenSeq(s) \o t[Len(s) + 1]
    BY <1>1, <2>1, FlattenOneMore
  <2> QED
    BY <1>1, <2>2 DEF t
<1> QED
  BY <1>2, <1>3

LEMMA SequencesByInduction ==
    ASSUME NEW S, NEW T \in SUBSET Seq(S), <<>> \in T,
           \A s \in T, e \in S : Append(s, e) \in T
    PROVE  T = Seq(S)
<1> DEFINE N == {n \in Nat : \A s \in Seq(S) : Len(s) = n => s \in T}
<1>1. 0 \in N
  BY EmptySeq
<1>2. ASSUME NEW n \in N PROVE n + 1 \in N
  <2>1. SUFFICES ASSUME NEW s \in Seq(S), Len(s) = n + 1 PROVE s \in T
    OBVIOUS
  <2>2. n \in Nat /\ s # <<>>
    BY <2>1, EmptySeq
  <2>3. PICK r \in Seq(S), e \in S : s = Append(r, e)
    BY <2>2, SequenceEmptyOrAppend
  <2>4. Len(r) = n
    BY <2>1, <2>2, <2>3, AppendProperties, LenProperties
  <2> QED
    BY <2>3, <2>4
<1> HIDE DEF N
<1>3. N \in SUBSET Nat
  BY DEF N
<1>4. N = Nat
  BY <1>1, <1>2, <1>3, NumbersByInduction
<1> QED
  BY <1>4, LenProperties DEF N

LEMMA FlattenType ==
    ASSUME NEW S
    PROVE  /\ FlattenSeq(<<>>) = <<>>
           /\ \A s \in Seq(Seq(S)) : FlattenSeq(s) \in Seq(S)
<1> DEFINE T == {s \in Seq(Seq(S)) : FlattenSeq(s) \in Seq(S)}
<1>1. FlattenSeq(<<>>) = <<>>
  BY EmptySeq DEF FlattenSeq
<1>2. <<>> \in T
  BY <1>1, EmptySeq
<1>3. ASSUME NEW s \in T, NEW e \in Seq(S) PROVE Append(s, e) \in T
  BY FlattenAppend, AppendProperties, ConcatProperties
<1> HIDE DEF T
<1>4. T \in SUBSET Seq(Seq(S))
  BY DEF T
<1>5. T = Seq(Seq(S))
  BY <1>2, <1>3, <1>4, SequencesByInduction
<1> QED
  BY <1>1, <1>5 DEF T

-----------------------------------------------------------------------------
(* Names and slashes.                                                       *)

LEMMA SlashType == Slash \in Path /\ Len(Slash) = 1 /\ Slash[1] = "/"
BY DEF Slash, Path

LEMMA PathJoin ==
    ASSUME NEW x \in Path, NEW y \in Path
    PROVE  /\ x \o y \in Path /\ Len(x) \in Nat /\ Len(y) \in Nat
           /\ Len(x \o y) = Len(x) + Len(y)
           /\ \A i \in 1 .. Len(x) : (x \o y)[i] = x[i]
           /\ \A i \in 1 .. Len(y) : (x \o y)[Len(x) + i] = y[i]
<1>1. /\ x \o y \in Path /\ Len(x) \in Nat /\ Len(y) \in Nat
      /\ Len(x \o y) = Len(x) + Len(y)
      /\ \A i \in 1 .. Len(x) + Len(y) :
            (x \o y)[i] = IF i <= Len(x) THEN x[i] ELSE y[i - Len(x)]
  BY ConcatProperties, LenProperties DEF Path
<1>2. ASSUME NEW i \in 1 .. Len(x) PROVE (x \o y)[i] = x[i]
  <2>1. i \in 1 .. Len(x) + Len(y) /\ i <= Len(x)
    BY <1>1
  <2> QED
    BY <1>1, <2>1
<1>3. ASSUME NEW i \in 1 .. Len(y) PROVE (x \o y)[Len(x) + i] = y[i]
  <2>1. Len(x) + i \in 1 .. Len(x) + Len(y) /\ ~(Len(x) + i <= Len(x)) /\ (Len(x) + i) - Len(x) = i
    BY <1>1
  <2> QED
    BY <1>1, <2>1
<1> QED
  BY <1>1, <1>2, <1>3

LEMMA PathAssociative ==
    ASSUME NEW x \in Path, NEW y \in Path, NEW z \in Path
    PROVE  (x \o y) \o z = x \o (y \o z)
BY ConcatAssociative DEF Path

LEMMA TokensType ==
    ASSUME NEW n \in Name
    PROVE  /\ Tokens(n) \in Seq(Token) /\ Tokens(n) \in Path
           /\ Slash \o Tokens(n) \in Path
           /\ Len(Tokens(n)) \in Nat \ {0}
           /\ Len(Slash \o Tokens(n)) = Len(Tokens(n)) + 1
           /\ (Slash \o Tokens(n))[1] = "/"
           /\ \A i \in 1 .. Len(Tokens(n)) :
                 (Slash \o Tokens(n))[i + 1] = Tokens(n)[i] /\ Tokens(n)[i] # "/"
<1>1. Tokens(n) \in Seq(Token) /\ Tokens(n) # <<>>
  BY AssetPathsAssumption
<1>2. Tokens(n) \in Path
  BY <1>1, SeqMonotonic DEF Path
<1>3. "/" \notin Token
  BY AssetPathsAssumption
<1>4. Len(Tokens(n)) \in Nat \ {0}
  BY <1>1, EmptySeq
<1>5. Slash \in Path /\ Len(Slash) = 1 /\ Slash[1] = "/"
  BY SlashType
<1>6. /\ Slash \o Tokens(n) \in Path
      /\ Len(Slash \o Tokens(n)) = 1 + Len(Tokens(n))
      /\ (Slash \o Tokens(n))[1] = "/"
      /\ \A i \in 1 .. Len(Tokens(n)) : (Slash \o Tokens(n))[1 + i] = Tokens(n)[i]
  <2>1. /\ Slash \o Tokens(n) \in Path
        /\ Len(Slash \o Tokens(n)) = Len(Slash) + Len(Tokens(n))
        /\ \A i \in 1 .. Len(Slash) : (Slash \o Tokens(n))[i] = Slash[i]
        /\ \A i \in 1 .. Len(Tokens(n)) : (Slash \o Tokens(n))[Len(Slash) + i] = Tokens(n)[i]
    BY <1>2, <1>5, PathJoin
  <2>2. 1 \in 1 .. Len(Slash)
    BY <1>5
  <2> QED
    BY <1>5, <2>1, <2>2
<1>7. \A i \in 1 .. Len(Tokens(n)) : Tokens(n)[i] # "/"
  BY <1>1, <1>3, ElementOfSeq
<1>8. \A i \in 1 .. Len(Tokens(n)) : 1 + i = i + 1
  BY <1>4
<1> QED
  BY <1>1, <1>2, <1>4, <1>6, <1>7, <1>8

Down(x, n) == x \o (Slash \o Tokens(n))

\* A path has one more piece when it has one more name.
LEMMA SlashedAppend ==
    ASSUME NEW ns \in Seq(Name), NEW n \in Name
    PROVE  Slashed(Append(ns, n)) = Down(Slashed(ns), n)
<1> DEFINE Pieces(ms) == [i \in DOMAIN ms |-> Slash \o Tokens(ms[i])]
           ms == Append(ns, n)
<1>1. /\ ms \in Seq(Name) /\ Len(ms) = Len(ns) + 1 /\ Len(ns) \in Nat
      /\ \A i \in 1 .. Len(ns) : ms[i] = ns[i]
      /\ ms[Len(ns) + 1] = n
  BY AppendProperties, LenProperties
<1> HIDE DEF ms
<1>2. ASSUME NEW qs \in Seq(Name)
      PROVE  /\ Pieces(qs) \in Seq(Path) /\ Len(Pieces(qs)) = Len(qs)
             /\ \A i \in 1 .. Len(qs) : Pieces(qs)[i] = Slash \o Tokens(qs[i])
  <2>1. Len(qs) \in Nat /\ DOMAIN qs = 1 .. Len(qs) /\ \A i \in 1 .. Len(qs) : qs[i] \in Name
    BY LenProperties, ElementOfSeq
  <2>2. \A i \in 1 .. Len(qs) : Slash \o Tokens(qs[i]) \in Path
    BY <2>1, TokensType
  <2> QED
    BY <2>1, <2>2
<1>3. Slash \o Tokens(n) \in Path
  BY TokensType
<1>4. Pieces(ms) = Append(Pieces(ns), Slash \o Tokens(n))
  <2> DEFINE P == Pieces(ms)
             Q == Append(Pieces(ns), Slash \o Tokens(n))
  <2>1. Q \in Seq(Path) /\ Len(Q) = Len(ns) + 1
        /\ (\A i \in 1 .. Len(ns) : Q[i] = Pieces(ns)[i]) /\ Q[Len(ns) + 1] = Slash \o Tokens(n)
    <3>1. Pieces(ns) \in Seq(Path) /\ Len(Pieces(ns)) = Len(ns)
      BY <1>2
    <3> HIDE DEF Pieces
    <3> QED
      BY <1>3, <3>1, AppendProperties
  <2>2. P \in Seq(Path) /\ Len(P) = Len(ns) + 1
        /\ \A i \in 1 .. Len(ns) + 1 : P[i] = Slash \o Tokens(ms[i])
    BY <1>1, <1>2
  <2>3. \A i \in 1 .. Len(ns) : Pieces(ns)[i] = Slash \o Tokens(ms[i])
    BY <1>1, <1>2
  <2> HIDE DEF P, Q, Pieces
  <2>4. ASSUME NEW i \in 1 .. Len(P) PROVE P[i] = Q[i]
    <3>1. CASE i = Len(ns) + 1
      BY <1>1, <2>1, <2>2, <3>1
    <3>2. CASE i # Len(ns) + 1
      <4>1. i \in 1 .. Len(ns) /\ i \in 1 .. Len(ns) + 1
        BY <1>1, <2>2, <3>2
      <4>2. P[i] = Slash \o Tokens(ms[i])
        BY <2>2, <4>1
      <4>3. Q[i] = Slash \o Tokens(ms[i])
        BY <2>1, <2>3, <4>1
      <4> QED
        BY <4>2, <4>3
    <3> QED
      BY <3>1, <3>2
  <2>5. P = Q
    BY <2>1, <2>2, <2>4, SeqEqual
  <2> QED
    BY <2>5 DEF P, Q
<1>5. Slashed(ns) = FlattenSeq(Pieces(ns)) /\ Slashed(ms) = FlattenSeq(Pieces(ms))
  BY DEF Slashed
<1>6. Pieces(ns) \in Seq(Path)
  BY <1>2
<1> HIDE DEF Pieces
<1> QED
  BY <1>3, <1>4, <1>5, <1>6, FlattenAppend DEF ms, Path, Down

\* A path that is not empty begins with a slash, has a name behind it, and
\* does not end in a slash.
IsPath(p) == Len(p) >= 2 /\ p[1] = "/" /\ p[2] # "/" /\ p[Len(p)] # "/"

LEMMA SlashedShape ==
    /\ Slashed(<<>>) = <<>>
    /\ \A ns \in Seq(Name) : Slashed(ns) \in Path /\ (ns # <<>> => IsPath(Slashed(ns)))
<1> DEFINE T == {ns \in Seq(Name) : /\ Slashed(ns) \in Path
                                    /\ ns # <<>> => IsPath(Slashed(ns))}
<1>1. Slashed(<<>>) = <<>>
  <2>1. [i \in DOMAIN <<>> |-> Slash \o Tokens(<<>>[i])] = <<>>
    OBVIOUS
  <2> QED
    BY <2>1, FlattenType DEF Slashed
<1>2. <<>> \in T
  BY <1>1, EmptySeq DEF Path
<1>3. ASSUME NEW ns \in T, NEW n \in Name PROVE Append(ns, n) \in T
  <2> DEFINE K == Slashed(ns)
             E == Slash \o Tokens(n)
             P == K \o E
  <2>1. ns \in Seq(Name) /\ K \in Path /\ (ns # <<>> => IsPath(K))
    OBVIOUS
  <2>2. Append(ns, n) \in Seq(Name) /\ Slashed(Append(ns, n)) = P
    BY <2>1, SlashedAppend, AppendProperties DEF Down
  <2>3. /\ E \in Path /\ Len(E) \in Nat /\ Len(E) >= 2
        /\ E[1] = "/" /\ E[2] # "/" /\ E[Len(E)] # "/"
    <3>1. 1 \in 1 .. Len(Tokens(n)) /\ Len(Tokens(n)) \in 1 .. Len(Tokens(n))
      BY TokensType
    <3>2. E[1 + 1] # "/" /\ E[Len(Tokens(n)) + 1] # "/"
      BY <3>1, TokensType
    <3> QED
      BY <3>2, TokensType
  <2> HIDE DEF E
  <2>4. /\ P \in Path /\ Len(K) \in Nat /\ Len(P) = Len(K) + Len(E)
        /\ \A i \in 1 .. Len(K) + Len(E) : P[i] = IF i <= Len(K) THEN K[i] ELSE E[i - Len(K)]
    BY <2>1, <2>3, ConcatProperties, LenProperties DEF Path
  <2> HIDE DEF P
  <2>5. P[Len(P)] # "/"
    <3>1. Len(P) \in 1 .. Len(K) + Len(E) /\ ~(Len(P) <= Len(K)) /\ Len(P) - Len(K) = Len(E)
      BY <2>3, <2>4
    <3> QED
      BY <2>3, <2>4, <3>1
  <2>6. P[1] = "/" /\ P[2] # "/"
    <3>1. 1 \in 1 .. Len(K) + Len(E) /\ 2 \in 1 .. Len(K) + Len(E)
      BY <2>3, <2>4
    <3>2. CASE ns = <<>>
      <4>1. Len(K) = 0 /\ ~(1 <= 0) /\ ~(2 <= 0) /\ 1 - 0 = 1 /\ 2 - 0 = 2
        BY <1>1, <3>2, EmptySeq
      <4> QED
        BY <2>3, <2>4, <3>1, <4>1
    <3>3. CASE ns # <<>>
      <4>1. Len(K) >= 2 /\ K[1] = "/" /\ K[2] # "/"
        BY <2>1, <3>3 DEF IsPath
      <4> HIDE DEF K
      <4>2. 1 <= Len(K) /\ 2 <= Len(K)
        BY <2>4, <4>1
      <4> QED
        BY <2>4, <3>1, <4>1, <4>2
    <3> QED
      BY <3>2, <3>3
  <2>7. Len(P) >= 2
    BY <2>3, <2>4
  <2> QED
    BY <2>2, <2>4, <2>5, <2>6, <2>7 DEF IsPath
<1> HIDE DEF T
<1>4. T \in SUBSET Seq(Name)
  BY DEF T
<1>5. T = Seq(Name)
  BY <1>2, <1>3, <1>4, SequencesByInduction
<1> QED
  BY <1>1, <1>5 DEF T

LEMMA LastSlash ==
    ASSUME NEW x \in Path, NEW n \in Name
    PROVE  /\ Len(x) \in Nat /\ Len(Down(x, n)) \in Nat /\ Len(Down(x, n)) >= Len(x) + 1
           /\ \A i \in 1 .. Len(x) : Down(x, n)[i] = x[i]
           /\ Down(x, n)[Len(x) + 1] = "/"
           /\ \A i \in Len(x) + 2 .. Len(Down(x, n)) : Down(x, n)[i] # "/"
<1> DEFINE U == Slash \o Tokens(n)
           w == Len(Tokens(n))
<1>1. /\ w \in Nat /\ U \in Path /\ Len(U) = w + 1 /\ U[1] = "/"
      /\ \A i \in 1 .. w : U[i + 1] # "/"
  BY TokensType
<1>2. Down(x, n) = x \o U
  BY DEF Down
<1> HIDE DEF U, w
<1>3. /\ Len(x) \in Nat /\ Len(x \o U) = Len(x) + Len(U)
      /\ \A i \in 1 .. Len(x) : (x \o U)[i] = x[i]
      /\ \A i \in 1 .. Len(U) : (x \o U)[Len(x) + i] = U[i]
  BY <1>1, PathJoin
<1>4. (x \o U)[Len(x) + 1] = "/"
  <2>1. 1 \in 1 .. Len(U)
    BY <1>1
  <2> QED
    BY <1>1, <1>3, <2>1
<1>5. ASSUME NEW i \in Len(x) + 2 .. Len(x \o U) PROVE (x \o U)[i] # "/"
  <2> DEFINE k == i - Len(x) - 1
  <2>1. k \in 1 .. w /\ k + 1 \in 1 .. Len(U) /\ Len(x) + (k + 1) = i
    BY <1>1, <1>3
  <2> HIDE DEF k
  <2>2. (x \o U)[Len(x) + (k + 1)] = U[k + 1] /\ U[k + 1] # "/"
    BY <1>1, <1>3, <2>1
  <2> QED
    BY <2>1, <2>2
<1>6. Len(x \o U) \in Nat /\ Len(x \o U) >= Len(x) + 1
  BY <1>1, <1>3
<1> QED
  BY <1>2, <1>3, <1>4, <1>5, <1>6

\* The last slash tells the last name.
LEMMA LastPieceIsUnique ==
    ASSUME NEW x \in Path, NEW y \in Path, NEW m \in Name, NEW n \in Name,
           Down(x, m) = Down(y, n)
    PROVE  x = y /\ m = n
<1> DEFINE s == Down(x, m)
<1>1. /\ Len(x) \in Nat /\ Len(s) \in Nat /\ Len(s) >= Len(x) + 1
      /\ \A i \in 1 .. Len(x) : s[i] = x[i]
      /\ s[Len(x) + 1] = "/"
      /\ \A i \in Len(x) + 2 .. Len(s) : s[i] # "/"
  BY LastSlash
<1>2. /\ Len(y) \in Nat /\ Len(s) >= Len(y) + 1
      /\ \A i \in 1 .. Len(y) : s[i] = y[i]
      /\ s[Len(y) + 1] = "/"
      /\ \A i \in Len(y) + 2 .. Len(s) : s[i] # "/"
  BY LastSlash
<1> HIDE DEF s
<1>3. Len(x) = Len(y)
  <2>1. Len(x) + 1 \in Len(y) + 2 .. Len(s) \/ Len(y) + 1 \in Len(x) + 2 .. Len(s) \/ Len(x) = Len(y)
    BY <1>1, <1>2
  <2> QED
    BY <1>1, <1>2, <2>1
<1>4. x = y
  <2>1. \A i \in 1 .. Len(x) : x[i] = y[i]
    BY <1>1, <1>2, <1>3
  <2> QED
    BY <1>3, <2>1, SeqEqual DEF Path
<1>5. Tokens(m) = Tokens(n)
  <2>1. /\ Slash \in Path /\ Tokens(m) \in Path /\ Tokens(n) \in Path
        /\ Slash \o Tokens(m) \in Path /\ Slash \o Tokens(n) \in Path
    BY TokensType, SlashType
  <2>2. x \o (Slash \o Tokens(m)) = x \o (Slash \o Tokens(n))
    BY <1>4 DEF Down
  <2>3. Slash \o Tokens(m) = Slash \o Tokens(n)
    BY <2>1, <2>2, ConcatSimplifications DEF Path
  <2> QED
    BY <2>1, <2>3, ConcatSimplifications DEF Path
<1> QED
  BY <1>4, <1>5, AssetPathsAssumption

\* So a path tells its names.
LEMMA SlashedInjective ==
    ASSUME NEW ns \in Seq(Name), NEW ms \in Seq(Name), Slashed(ns) = Slashed(ms)
    PROVE  ns = ms
<1> DEFINE T == {as \in Seq(Name) : \A bs \in Seq(Name) : Slashed(as) = Slashed(bs) => as = bs}
<1>1. <<>> \in T
  <2>1. ASSUME NEW bs \in Seq(Name), Slashed(bs) = <<>> PROVE bs = <<>>
    BY <2>1, SlashedShape, EmptySeq DEF IsPath
  <2> QED
    BY <2>1, SlashedShape, EmptySeq
<1>2. ASSUME NEW as \in T, NEW m \in Name PROVE Append(as, m) \in T
  <2>1. as \in Seq(Name) /\ Append(as, m) \in Seq(Name) /\ Append(as, m) # <<>>
    BY AppendProperties
  <2>2. \A bs \in Seq(Name) : Slashed(as) = Slashed(bs) => as = bs
    OBVIOUS
  <2>3. SUFFICES ASSUME NEW bs \in Seq(Name), Slashed(Append(as, m)) = Slashed(bs)
                 PROVE  Append(as, m) = bs
    BY <2>1
  <2> HIDE DEF T
  <2>4. bs # <<>>
    <3>1. Len(Slashed(bs)) >= 2 /\ Len(<<>>) = 0
      BY <2>1, <2>3, SlashedShape, EmptySeq DEF IsPath
    <3> QED
      BY <3>1, SlashedShape
  <2>5. PICK cs \in Seq(Name), n \in Name : bs = Append(cs, n)
    BY <2>4, SequenceEmptyOrAppend
  <2>6. Down(Slashed(as), m) = Down(Slashed(cs), n)
    <3>1. Slashed(Append(as, m)) = Down(Slashed(as), m)
      BY <2>1, SlashedAppend
    <3>2. Slashed(Append(cs, n)) = Down(Slashed(cs), n)
      BY SlashedAppend
    <3> QED
      BY <2>3, <2>5, <3>1, <3>2
  <2>7. Slashed(as) = Slashed(cs) /\ m = n
    <3> DEFINE x == Slashed(as)
               y == Slashed(cs)
    <3>1. x \in Path /\ y \in Path
      BY <2>1, SlashedShape
    <3>2. Down(x, m) = Down(y, n)
      BY <2>6
    <3> HIDE DEF x, y
    <3>3. x = y /\ m = n
      BY <3>1, <3>2, LastPieceIsUnique
    <3> QED
      BY <3>3 DEF x, y
  <2> QED
    BY <2>2, <2>5, <2>7
<1> HIDE DEF T
<1>3. T \in SUBSET Seq(Name)
  BY DEF T
<1>4. T = Seq(Name)
  BY <1>1, <1>2, <1>3, SequencesByInduction
<1> QED
  BY <1>4 DEF T

-----------------------------------------------------------------------------
(* The walk.                                                                *)

LEMMA PrefixType ==
    ASSUME NEW S, NEW f \in Seq(S), NEW n \in 0 .. Len(f)
    PROVE  /\ Len(f) \in Nat /\ SubSeq(f, 1, n) \in Seq(S) /\ Len(SubSeq(f, 1, n)) = n
           /\ \A i \in 1 .. n : SubSeq(f, 1, n)[i] = f[i]
<1>1. Len(f) \in Nat /\ \A i \in 1 .. Len(f) : f[i] \in S
  BY LenProperties, ElementOfSeq
<1>2. 1 \in Int /\ n \in Int /\ \A i \in 1 .. n : f[i] \in S
  BY <1>1
<1>3. /\ SubSeq(f, 1, n) \in Seq(S)
      /\ Len(SubSeq(f, 1, n)) = IF 1 <= n THEN n - 1 + 1 ELSE 0
      /\ \A i \in 1 .. n - 1 + 1 : SubSeq(f, 1, n)[i] = f[1 + i - 1]
  BY <1>2, SubSeqProperties
<1>4. n - 1 + 1 = n /\ (n < 1 => n = 0) /\ \A i \in 1 .. n : 1 + i - 1 = i
  BY <1>1
<1> QED
  BY <1>1, <1>3, <1>4

LEMMA PrefixMeans ==
    ASSUME NEW S, NEW f \in Seq(S), NEW g \in Seq(S)
    PROVE  IsPrefix(g, f) <=> Len(g) <= Len(f) /\ g = SubSeq(f, 1, Len(g))
<1>1. SubSeq(g, 1, Len(g)) = g
  BY SubSeqFull
<1> QED
  BY <1>1 DEF IsPrefix

LEMMA PrefixIsTransitive ==
    ASSUME NEW S, NEW f \in Seq(S), NEW g \in Seq(S), NEW h \in Seq(S),
           IsPrefix(f, g), IsPrefix(g, h)
    PROVE  IsPrefix(f, h)
<1>1. /\ Len(f) <= Len(g) /\ f = SubSeq(g, 1, Len(f))
      /\ Len(g) <= Len(h) /\ g = SubSeq(h, 1, Len(g))
      /\ Len(f) \in Nat /\ Len(g) \in Nat /\ Len(h) \in Nat
  BY PrefixMeans, LenProperties
<1>2. /\ Len(f) \in 0 .. Len(g) /\ Len(f) \in 0 .. Len(h) /\ Len(g) \in 0 .. Len(h)
      /\ 1 .. Len(f) \subseteq 1 .. Len(g)
  BY <1>1
<1> DEFINE w == SubSeq(h, 1, Len(f))
<1>3. w \in Seq(S) /\ Len(w) = Len(f) /\ \A i \in 1 .. Len(f) : w[i] = h[i]
  BY <1>2, PrefixType
<1>4. \A i \in 1 .. Len(g) : g[i] = h[i]
  BY <1>1, <1>2, PrefixType
<1>5. \A i \in 1 .. Len(f) : f[i] = g[i]
  BY <1>1, <1>2, PrefixType
<1> HIDE DEF w
<1>6. w = f
  <2>1. \A i \in 1 .. Len(w) : w[i] = f[i]
    BY <1>2, <1>3, <1>4, <1>5
  <2> QED
    BY <1>3, <2>1, SeqEqual
<1>7. Len(f) <= Len(h)
  BY <1>1
<1> QED
  BY <1>6, <1>7, PrefixMeans DEF w

\* What is read of a directory d on the way to a file f.
LEMMA EntryType ==
    ASSUME NEW S, NEW d \in Seq(S), NEW f \in Seq(S), IsStrictPrefix(d, f),
           NEW e, e = SubSeq(f, 1, Len(d) + 1)
    PROVE  /\ Len(d) \in Nat /\ Len(f) \in Nat /\ Len(d) < Len(f)
           /\ e \in Seq(S) /\ Len(e) = Len(d) + 1 /\ e[Len(e)] = f[Len(d) + 1]
           /\ \A n \in 1 .. Len(d) : SubSeq(e, 1, n) = SubSeq(d, 1, n)
           /\ SubSeq(e, 1, Len(e)) = e
           /\ IsPrefix(e, f) /\ (e # f => IsStrictPrefix(e, f))
<1>1. Len(d) \in Nat /\ Len(f) \in Nat
  BY LenProperties
<1>2. Len(d) <= Len(f) /\ d = SubSeq(f, 1, Len(d)) /\ d # f
  BY PrefixMeans DEF IsStrictPrefix
<1>3. Len(d) # Len(f)
  BY <1>2, SubSeqFull
<1>4. Len(d) < Len(f)
  BY <1>1, <1>2, <1>3
<1>5. Len(d) + 1 \in 0 .. Len(f) /\ Len(d) \in 0 .. Len(f) /\ Len(d) + 1 \in 1 .. Len(d) + 1
  BY <1>1, <1>4
<1>6. e \in Seq(S) /\ Len(e) = Len(d) + 1 /\ \A i \in 1 .. Len(d) + 1 : e[i] = f[i]
  BY <1>5, PrefixType
<1>7. \A i \in 1 .. Len(d) : d[i] = f[i]
  BY <1>2, <1>5, PrefixType
<1>8. ASSUME NEW n \in 1 .. Len(d) PROVE SubSeq(e, 1, n) = SubSeq(d, 1, n)
  <2>1. n \in 0 .. Len(d) /\ n \in 0 .. Len(e) /\ \A i \in 1 .. n : i \in 1 .. Len(d) /\ i \in 1 .. Len(d) + 1
    BY <1>1, <1>6
  <2>2. /\ SubSeq(e, 1, n) \in Seq(S) /\ Len(SubSeq(e, 1, n)) = n
        /\ \A i \in 1 .. n : SubSeq(e, 1, n)[i] = e[i]
    BY <1>6, <2>1, PrefixType
  <2>3. /\ SubSeq(d, 1, n) \in Seq(S) /\ Len(SubSeq(d, 1, n)) = n
        /\ \A i \in 1 .. n : SubSeq(d, 1, n)[i] = d[i]
    BY <2>1, PrefixType
  <2>4. \A i \in 1 .. n : SubSeq(e, 1, n)[i] = SubSeq(d, 1, n)[i]
    BY <1>6, <1>7, <2>1, <2>2, <2>3
  <2> QED
    BY <2>2, <2>3, <2>4, SeqEqual
<1>9. SubSeq(e, 1, Len(e)) = e
  BY <1>6, SubSeqFull
<1>10. IsPrefix(e, f)
  <2>1. Len(e) <= Len(f) /\ e = SubSeq(f, 1, Len(e))
    BY <1>1, <1>4, <1>6
  <2> QED
    BY <1>6, <2>1, PrefixMeans
<1> QED
  BY <1>1, <1>4, <1>5, <1>6, <1>8, <1>9, <1>10 DEF IsStrictPrefix

\* No directory above f, nor f itself, is passed over.
Clean(f) == \A n \in 1 .. Len(f) : ~Skipped(SubSeq(f, 1, n))

LEMMA CleanEntry ==
    ASSUME NEW d \in Seq(Name), NEW f \in Seq(Name), IsStrictPrefix(d, f),
           NEW e, e = SubSeq(f, 1, Len(d) + 1), Clean(d), ~Skipped(e)
    PROVE  Clean(e)
<1>1. /\ Len(d) \in Nat /\ Len(e) = Len(d) + 1
      /\ \A n \in 1 .. Len(d) : SubSeq(e, 1, n) = SubSeq(d, 1, n)
      /\ SubSeq(e, 1, Len(e)) = e
  BY EntryType
<1>2. 1 .. Len(e) = (1 .. Len(d)) \cup {Len(e)}
  BY <1>1
<1> QED
  BY <1>1, <1>2 DEF Clean

LEMMA CleanWay ==
    ASSUME NEW d \in Seq(Name), NEW f \in Seq(Name), IsStrictPrefix(d, f), Clean(f)
    PROVE  ~Skipped(SubSeq(f, 1, Len(d) + 1))
<1>1. Len(d) \in Nat /\ Len(f) \in Nat /\ Len(d) < Len(f)
  <2> DEFINE e == SubSeq(f, 1, Len(d) + 1)
  <2>1. e = SubSeq(f, 1, Len(d) + 1)
    OBVIOUS
  <2> HIDE DEF e
  <2> QED
    BY <2>1, EntryType
<1>2. Len(d) + 1 \in 1 .. Len(f)
  BY <1>1
<1> QED
  BY <1>2 DEF Clean

-----------------------------------------------------------------------------
\* The walk has what is clean behind it or ahead of it.
FilesAreClean == \A f \in files : Clean(f)
WalkIsClean == \A d \in dirs : d \in Seq(Name) /\ Clean(d)
CleanIsAhead == \A f \in tree : Clean(f) => f \in files \/ \E d \in dirs : IsStrictPrefix(d, f)

WalkInv == TypeOK /\ FilesAreClean /\ WalkIsClean /\ CleanIsAhead

LEMMA TreeType ==
    ASSUME tree \in Tree, NEW f \in tree
    PROVE  f \in Seq(Name) /\ f # <<>> /\ \A g \in tree : IsPrefix(f, g) => f = g
BY AssetPathsAssumption

LEMMA RootIsAbove ==
    ASSUME NEW f \in Seq(Name), f # <<>>
    PROVE  IsStrictPrefix(<<>>, f)
<1>1. <<>> \in Seq(Name) /\ Len(<<>>) = 0 /\ Len(f) \in Nat
  BY EmptySeq, LenProperties
<1>2. SubSeq(f, 1, 0) = <<>> /\ SubSeq(<<>>, 1, 0) = <<>>
  BY SubSeqEmpty
<1> QED
  BY <1>1, <1>2 DEF IsPrefix, IsStrictPrefix

LEMMA WalkInit == Init => WalkInv
<1> SUFFICES ASSUME Init PROVE WalkInv
  OBVIOUS
<1>1. tree \in Tree /\ build \in BuildConfig /\ dirs = {<<>>} /\ files = {}
  BY DEF Init
<1>2. <<>> \in Seq(Name) /\ Len(<<>>) = 0
  BY EmptySeq
<1>3. Clean(<<>>)
  BY <1>2 DEF Clean
<1>4. \A f \in tree : IsStrictPrefix(<<>>, f)
  BY <1>1, TreeType, RootIsAbove
<1> QED
  BY <1>1, <1>2, <1>3, <1>4 DEF WalkInv, TypeOK, FilesAreClean, WalkIsClean, CleanIsAhead

LEMMA ReadDirKeeps ==
    ASSUME WalkInv, NEW d \in dirs, ReadDir(d)
    PROVE  WalkInv'
<1>1. /\ tree' = tree /\ build' = build
      /\ files' = files \cup (Visible(d) \cap tree)
      /\ dirs' = (dirs \ {d}) \cup (Visible(d) \ tree)
  BY DEF ReadDir, SubDirs
<1>2. tree \in Tree /\ build \in BuildConfig /\ d \in Seq(Name) /\ Clean(d)
  BY DEF WalkInv, TypeOK, WalkIsClean
<1>3. \A f : Clean(f)' <=> Clean(f)
  BY <1>1 DEF Clean, Skipped, IgnoredPath
<1>4. ASSUME NEW e \in Visible(d)
      PROVE  /\ e \in Seq(Name) /\ Clean(e)
             /\ e \notin tree => \E f \in tree : IsStrictPrefix(e, f)
  <2>1. PICK f \in tree : IsStrictPrefix(d, f) /\ e = SubSeq(f, 1, Len(d) + 1) /\ ~Skipped(e)
    BY DEF Visible, Entries
  <2>2. f \in Seq(Name)
    BY <1>2, TreeType
  <2>3. e \in Seq(Name) /\ (e # f => IsStrictPrefix(e, f))
    BY <1>2, <2>1, <2>2, EntryType
  <2>4. Clean(e)
    <3>1. IsStrictPrefix(d, f) /\ e = SubSeq(f, 1, Len(d) + 1) /\ ~Skipped(e) /\ Clean(d)
      BY <1>2, <2>1
    <3>2. d \in Seq(Name) /\ f \in Seq(Name)
      BY <1>2, <2>2
    <3> HIDE <1>2, <2>1
    <3> QED
      BY <3>1, <3>2, CleanEntry
  <2> QED
    BY <2>3, <2>4
<1>5. TypeOK'
  <2>1. files' \subseteq tree
    BY <1>1 DEF WalkInv, TypeOK
  <2>2. \A c \in dirs' : c = <<>> \/ \E f \in tree : IsStrictPrefix(c, f)
    BY <1>1, <1>4 DEF WalkInv, TypeOK
  <2> QED
    BY <1>1, <1>2, <2>1, <2>2 DEF TypeOK
<1>6. FilesAreClean' /\ WalkIsClean'
  BY <1>1, <1>3, <1>4 DEF WalkInv, FilesAreClean, WalkIsClean
<1>7. CleanIsAhead'
  <2> SUFFICES ASSUME NEW f \in tree, Clean(f), f \notin files'
               PROVE  \E c \in dirs' : IsStrictPrefix(c, f)
    BY <1>1, <1>3 DEF CleanIsAhead
  <2>1. PICK c \in dirs : IsStrictPrefix(c, f)
    BY <1>1 DEF WalkInv, CleanIsAhead
  <2>2. CASE c # d
    BY <1>1, <2>1, <2>2
  <2>3. CASE c = d
    <3> DEFINE e == SubSeq(f, 1, Len(d) + 1)
    <3>1. f \in Seq(Name) /\ IsStrictPrefix(d, f)
      BY <1>2, <2>1, <2>3, TreeType
    <3>2. IsPrefix(e, f) /\ (e # f => IsStrictPrefix(e, f))
      BY <1>2, <3>1, EntryType
    <3>3. ~Skipped(e)
      <4>1. Clean(f) /\ d \in Seq(Name)
        BY <1>2
      <4> QED
        BY <3>1, <4>1, CleanWay
    <3>4. e \in Visible(d)
      BY <3>1, <3>3 DEF Visible, Entries
    <3>5. e \notin tree
      BY <1>1, <1>2, <3>2, <3>4, TreeType
    <3> QED
      BY <1>1, <3>2, <3>4, <3>5
  <2> QED
    BY <2>2, <2>3
<1> QED
  BY <1>5, <1>6, <1>7 DEF WalkInv

\* The inductive invariant: what the walk finds and enters is not passed over,
\* and a file that is not passed over is found or below a directory still to
\* be read.
THEOREM WalkInvariant == Spec => []WalkInv
<1>1. WalkInv /\ [Next]_vars => WalkInv'
  <2>1. CASE Next
    BY <2>1, ReadDirKeeps DEF Next
  <2>2. CASE UNCHANGED vars
    BY <2>2 DEF vars, WalkInv, TypeOK, FilesAreClean, WalkIsClean, CleanIsAhead, Clean,
                Skipped, IgnoredPath
  <2> QED
    BY <2>1, <2>2
<1> QED
  BY WalkInit, <1>1, PTL DEF Spec

\* Types; the walk enters only directories and finds only files of the tree.
THEOREM WalkIsTyped == Spec => []TypeOK
<1>1. WalkInv => TypeOK
  BY DEF WalkInv
<1> QED
  BY WalkInvariant, <1>1, PTL

-----------------------------------------------------------------------------
\* An ignored path is one path and not two: publicDir's own names do not occur
\* again below it, so that a path written from the root names nothing else.
NotNested ==
    \/ publicDir = <<>>
    \/ /\ \A t \in Tree : \A f \in t : ~IsPrefix(publicDir, f)
       /\ \A c \in BuildConfig : \A ig \in c.ignorePaths : ~IsPrefix(publicDir, ig.means)

LEMMA PrefixOfConcat ==
    ASSUME NEW S, NEW x \in Seq(S), NEW y \in Seq(S)
    PROVE  /\ x \o y \in Seq(S) /\ Len(x) \in Nat /\ Len(x) <= Len(x \o y)
           /\ SubSeq(x \o y, 1, Len(x)) = x /\ IsPrefix(x, x \o y)
<1>1. /\ x \o y \in Seq(S) /\ Len(x) \in Nat /\ Len(y) \in Nat /\ Len(x \o y) = Len(x) + Len(y)
      /\ \A i \in 1 .. Len(x) + Len(y) : (x \o y)[i] = IF i <= Len(x) THEN x[i] ELSE y[i - Len(x)]
  BY ConcatProperties, LenProperties
<1> DEFINE z == x \o y
           w == SubSeq(z, 1, Len(x))
<1>2. z \in Seq(S) /\ Len(x) \in 0 .. Len(z) /\ Len(x) <= Len(z)
      /\ \A i \in 1 .. Len(x) : z[i] = x[i]
  <2>1. \A i \in 1 .. Len(x) : i \in 1 .. Len(x) + Len(y) /\ i <= Len(x)
    BY <1>1
  <2> QED
    BY <1>1, <2>1
<1> HIDE DEF z
<1>3. w \in Seq(S) /\ Len(w) = Len(x) /\ \A i \in 1 .. Len(x) : w[i] = z[i]
  BY <1>2, PrefixType
<1>4. w = x
  <2> HIDE DEF w
  <2>1. \A i \in 1 .. Len(w) : w[i] = x[i]
    BY <1>2, <1>3
  <2> QED
    BY <1>3, <2>1, SeqEqual
<1>5. IsPrefix(x, z)
  <2>1. x = SubSeq(z, 1, Len(x))
    BY <1>4
  <2> QED
    BY <1>2, <2>1, PrefixMeans
<1> QED
  BY <1>1, <1>2, <1>4, <1>5 DEF z

\* A path that is written one way or the other ignores the names it stands for.
LEMMA IgnoredPathMeans ==
    ASSUME NotNested, build \in BuildConfig, tree \in Tree,
           NEW f \in tree, NEW p \in Seq(Name), IsPrefix(p, f), p # <<>>
    PROVE  IgnoredPath(p) <=> \E ig \in build.ignorePaths : ig.means = p
<1>1. publicDir \in Seq(Name) /\ f \in Seq(Name)
  BY AssetPathsAssumption
<1>2. publicDir \o p \in Seq(Name)
  BY <1>1, PrefixOfConcat
<1>3. SUFFICES ASSUME NEW ig \in build.ignorePaths
               PROVE  NormalizePath(ig.written) \in {Slashed(p), Slashed(publicDir \o p)}
                        <=> ig.means = p
  BY DEF IgnoredPath
<1>4. /\ ig.means \in Seq(Name)
      /\ NormalizePath(ig.written) \in {Slashed(ig.means), Slashed(publicDir \o ig.means)}
  BY AssetPathsAssumption
<1> DEFINE m == ig.means
           v == NormalizePath(ig.written)
<1>5. publicDir # <<>> => ~IsPrefix(publicDir, f) /\ ~IsPrefix(publicDir, m)
  BY DEF NotNested
<1>6. m \in Seq(Name) /\ v \in {Slashed(m), Slashed(publicDir \o m)}
  BY <1>4
<1> HIDE DEF m, v
<1>7. publicDir \o m \in Seq(Name)
  BY <1>1, <1>6, PrefixOfConcat
<1>8. m = p => v \in {Slashed(p), Slashed(publicDir \o p)}
  BY <1>6
<1>9. ASSUME publicDir \o m = publicDir \o p PROVE m = p
  BY <1>1, <1>6, <1>9, ConcatSimplifications
<1>10. ASSUME m = publicDir \o p PROVE m = p
  <2>1. publicDir = <<>>
    <3>1. IsPrefix(publicDir, publicDir \o p)
      BY <1>1, PrefixOfConcat
    <3> QED
      BY <1>5, <1>10, <3>1
  <2> QED
    BY <1>10, <2>1, ConcatEmptySeq
<1>11. ASSUME p = publicDir \o m PROVE m = p
  <2>1. publicDir = <<>>
    <3>1. IsPrefix(publicDir, p)
      <4>1. IsPrefix(publicDir, publicDir \o m)
        BY <1>1, <1>6, PrefixOfConcat
      <4> QED
        BY <1>11, <4>1
    <3>2. IsPrefix(publicDir, f)
      BY <1>1, <3>1, PrefixIsTransitive
    <3> QED
      BY <1>5, <3>2
  <2> QED
    BY <1>6, <1>11, <2>1, ConcatEmptySeq
<1>12. ASSUME v \in {Slashed(p), Slashed(publicDir \o p)} PROVE m = p
  <2>1. CASE v = Slashed(m) /\ v = Slashed(p)
    BY <1>6, <2>1, SlashedInjective
  <2>2. CASE v = Slashed(m) /\ v = Slashed(publicDir \o p)
    BY <1>2, <1>6, <1>10, <2>2, SlashedInjective
  <2>3. CASE v = Slashed(publicDir \o m) /\ v = Slashed(p)
    BY <1>7, <1>11, <2>3, SlashedInjective
  <2>4. CASE v = Slashed(publicDir \o m) /\ v = Slashed(publicDir \o p)
    BY <1>2, <1>7, <1>9, <2>4, SlashedInjective
  <2> QED
    BY <1>6, <1>12, <2>1, <2>2, <2>3, <2>4
<1> QED
  BY <1>8, <1>12 DEF m, v

\* What the walk asks of the directories on the way is what Wanted asks of the file.
LEMMA CleanIsWanted ==
    ASSUME NotNested, build \in BuildConfig, tree \in Tree, NEW f \in tree
    PROVE  Clean(f) <=> f \in Wanted
<1>1. f \in Seq(Name) /\ Len(f) \in Nat /\ DOMAIN f = 1 .. Len(f)
  BY AssetPathsAssumption, LenProperties
<1>2. ToSet(f) = {f[n] : n \in 1 .. Len(f)}
  BY <1>1 DEF ToSet
<1>3. ASSUME NEW n \in 1 .. Len(f)
      PROVE  Skipped(SubSeq(f, 1, n)) <=>
               \/ \E ig \in build.ignorePaths : ig.means = SubSeq(f, 1, n)
               \/ build.ignoreWellKnown /\ f[n] = wellKnown
               \/ build.ignoreDotFiles /\ f[n] \in DotNames \ {wellKnown}
  <2> DEFINE p == SubSeq(f, 1, n)
  <2>1. n \in 0 .. Len(f) /\ n \in 1 .. n /\ n <= Len(f) /\ n # 0
    BY <1>1
  <2>2. p \in Seq(Name) /\ Len(p) = n /\ p[n] = f[n]
    BY <1>1, <2>1, PrefixType
  <2>3. p = SubSeq(f, 1, Len(p))
    BY <2>2
  <2>4. p # <<>>
    BY <2>1, <2>2, EmptySeq
  <2> HIDE DEF p
  <2>5. IsPrefix(p, f)
    BY <1>1, <2>1, <2>2, <2>3, PrefixMeans
  <2>6. IgnoredPath(p) <=> \E ig \in build.ignorePaths : ig.means = p
    BY <2>2, <2>4, <2>5, IgnoredPathMeans
  <2>7. Last(p) = f[n]
    BY <2>2 DEF Last
  <2>8. Skipped(p) <=> \/ \E ig \in build.ignorePaths : ig.means = p
                       \/ build.ignoreWellKnown /\ f[n] = wellKnown
                       \/ build.ignoreDotFiles /\ f[n] \in DotNames \ {wellKnown}
    BY <2>6, <2>7 DEF Skipped, Hidden
  <2> QED
    BY <2>8 DEF p
<1>4. ASSUME NEW ig \in build.ignorePaths
      PROVE  IsPrefix(ig.means, f) <=> \E n \in 1 .. Len(f) : ig.means = SubSeq(f, 1, n)
  <2> DEFINE m == ig.means
  <2>1. m \in Seq(Name) /\ m # <<>>
    BY AssetPathsAssumption
  <2> HIDE DEF m
  <2>2. Len(m) \in Nat /\ Len(m) # 0
    BY <2>1, EmptySeq, LenProperties
  <2>3. IsPrefix(m, f) => \E n \in 1 .. Len(f) : m = SubSeq(f, 1, n)
    <3>1. IsPrefix(m, f) => Len(m) \in 1 .. Len(f) /\ m = SubSeq(f, 1, Len(m))
      BY <1>1, <2>1, <2>2, PrefixMeans
    <3> QED
      BY <3>1
  <2>4. ASSUME NEW n \in 1 .. Len(f), m = SubSeq(f, 1, n) PROVE IsPrefix(m, f)
    <3>1. n \in 0 .. Len(f) /\ n <= Len(f)
      BY <1>1
    <3>2. Len(m) = n
      BY <1>1, <2>4, <3>1, PrefixType
    <3>3. Len(m) <= Len(f) /\ m = SubSeq(f, 1, Len(m))
      BY <2>4, <3>1, <3>2
    <3> QED
      BY <1>1, <2>1, <3>3, PrefixMeans
  <2> QED
    BY <2>3, <2>4 DEF m
<1>5. f \in Wanted <=>
        /\ \A ig \in build.ignorePaths : \A n \in 1 .. Len(f) : ig.means # SubSeq(f, 1, n)
        /\ build.ignoreDotFiles => \A n \in 1 .. Len(f) : f[n] \notin DotNames \ {wellKnown}
        /\ build.ignoreWellKnown => \A n \in 1 .. Len(f) : f[n] # wellKnown
  <2>1. (\A ig \in build.ignorePaths : ~IsPrefix(ig.means, f)) <=>
          \A ig \in build.ignorePaths : \A n \in 1 .. Len(f) : ig.means # SubSeq(f, 1, n)
    BY <1>4
  <2>2. (ToSet(f) \cap DotNames \subseteq {wellKnown}) <=>
          \A n \in 1 .. Len(f) : f[n] \notin DotNames \ {wellKnown}
    BY <1>2
  <2>3. wellKnown \notin ToSet(f) <=> \A n \in 1 .. Len(f) : f[n] # wellKnown
    BY <1>2
  <2> QED
    BY <2>1, <2>2, <2>3 DEF Wanted
<1>6. Clean(f) <=> \A n \in 1 .. Len(f) :
        /\ \A ig \in build.ignorePaths : ig.means # SubSeq(f, 1, n)
        /\ build.ignoreWellKnown => f[n] # wellKnown
        /\ build.ignoreDotFiles => f[n] \notin DotNames \ {wellKnown}
  BY <1>3 DEF Clean
<1> QED
  BY <1>5, <1>6

\* When no directory is left, the walk has found the files that no entry on
\* their way was passed over for, whatever is ignored.
ListsWhatIsClean == Listed => files = {f \in tree : Clean(f)}

THEOREM WalkFindsTheClean == Spec => []ListsWhatIsClean
<1>1. WalkInv => ListsWhatIsClean
  BY DEF WalkInv, TypeOK, FilesAreClean, CleanIsAhead, ListsWhatIsClean, Listed
<1> QED
  BY WalkInvariant, <1>1, PTL

\* getFilesRecursively, which prunes the directories it passes over, lists
\* exactly the wanted files, told file by file.
THEOREM WalkListsTheWanted == NotNested => (Spec => []ListsWhatIsWanted)
<1> SUFFICES ASSUME NotNested PROVE Spec => []ListsWhatIsWanted
  OBVIOUS
<1>1. WalkInv => ListsWhatIsWanted
  <2> SUFFICES ASSUME WalkInv, Listed PROVE files = Wanted
    BY DEF ListsWhatIsWanted
  <2>1. build \in BuildConfig /\ tree \in Tree /\ files \subseteq tree
    BY DEF WalkInv, TypeOK
  <2>2. files = {f \in tree : Clean(f)}
    BY <2>1 DEF WalkInv, FilesAreClean, CleanIsAhead, Listed
  <2>3. \A f \in tree : Clean(f) <=> f \in Wanted
    BY <2>1, CleanIsWanted
  <2>4. Wanted \subseteq tree
    BY DEF Wanted
  <2> QED
    BY <2>2, <2>3, <2>4
<1> QED
  BY WalkInvariant, <1>1, PTL

-----------------------------------------------------------------------------
(* The lookup.                                                              *)

LEMMA SuffixOfConcat ==
    ASSUME NEW S, NEW x \in Seq(S), NEW y \in Seq(S)
    PROVE  SubSeq(x \o y, Len(x) + 1, Len(x \o y)) = y
<1> DEFINE z == x \o y
           w == SubSeq(z, Len(x) + 1, Len(z))
<1>1. /\ Len(x) \in Nat /\ Len(y) \in Nat /\ Len(z) = Len(x) + Len(y) /\ z \in Seq(S)
      /\ \A i \in 1 .. Len(x) + Len(y) : z[i] = IF i <= Len(x) THEN x[i] ELSE y[i - Len(x)]
  BY ConcatProperties, LenProperties
<1> HIDE DEF z
<1>2. \A i \in Len(x) + 1 .. Len(z) : z[i] \in S
  BY <1>1, ElementOfSeq
<1>3. Len(x) + 1 \in Int /\ Len(z) \in Int
  BY <1>1
<1>4. /\ w \in Seq(S)
      /\ Len(w) = IF Len(x) + 1 <= Len(z) THEN Len(z) - (Len(x) + 1) + 1 ELSE 0
      /\ \A i \in 1 .. Len(z) - (Len(x) + 1) + 1 : w[i] = z[Len(x) + 1 + i - 1]
  BY <1>2, <1>3, SubSeqProperties
<1> HIDE DEF w
<1>5. Len(w) = Len(y) /\ Len(z) - (Len(x) + 1) + 1 = Len(y)
  BY <1>1, <1>4
<1>6. ASSUME NEW i \in 1 .. Len(w) PROVE w[i] = y[i]
  <2>1. /\ i \in 1 .. Len(z) - (Len(x) + 1) + 1 /\ Len(x) + 1 + i - 1 = Len(x) + i
        /\ Len(x) + i \in 1 .. Len(x) + Len(y) /\ ~(Len(x) + i <= Len(x))
        /\ Len(x) + i - Len(x) = i
    BY <1>1, <1>5
  <2>2. w[i] = z[Len(x) + i]
    BY <1>4, <2>1
  <2> QED
    BY <1>1, <2>1, <2>2
<1>7. w = y
  BY <1>4, <1>5, <1>6, SeqEqual
<1> QED
  BY <1>7 DEF w, z

\* A pattern is no longer than the sequence it occurs in.
LEMMA OccurrenceIsShorter ==
    ASSUME NEW S, NEW x \in Seq(S), NEW r \in SubSeqs(x)
    PROVE  Len(r) <= Len(x)
<1>1. PICK i \in 0 .. Len(x), j \in 0 .. Len(x) : r = SubSeq(x, i + 1, j)
  BY DEF SubSeqs
<1>2. Len(x) \in Nat /\ \A n \in i + 1 .. j : x[n] \in S
  BY LenProperties, ElementOfSeq
<1>3. i + 1 \in Int /\ j \in Int
  BY <1>2
<1>4. Len(SubSeq(x, i + 1, j)) = IF i + 1 <= j THEN j - (i + 1) + 1 ELSE 0
  BY <1>2, <1>3, SubSeqProperties
<1>5. j - (i + 1) + 1 <= Len(x) /\ 0 <= Len(x)
  BY <1>2
<1> QED
  BY <1>1, <1>4, <1>5

LEMMA OccursAtTheStart ==
    ASSUME NEW S, NEW r \in Seq(S), NEW t \in Seq(S)
    PROVE  r \in SubSeqs(r \o t)
<1>1. /\ Len(r) \in Nat /\ Len(r \o t) \in Nat /\ Len(r) <= Len(r \o t)
      /\ SubSeq(r \o t, 1, Len(r)) = r
  <2>1. r \o t \in Seq(S) /\ Len(r) <= Len(r \o t) /\ SubSeq(r \o t, 1, Len(r)) = r
    BY PrefixOfConcat
  <2> QED
    BY <2>1, LenProperties
<1>2. 0 \in 0 .. Len(r \o t) /\ Len(r) \in 0 .. Len(r \o t) /\ 0 + 1 = 1
  BY <1>1
<1>3. SubSeq(r \o t, 0 + 1, Len(r)) = r
  BY <1>1, <1>2
<1> QED
  BY <1>2, <1>3 DEF SubSeqs

\* What a path starts with is taken off its start, also if it occurs in it again.
LEMMA ReplaceAtTheStart ==
    ASSUME NEW S, NEW r \in Seq(S), NEW t \in Seq(S), r # <<>>
    PROVE  ReplaceFirstSubSeq(<<>>, r, r \o t) = t
<1> DEFINE u == r \o t
           n == Len(r)
           First(i) == /\ r \in SubSeqs(SubSeq(u, 1, i))
                       /\ \A j \in 0 .. i - 1 : r \notin SubSeqs(SubSeq(u, 1, j))
<1>1. /\ u \in Seq(S) /\ n \in Nat /\ n <= Len(u) /\ SubSeq(u, 1, n) = r /\ Len(u) \in Nat
      /\ SubSeq(u, n + 1, Len(u)) = t
  <2>1. u \in Seq(S) /\ n \in Nat /\ n <= Len(u) /\ SubSeq(u, 1, n) = r
    BY PrefixOfConcat
  <2>2. SubSeq(u, n + 1, Len(u)) = t
    BY SuffixOfConcat
  <2> QED
    BY <2>1, <2>2, LenProperties
<1>2. r \in SubSeqs(u)
  BY OccursAtTheStart
<1>3. r \in SubSeqs(r)
  <2>1. <<>> \in Seq(S) /\ r \o <<>> = r
    BY EmptySeq, ConcatEmptySeq
  <2> QED
    BY <2>1, OccursAtTheStart
<1> HIDE DEF u
<1>4. ASSUME NEW j \in 0 .. n - 1 PROVE r \notin SubSeqs(SubSeq(u, 1, j))
  <2>1. j \in 0 .. Len(u) /\ ~(n <= j)
    BY <1>1
  <2>2. SubSeq(u, 1, j) \in Seq(S) /\ Len(SubSeq(u, 1, j)) = j
    BY <1>1, <2>1, PrefixType
  <2> QED
    BY <2>1, <2>2, OccurrenceIsShorter
<1>5. n \in 0 .. Len(u) /\ First(n)
  <2>1. r \in SubSeqs(SubSeq(u, 1, n))
    BY <1>1, <1>3
  <2> QED
    BY <1>1, <1>4, <2>1
<1>6. ASSUME NEW i \in 0 .. Len(u), First(i) PROVE i = n
  <2>0. i \in Int /\ n \in Int
    BY <1>1
  <2>1. CASE i < n
    <3>1. i \in 0 .. n - 1
      BY <1>1, <2>1
    <3> QED
      BY <1>4, <1>6, <3>1
  <2>2. CASE n < i
    <3>1. n \in 0 .. i - 1
      BY <1>1, <2>2
    <3> QED
      BY <1>1, <1>3, <1>6, <3>1
  <2> HIDE DEF n
  <2> QED
    BY <2>0, <2>1, <2>2
<1>7. (CHOOSE i \in 0 .. Len(u) : First(i)) = n
  <2> HIDE DEF First
  <2> QED
    BY <1>5, <1>6
<1>8. IndexFirstSubSeq(r, u) = n - (n - 1)
  BY <1>7 DEF IndexFirstSubSeq
<1>9. n - (n - 1) = 1 /\ 1 - 1 = 0 /\ 1 + n = n + 1
  BY <1>1
<1>10. ReplaceSubSeqAt(1, <<>>, r, u) = t
  <2>1. SubSeq(u, 1, 0) = <<>>
    BY SubSeqEmpty
  <2>2. <<>> \o <<>> = <<>> /\ <<>> \o t = t
    BY ConcatEmptySeq, EmptySeq
  <2> QED
    BY <1>1, <1>9, <2>1, <2>2 DEF ReplaceSubSeqAt
<1> QED
  BY <1>2, <1>8, <1>9, <1>10 DEF ReplaceFirstSubSeq, u

LEMMA RootedType ==
    ASSUME NEW p \in Path
    PROVE  /\ Rooted(p) \in Path /\ Rooted(p) # <<>> /\ Rooted(p)[1] = "/"
           /\ p # <<>> /\ p[1] = "/" => Rooted(p) = p
           /\ p = <<>> \/ p[1] # "/" => Rooted(p) = Slash \o p
<1>1. Slash \in Path /\ Len(Slash) = 1 /\ Slash[1] = "/"
  BY SlashType
<1>2. IsPrefix(Slash, p) <=> p # <<>> /\ p[1] = "/"
  <2>1. IsPrefix(Slash, p) <=> 1 <= Len(p) /\ Slash = SubSeq(p, 1, 1)
    BY <1>1, PrefixMeans DEF Path
  <2>2. Len(p) \in Nat /\ (p = <<>> <=> Len(p) = 0)
    BY LenProperties, EmptySeq DEF Path
  <2>3. ASSUME 1 <= Len(p) PROVE Slash = SubSeq(p, 1, 1) <=> p[1] = "/"
    <3>1. 1 \in 0 .. Len(p) /\ 1 \in 1 .. 1
      BY <2>2, <2>3
    <3> DEFINE w == SubSeq(p, 1, 1)
    <3>2. w \in Path /\ Len(w) = 1 /\ w[1] = p[1]
      BY <3>1, PrefixType DEF Path
    <3> HIDE DEF w
    <3>3. ASSUME w[1] = "/" PROVE Slash = w
      <4>1. \A i \in 1 .. Len(w) : w[i] = Slash[i]
        BY <1>1, <3>2, <3>3
      <4> QED
        BY <1>1, <3>2, <4>1, SeqEqual DEF Path
    <3> QED
      BY <1>1, <3>2, <3>3 DEF w
  <2> QED
    BY <2>1, <2>2, <2>3
<1>3. /\ Slash \o p \in Path /\ Len(Slash \o p) >= 1 /\ (Slash \o p)[1] = "/"
  <2> DEFINE a == Slash
  <2>1. a \in Path /\ Len(a) = 1 /\ a[1] = "/"
    BY <1>1
  <2> HIDE DEF a
  <2>2. /\ a \o p \in Path /\ Len(a \o p) = Len(a) + Len(p) /\ Len(p) \in Nat
        /\ \A i \in 1 .. Len(a) : (a \o p)[i] = a[i]
    BY <2>1, PathJoin
  <2>3. Len(a \o p) >= 1 /\ (a \o p)[1] = "/"
    BY <2>1, <2>2
  <2> QED
    BY <2>2, <2>3 DEF a
<1>4. Slash \o p # <<>>
  BY <1>3, EmptySeq
<1> QED
  BY <1>2, <1>3, <1>4 DEF Rooted

\* NoTrailingSlash leaves what does not end in a slash and takes one slash off.
LEMMA LastTokenKept ==
    ASSUME NEW q \in Path
    PROVE  /\ NoTrailingSlash(q) \in Path
           /\ q = <<>> \/ q[Len(q)] # "/" =>
                NoTrailingSlash(q) = q /\ NoTrailingSlash(q \o Slash) = q
<1> DEFINE I(x) == {0} \cup {i \in DOMAIN x : x[i] # "/"}
<1>1. ASSUME NEW x \in Path, NEW m \in I(x), \A i \in I(x) : i <= m
      PROVE  Max(I(x)) = m
  <2>1. I(x) \subseteq Int
    BY LenProperties DEF Path
  <2> HIDE DEF I
  <2>2. m \in I(x) /\ \A i \in I(x) : m >= i
    BY <1>1, <2>1
  <2>3. \A n \in I(x) : (\A i \in I(x) : n >= i) => n = m
    BY <2>1, <2>2
  <2> QED
    BY <2>2, <2>3 DEF Max
<1>2. ASSUME NEW x \in Path
      PROVE  \E m \in I(x) : m \in 0 .. Len(x) /\ \A i \in I(x) : i <= m
  <2>1. Len(x) \in Nat /\ DOMAIN x = 1 .. Len(x)
    BY LenProperties DEF Path
  <2> DEFINE T == {n \in Nat : \A i \in I(x) : i <= n}
  <2>2. Len(x) \in T
    BY <2>1
  <2>3. PICK n \in T : \A o \in T : n <= o
    <3>1. T \in SUBSET Nat /\ T # {}
      BY <2>2
    <3> HIDE DEF T
    <3> QED
      BY <3>1, LeastNumber
  <2>4. n \in 0 .. Len(x) /\ \A i \in I(x) : i <= n
    BY <2>1, <2>2, <2>3
  <2>5. n \in I(x)
    <3>1. CASE n = 0
      BY <3>1
    <3>2. CASE n # 0 /\ n \notin I(x)
      <4>1. \A i \in I(x) : i \in Int /\ i <= n - 1
        BY <2>1, <2>4, <3>2
      <4>2. n - 1 \in T /\ ~(n <= n - 1)
        BY <3>2, <4>1
      <4> QED
        BY <2>3, <4>2
    <3> QED
      BY <3>1, <3>2
  <2> QED
    BY <2>4, <2>5
<1>3. ASSUME NEW x \in Path PROVE NoTrailingSlash(x) \in Path
  <2>1. PICK m \in I(x) : m \in 0 .. Len(x) /\ \A i \in I(x) : i <= m
    BY <1>2
  <2>2. Max(I(x)) = m
    BY <1>1, <2>1
  <2>3. SubSeq(x, 1, m) \in Path
    BY <2>1, PrefixType DEF Path
  <2> QED
    BY <2>2, <2>3 DEF NoTrailingSlash
<1>4. Len(q) \in Nat /\ DOMAIN q = 1 .. Len(q)
  BY LenProperties DEF Path
<1>5. ASSUME q = <<>> \/ q[Len(q)] # "/"
      PROVE  Len(q) \in I(q)
  <2>1. q = <<>> <=> Len(q) = 0
    BY EmptySeq DEF Path
  <2> QED
    BY <1>4, <1>5, <2>1
<1>6. ASSUME q = <<>> \/ q[Len(q)] # "/"
      PROVE  NoTrailingSlash(q) = q
  <2>1. \A i \in I(q) : i <= Len(q)
    BY <1>4
  <2>2. Max(I(q)) = Len(q)
    BY <1>1, <1>5, <1>6, <2>1
  <2>3. SubSeq(q, 1, Len(q)) = q
    BY SubSeqFull DEF Path
  <2> QED
    BY <2>2, <2>3 DEF NoTrailingSlash
<1>7. ASSUME q = <<>> \/ q[Len(q)] # "/"
      PROVE  NoTrailingSlash(q \o Slash) = q
  <2> DEFINE a == Slash
             z == q \o a
  <2>1. a \in Path /\ Len(a) = 1 /\ a[1] = "/"
    BY SlashType
  <2>2. /\ z \in Path /\ Len(z) = Len(q) + Len(a)
        /\ \A i \in 1 .. Len(q) : z[i] = q[i]
        /\ \A i \in 1 .. Len(a) : z[Len(q) + i] = a[i]
    <3> HIDE DEF a
    <3> QED
      BY <2>1, PathJoin
  <2>3. SubSeq(z, 1, Len(q)) = q
    <3> HIDE DEF a
    <3> QED
      BY <2>1, PrefixOfConcat DEF Path
  <2> HIDE DEF a, z
  <2>4. DOMAIN z = 1 .. Len(q) + 1 /\ z[Len(q) + 1] = "/"
    BY <1>4, <2>1, <2>2, LenProperties DEF Path
  <2>5. \A i \in I(z) : i <= Len(q)
    BY <1>4, <2>4
  <2>6. Len(q) \in I(z)
    BY <1>4, <1>5, <1>7, <2>2, <2>4
  <2>7. Max(I(z)) = Len(q)
    BY <1>1, <2>2, <2>5, <2>6
  <2>8. NoTrailingSlash(z) = q
    BY <2>3, <2>7 DEF NoTrailingSlash
  <2> QED
    BY <2>8 DEF z, a
<1> QED
  BY <1>3, <1>6, <1>7

LEMMA NormalizedType ==
    ASSUME NEW p \in Path
    PROVE  /\ NormalizePath(p) \in Path /\ NormalizePath(p) # <<>>
           /\ NormalizePath(p)[1] = "/"
<1>1. Slash \in Path /\ Len(Slash) = 1 /\ Slash[1] = "/"
  BY SlashType
<1>2. NoDotSlash(p) \in Path
  <2>1. CASE IsPrefix(<<".", "/">>, p)
    <3>1. \A i \in 3 .. Len(p) : p[i] \in Token \cup {"/", "."}
      BY ElementOfSeq, LenProperties DEF Path
    <3>2. 3 \in Int /\ Len(p) \in Int
      BY LenProperties DEF Path
    <3>3. SubSeq(p, 3, Len(p)) \in Path
      BY <3>1, <3>2, SubSeqProperties DEF Path
    <3> QED
      BY <2>1, <3>3 DEF NoDotSlash
  <2>2. CASE ~IsPrefix(<<".", "/">>, p)
    BY <2>2 DEF NoDotSlash
  <2> QED
    BY <2>1, <2>2
<1>3. ASSUME NEW q \in Path PROVE NoTrailingSlash(q) \in Path
  BY LastTokenKept
<1>4. NormalizePath(p) = Slash \/ NormalizePath(p) = Rooted(NoTrailingSlash(NoDotSlash(p)))
  BY DEF NormalizePath
<1>5. Slash # <<>>
  BY <1>1, EmptySeq
<1> QED
  BY <1>1, <1>2, <1>3, <1>4, <1>5, RootedType

-----------------------------------------------------------------------------
\* A key, or a directory with or without its slash: one slash and a name.
Plain(k) == k = <<>> \/ (k[1] = "/" /\ (Len(k) > 1 => k[2] # "/"))

LEMMA SlashAhead ==
    ASSUME NEW k \in Path, k # <<>>, Plain(k)
    PROVE  \E t \in Path : k = Slash \o t /\ (t = <<>> \/ t[1] # "/")
<1> DEFINE a == Slash
           t == SubSeq(k, 2, Len(k))
<1>1. a \in Path /\ Len(a) = 1 /\ a[1] = "/"
  BY SlashType
<1>2. Len(k) \in Nat /\ Len(k) >= 1
  BY LenProperties, EmptySeq DEF Path
<1>3. /\ \A i \in 2 .. Len(k) : k[i] \in Token \cup {"/", "."}
      /\ 2 \in Int /\ Len(k) \in Int
  BY <1>2, ElementOfSeq DEF Path
<1>4. /\ t \in Path /\ Len(t) = IF 2 <= Len(k) THEN Len(k) - 2 + 1 ELSE 0
      /\ \A i \in 1 .. Len(k) - 2 + 1 : t[i] = k[2 + i - 1]
  BY <1>3, SubSeqProperties DEF Path
<1> HIDE DEF a, t
<1>5. Len(t) = Len(k) - 1 /\ Len(t) \in Nat /\ \A i \in 1 .. Len(k) - 1 : t[i] = k[i + 1]
  <2>1. Len(k) - 2 + 1 = Len(k) - 1 /\ \A i \in 1 .. Len(k) - 1 : 2 + i - 1 = i + 1
    BY <1>2
  <2>2. \A i \in 1 .. Len(k) - 1 : t[i] = k[i + 1]
    BY <1>4, <2>1
  <2>3. Len(t) = Len(k) - 1
    <3>1. CASE 2 <= Len(k)
      BY <1>4, <2>1, <3>1
    <3>2. CASE ~(2 <= Len(k))
      <4>1. Len(k) = 1
        BY <1>2, <3>2
      <4> QED
        BY <1>4, <3>2, <4>1
    <3> QED
      BY <3>1, <3>2
  <2>4. Len(k) - 1 \in Nat
    BY <1>2
  <2> QED
    BY <2>2, <2>3, <2>4
<1>6. /\ a \o t \in Path /\ Len(a \o t) = Len(a) + Len(t)
      /\ \A i \in 1 .. Len(a) : (a \o t)[i] = a[i]
      /\ \A i \in 1 .. Len(t) : (a \o t)[Len(a) + i] = t[i]
  BY <1>1, <1>4, PathJoin
<1>7. ASSUME NEW i \in 1 .. Len(k) PROVE k[i] = (a \o t)[i]
  <2>1. CASE i = 1
    <3>1. 1 \in 1 .. Len(a)
      BY <1>1
    <3> QED
      BY <1>1, <1>6, <2>1, <3>1 DEF Plain
  <2>2. CASE i # 1
    <3>1. i - 1 \in 1 .. Len(t) /\ i - 1 \in 1 .. Len(k) - 1 /\ Len(a) + (i - 1) = i
          /\ (i - 1) + 1 = i
      BY <1>1, <1>2, <1>5, <2>2
    <3> QED
      BY <1>5, <1>6, <3>1
  <2> QED
    BY <2>1, <2>2
<1>8. k = a \o t
  <2>1. Len(a \o t) = Len(k)
    BY <1>1, <1>2, <1>5, <1>6
  <2> DEFINE z == a \o t
  <2>2. z \in Path /\ Len(z) = Len(k) /\ \A i \in 1 .. Len(k) : k[i] = z[i]
    BY <1>6, <1>7, <2>1
  <2> HIDE DEF z
  <2>3. k = z
    BY <2>2, SeqEqual DEF Path
  <2> QED
    BY <2>3 DEF z
<1>9. t = <<>> \/ t[1] # "/"
  <2>1. CASE Len(k) = 1
    BY <1>4, <1>5, <2>1, EmptySeq DEF Path
  <2>2. CASE Len(k) # 1
    <3> DEFINE n == Len(k)
    <3>1. n \in Nat /\ n >= 1 /\ n # 1
      BY <1>2, <2>2
    <3> HIDE DEF n
    <3>2. n > 1 /\ 1 \in 1 .. n - 1 /\ 1 + 1 = 2
      BY <3>1
    <3>3. Len(k) > 1 /\ 1 \in 1 .. Len(k) - 1
      BY <3>2 DEF n
    <3> QED
      BY <1>5, <3>2, <3>3 DEF Plain
  <2> QED
    BY <2>1, <2>2
<1> QED
  BY <1>4, <1>8, <1>9 DEF a

\* Base(s) leads to k.
Leads(s, k) == \E rest \in Path :
    k = Base(s) \o rest /\ (rest = <<>> \/ rest[1] = "/")

LEMMA BaseType ==
    ASSUME NEW s \in ServerConfig
    PROVE  /\ s.publicDirPrefix \in Path /\ s.routePrefix \in Path /\ Base(s) \in Path
           /\ Base(s) = <<>> <=> s.publicDirPrefix = <<>>
<1>1. s.publicDirPrefix \in Path /\ s.routePrefix \in Path
  BY AssetPathsAssumption
<1>2. <<>> \in Path
  BY EmptySeq DEF Path
<1> QED
  BY <1>1, <1>2, RootedType DEF Base

LEMMA UrlMeans ==
    ASSUME NEW s \in ServerConfig, NEW rest \in Path
    PROVE  UrlOf(s, Base(s) \o rest) =
             (IF NormalizePath(s.routePrefix) = Slash THEN <<>>
              ELSE NormalizePath(s.routePrefix)) \o rest
<1>1. SubSeq(Base(s) \o rest, Len(Base(s)) + 1, Len(Base(s) \o rest)) = rest
  BY BaseType, SuffixOfConcat DEF Path
<1> QED
  BY <1>1 DEF UrlOf

\* The path a client uses leads to the key it stands for.
LEMMA AssetKeyOfUrl ==
    ASSUME NEW s \in Joined, NEW k \in Path, Plain(k), Leads(s, k)
    PROVE  AssetKey(s, UrlOf(s, k)) = Rooted(k)
<1>1. PICK rest \in Path : k = Base(s) \o rest /\ (rest = <<>> \/ rest[1] = "/")
  BY DEF Leads
<1> DEFINE P == s.publicDirPrefix
           R == NormalizePath(s.routePrefix)
           B == Base(s)
<1>2. s \in ServerConfig /\ (B = <<>> \/ R # Slash)
  BY DEF Joined
<1>3. /\ P \in Path /\ B \in Path /\ (B = <<>> <=> P = <<>>)
      /\ R \in Path /\ R # <<>> /\ R[1] = "/"
  BY <1>2, BaseType, NormalizedType
<1>4. UrlOf(s, k) = (IF R = Slash THEN <<>> ELSE R) \o rest
  BY <1>1, <1>2, UrlMeans
<1>5. B = IF P = <<>> THEN <<>> ELSE Rooted(P)
  BY DEF Base
<1>6. AssetKey(s, UrlOf(s, k)) = Rooted(P \o ReplaceFirstSubSeq(<<>>, R, UrlOf(s, k)))
  BY DEF AssetKey
<1>7. k = B \o rest
  BY <1>1
<1> HIDE DEF P, R, B
<1>8. \A x \in Path : <<>> \o x = x /\ x \o <<>> = x
  BY ConcatEmptySeq DEF Path
<1>9. CASE R # Slash
  <2>1. UrlOf(s, k) = R \o rest
    BY <1>4, <1>9
  <2>2. ReplaceFirstSubSeq(<<>>, R, R \o rest) = rest
    BY <1>3, ReplaceAtTheStart DEF Path
  <2>3. AssetKey(s, UrlOf(s, k)) = Rooted(P \o rest)
    BY <1>6, <2>1, <2>2
  <2>4. CASE P = <<>>
    BY <1>1, <1>5, <1>7, <1>8, <2>3, <2>4
  <2>5. CASE P # <<>>
    <3>1. B = Rooted(P)
      BY <1>5, <2>5
    <3>2. k \in Path /\ k # <<>> /\ k[1] = "/" /\ Rooted(k) = k
      <4>1. B # <<>> /\ B[1] = "/"
        BY <1>3, <3>1, RootedType
      <4>2. Len(B) \in Nat /\ Len(B) # 0
        BY <1>3, <4>1, EmptySeq, LenProperties DEF Path
      <4>3. (B \o rest)[1] = B[1] /\ Len(B \o rest) = Len(B) + Len(rest) /\ Len(rest) \in Nat
        <5>1. 1 \in 1 .. Len(B)
          BY <4>2
        <5> QED
          BY <1>3, <5>1, PathJoin
      <4>4. k # <<>> /\ k[1] = "/"
        <5>1. Len(k) # 0
          BY <1>7, <4>2, <4>3
        <5> QED
          BY <1>7, <4>1, <4>3, <5>1, EmptySeq
      <4> QED
        BY <4>4, RootedType
    <3>3. Rooted(P \o rest) = k
      <4>1. CASE P[1] = "/"
        <5>1. Rooted(P) = P
          BY <1>3, <2>5, <4>1, RootedType
        <5>2. P \o rest = k
          BY <1>7, <3>1, <5>1
        <5> QED
          BY <3>2, <5>2
      <4>2. CASE P[1] # "/"
        <5>1. B = Slash \o P
          BY <1>3, <3>1, <4>2, RootedType
        <5>2. Len(P) \in Nat /\ Len(P) # 0
          BY <1>3, <2>5, EmptySeq, LenProperties DEF Path
        <5>3. P \o rest \in Path /\ (P \o rest)[1] = P[1]
          <6>1. 1 \in 1 .. Len(P)
            BY <5>2
          <6> QED
            BY <1>3, <6>1, PathJoin
        <5>4. Rooted(P \o rest) = Slash \o (P \o rest)
          BY <4>2, <5>3, RootedType
        <5>5. Slash \o (P \o rest) = (Slash \o P) \o rest
          <6>1. Slash \in Path
            BY SlashType
          <6> DEFINE a == Slash
          <6>2. a \in Path
            BY <6>1
          <6> HIDE DEF a
          <6>3. a \o (P \o rest) = (a \o P) \o rest
            BY <1>3, <6>2, PathAssociative
          <6> QED
            BY <6>3 DEF a
        <5> QED
          BY <1>7, <5>1, <5>4, <5>5
      <4> QED
        BY <4>1, <4>2
    <3> QED
      BY <2>3, <3>2, <3>3
  <2> QED
    BY <2>4, <2>5
<1>10. CASE R = Slash
  <2>1. B = <<>> /\ P = <<>> /\ k = rest
    BY <1>1, <1>2, <1>3, <1>7, <1>8, <1>10
  <2>2. UrlOf(s, k) = k
    BY <1>4, <1>8, <1>10, <2>1
  <2>3. CASE k = <<>>
    <3>1. ReplaceFirstSubSeq(<<>>, R, <<>>) = <<>>
      <4>1. <<>> \in Path /\ Len(<<>>) = 0
        BY EmptySeq DEF Path
      <4>2. R \notin SubSeqs(<<>>)
        <5>1. ~(Len(R) <= 0)
          BY <1>10, SlashType
        <5>2. \A r \in SubSeqs(<<>>) : Len(r) <= 0
          BY <4>1, OccurrenceIsShorter DEF Path
        <5> QED
          BY <5>1, <5>2
      <4> QED
        BY <4>2 DEF ReplaceFirstSubSeq
    <3>2. P \o <<>> = <<>>
      BY <1>3, <1>8, <2>1
    <3> QED
      BY <1>6, <2>2, <2>3, <3>1, <3>2
  <2>4. CASE k # <<>>
    <3>1. PICK t \in Path : k = Slash \o t /\ (t = <<>> \/ t[1] # "/")
      BY <2>4, SlashAhead
    <3>2. ReplaceFirstSubSeq(<<>>, R, Slash \o t) = t
      BY <1>3, <1>10, ReplaceAtTheStart DEF Path
    <3>3. AssetKey(s, UrlOf(s, k)) = Rooted(t)
      BY <1>6, <1>8, <2>1, <2>2, <3>1, <3>2
    <3>4. Rooted(t) = Slash \o t
      BY <3>1, RootedType
    <3>5. Rooted(k) = k
      BY <2>4, RootedType DEF Plain
    <3> QED
      BY <3>1, <3>3, <3>4, <3>5
  <2> QED
    BY <2>3, <2>4
<1> QED
  BY <1>9, <1>10

LEMMA PrefixSplits ==
    ASSUME NEW x \in Path, NEW k \in Path, IsPrefix(x, k)
    PROVE  \E y \in Path : k = x \o y
<1>1. Len(x) \in Nat /\ Len(k) \in Nat /\ Len(x) <= Len(k) /\ x = SubSeq(k, 1, Len(x))
  BY PrefixMeans, LenProperties DEF Path
<1>2. /\ 1 \in 1 .. Len(k) + 1 /\ Len(x) \in 1 - 1 .. Len(k) /\ Len(k) \in Len(x) .. Len(k)
      /\ Len(x) + 1 \in Int
  BY <1>1
<1> DEFINE y == SubSeq(k, Len(x) + 1, Len(k))
<1>3. SubSeq(k, 1, Len(x)) \o y = SubSeq(k, 1, Len(k))
  BY <1>2, ConcatAdjacentSubSeq DEF Path
<1>4. y \in Path
  <2>1. \A i \in Len(x) + 1 .. Len(k) : k[i] \in Token \cup {"/", "."}
    BY <1>1, ElementOfSeq DEF Path
  <2> QED
    BY <1>1, <1>2, <2>1, SubSeqProperties DEF Path
<1>5. k = x \o y
  <2> HIDE DEF y
  <2> QED
    BY <1>1, <1>3, SubSeqFull DEF Path
<1> QED
  BY <1>4, <1>5

LEMMA SlashThen ==
    ASSUME NEW y \in Path
    PROVE  Slash \o y \in Path /\ Slash \o y # <<>> /\ (Slash \o y)[1] = "/"
<1> DEFINE a == Slash
<1>1. a \in Path /\ Len(a) = 1 /\ a[1] = "/"
  BY SlashType
<1> HIDE DEF a
<1>2. /\ a \o y \in Path /\ Len(a \o y) = Len(a) + Len(y) /\ Len(y) \in Nat
      /\ \A i \in 1 .. Len(a) : (a \o y)[i] = a[i]
  BY <1>1, PathJoin
<1>3. Len(a \o y) # 0 /\ (a \o y)[1] = "/"
  BY <1>1, <1>2
<1>4. a \o y # <<>>
  BY <1>2, <1>3, EmptySeq
<1> QED
  BY <1>2, <1>3, <1>4 DEF a

Element == Token \cup {"/", "."}

LEMMA SlashAssociative ==
    ASSUME NEW x \in Path, NEW y \in Path
    PROVE  (x \o Slash) \o y = x \o (Slash \o y)
BY SlashType, PathAssociative

Join(x, c) == x \o <<c>>
Then(x, y) == x \o y

\* What ends in a token ends in it whatever is before.
LEMMA LastOfJoin ==
    ASSUME NEW x \in Path, NEW c \in Element
    PROVE  /\ Join(x, c) \in Path /\ Join(x, c) # <<>>
           /\ Len(x) \in Nat /\ Len(Join(x, c)) = Len(x) + 1
           /\ Join(x, c)[Len(Join(x, c))] = c
           /\ \A i \in 1 .. Len(x) : Join(x, c)[i] = x[i]
<1> DEFINE z == Append(x, c)
<1>1. Join(x, c) = z
  BY AppendIsConcat DEF Path, Element, Join
<1>2. /\ z \in Path /\ z # <<>> /\ Len(z) = Len(x) + 1 /\ z[Len(x) + 1] = c
      /\ \A i \in 1 .. Len(x) : z[i] = x[i]
  BY AppendProperties DEF Path, Element
<1>3. Len(x) \in Nat
  BY LenProperties DEF Path, Element
<1> HIDE DEF z
<1> QED
  BY <1>1, <1>2, <1>3

\* The empty path and a last token are all there is.
LEMMA PathEmptyOrJoin ==
    ASSUME NEW x \in Path, x # <<>>
    PROVE  \E y \in Path, c \in Element : x = Join(y, c)
<1>1. PICK y \in Path, c \in Element : x = Append(y, c)
  BY SequenceEmptyOrAppend DEF Path, Element
<1> QED
  BY <1>1, AppendIsConcat DEF Path, Element, Join

LEMMA JoinIsInjective ==
    ASSUME NEW x \in Path, NEW y \in Path,
           NEW c \in Element, NEW d \in Element,
           Join(x, c) = Join(y, d)
    PROVE  x = y /\ c = d
<1>1. Append(x, c) = Append(y, d)
  BY AppendIsConcat DEF Path, Element, Join
<1> QED
  BY <1>1, AppendInjective DEF Path, Element

LEMMA JoinTakenApart ==
    ASSUME NEW p \in Path, NEW q \in Path, NEW z \in Path,
           NEW c \in Element, NEW b \in Element,
           Join(p, c) = Then(q, Join(z, b))
    PROVE  p = Then(q, z)
<1>1. Then(q, z) \in Path
  BY PathJoin DEF Then
<1>2. <<b>> \in Path
  BY DEF Path, Element
<1>3. Then(q, Join(z, b)) = Join(Then(q, z), b)
  <2> DEFINE e == <<b>>
  <2>1. e \in Path
    BY <1>2
  <2> HIDE DEF e
  <2>2. q \o (z \o e) = (q \o z) \o e
    BY <2>1, PathAssociative
  <2> QED
    BY <2>2 DEF Join, Then, e
<1>4. Join(p, c) = Join(Then(q, z), b)
  BY <1>3
<1> QED
  BY <1>1, <1>4, JoinIsInjective

\* A key below Base(s), and the directory it is in.
LEMMA BelowLeads ==
    ASSUME NEW s \in ServerConfig, NEW k \in Path, Below(s, k)
    PROVE  Leads(s, k)
<1>1. Base(s) \in Path /\ Slash \in Path /\ Base(s) \o Slash \in Path
  BY BaseType, SlashType, PathJoin
<1>2. PICK y \in Path : k = (Base(s) \o Slash) \o y
  BY <1>1, PrefixSplits DEF Below
<1>3. k = Base(s) \o (Slash \o y)
  BY <1>1, <1>2, SlashAssociative
<1>4. Slash \o y \in Path /\ (Slash \o y)[1] = "/"
  BY SlashThen
<1> QED
  BY <1>3, <1>4 DEF Leads

LEMMA DirectoryLeads ==
    ASSUME NEW s \in ServerConfig, NEW dir \in Path, NEW c \in Token,
           Below(s, Join(dir \o Slash, c))
    PROVE  Leads(s, dir) /\ Leads(s, dir \o Slash)
<1> DEFINE B == Base(s)
<1>1. B \in Path /\ Slash \in Path /\ B \o Slash \in Path /\ dir \o Slash \in Path
  BY BaseType, SlashType, PathJoin
<1>2. c \in Element /\ "/" \in Element /\ c # "/"
  BY AssetPathsAssumption DEF Element
<1>0. \A x : x \o Slash = Join(x, "/")
  BY DEF Slash, Join
<1>3. PICK y \in Path : Join(dir \o Slash, c) = (B \o Slash) \o y
  <2>1. Join(dir \o Slash, c) \in Path
    BY <1>1, <1>2, LastOfJoin
  <2> QED
    BY <1>1, <2>1, PrefixSplits DEF Below
<1> HIDE DEF B
<1>4. \A x \in Path : x \o <<>> = x
  BY ConcatEmptySeq DEF Path, Element
<1>5. y # <<>>
  <2>1. ASSUME y = <<>> PROVE FALSE
    <3>1. Join(dir \o Slash, c) = Join(B, "/")
      BY <1>0, <1>1, <1>3, <1>4, <2>1
    <3>2. c = "/"
      BY <1>1, <1>2, <3>1, JoinIsInjective
    <3> QED
      BY <1>2, <3>2
  <2> QED
    BY <2>1
<1>6. PICK z \in Path, b \in Element : y = Join(z, b)
  BY <1>5, PathEmptyOrJoin
<1>7. dir \o Slash = (B \o Slash) \o z
  <2> DEFINE p == dir \o Slash
             q == B \o Slash
  <2>1. p \in Path /\ q \in Path /\ Join(p, c) = Then(q, Join(z, b))
    BY <1>1, <1>3, <1>6 DEF Then
  <2> HIDE DEF p, q
  <2>2. p = Then(q, z)
    BY <1>2, <2>1, JoinTakenApart
  <2> QED
    BY <2>2 DEF p, q, Then
<1>8. Leads(s, dir \o Slash)
  <2>1. (B \o Slash) \o z = B \o (Slash \o z)
    BY <1>1, SlashAssociative
  <2>2. Slash \o z \in Path /\ (Slash \o z)[1] = "/"
    BY SlashThen
  <2>3. dir \o Slash = B \o (Slash \o z)
    BY <1>7, <2>1
  <2> QED
    BY <2>2, <2>3 DEF Leads, B
<1>9. Leads(s, dir)
  <2>1. CASE z = <<>>
    <3>1. Join(dir, "/") = Join(B, "/")
      BY <1>0, <1>1, <1>4, <1>7, <2>1
    <3>2. dir = B
      BY <1>1, <1>2, <3>1, JoinIsInjective
    <3>3. <<>> \in Path /\ dir = B \o <<>>
      BY <1>4, <3>2, EmptySeq DEF Path, Element
    <3> QED
      BY <3>3 DEF Leads, B
  <2>2. CASE z # <<>>
    <3>1. PICK v \in Path, e \in Element : z = Join(v, e)
      BY <2>2, PathEmptyOrJoin
    <3>2. Join(dir, "/") = (B \o Slash) \o Join(v, e)
      BY <1>0, <1>7, <3>1
    <3>3. dir = (B \o Slash) \o v
      <4> DEFINE q == B \o Slash
      <4>1. q \in Path /\ Join(dir, "/") = Then(q, Join(v, e))
        BY <1>1, <3>2 DEF Then
      <4> HIDE DEF q
      <4>2. dir = Then(q, v)
        BY <1>2, <4>1, JoinTakenApart
      <4> QED
        BY <4>2 DEF q, Then
    <3>4. (B \o Slash) \o v = B \o (Slash \o v)
      BY <1>1, SlashAssociative
    <3>6. dir = B \o (Slash \o v)
      BY <3>3, <3>4
    <3>7. Slash \o v \in Path /\ (Slash \o v)[1] = "/"
      BY SlashThen
    <3> QED
      BY <3>6, <3>7 DEF Leads, B
  <2> QED
    BY <2>1, <2>2
<1> QED
  BY <1>8, <1>9

LEMMA StartsWithSlash ==
    ASSUME NEW p \in Path
    PROVE  IsPrefix(Slash, p) <=> p # <<>> /\ p[1] = "/"
<1>1. CASE IsPrefix(Slash, p)
  <2>1. PICK y \in Path : p = Slash \o y
    BY <1>1, SlashType, PrefixSplits
  <2> QED
    BY <1>1, <2>1, SlashThen
<1>2. CASE ~IsPrefix(Slash, p) /\ p # <<>> /\ p[1] = "/"
  <2>1. Rooted(p) = p
    BY <1>2, RootedType
  <2>2. Slash \o p = p
    BY <1>2, <2>1 DEF Rooted
  <2>3. Slash \in Path /\ Slash # <<>>
    <3>1. Len(<<>>) = 0
      BY EmptySeq
    <3> QED
      BY <3>1, SlashType
  <2> DEFINE a == Slash
  <2>4. a \in Path /\ a # <<>> /\ a \o p = p
    BY <2>2, <2>3
  <2> HIDE DEF a
  <2>5. a = <<>>
    BY <2>4, ConcatSimplifications DEF Path
  <2> QED
    BY <2>4, <2>5
<1> QED
  BY <1>1, <1>2

LEMMA EndsInSlash ==
    ASSUME NEW p \in Path, p # <<>>
    PROVE  IsSuffix(Slash, p) <=> p[Len(p)] = "/"
<1>1. Len(p) \in Nat /\ Len(p) # 0 /\ \A i \in 1 .. Len(p) : p[i] \in Token \cup {"/", "."}
  BY LenProperties, EmptySeq, ElementOfSeq DEF Path
<1>2. Reverse(Slash) = Slash
  <2>1. Slash \in Path /\ Len(Slash) = 1 /\ Slash[1] = "/"
    BY SlashType
  <2>2. Reverse(Slash) = [i \in 1 .. 1 |-> Slash[(1 - i) + 1]]
    BY <2>1 DEF Reverse
  <2>3. \A i \in 1 .. 1 : (1 - i) + 1 = 1 /\ i = 1
    OBVIOUS
  <2>4. Reverse(Slash) = [i \in 1 .. 1 |-> "/"]
    BY <2>1, <2>2, <2>3
  <2> QED
    BY <2>4 DEF Slash
<1> DEFINE q == Reverse(p)
<1>3. q \in Path /\ q # <<>> /\ q[1] = p[Len(p)]
  <2>1. q = [i \in 1 .. Len(p) |-> p[(Len(p) - i) + 1]]
    BY DEF Reverse
  <2>2. \A i \in 1 .. Len(p) : (Len(p) - i) + 1 \in 1 .. Len(p)
    BY <1>1
  <2>3. 1 \in 1 .. Len(p) /\ (Len(p) - 1) + 1 = Len(p)
    BY <1>1
  <2>4. q \in Path /\ Len(q) = Len(p)
    BY <1>1, <2>1, <2>2, IsASeq DEF Path
  <2>5. q[1] = p[Len(p)]
    BY <2>1, <2>3
  <2> QED
    BY <1>1, <2>4, <2>5, EmptySeq
<1>4. IsSuffix(Slash, p) <=> IsPrefix(Slash, q)
  BY <1>2 DEF IsSuffix
<1> HIDE DEF q
<1> QED
  BY <1>3, <1>4, StartsWithSlash

-----------------------------------------------------------------------------
(* The candidates.                                                          *)

LEMMA PathIsPlain ==
    ASSUME NEW k \in Path, IsPath(k)
    PROVE  /\ Plain(k) /\ k # <<>> /\ Rooted(k) = k
           /\ Len(k) \in Nat /\ Len(k) >= 2 /\ k[1] = "/" /\ k[Len(k)] # "/"
<1>1. Len(k) \in Nat /\ Len(k) >= 2 /\ k[1] = "/" /\ k[2] # "/" /\ k[Len(k)] # "/"
  BY LenProperties DEF IsPath, Path
<1>2. k # <<>>
  BY <1>1, EmptySeq
<1> QED
  BY <1>1, <1>2, RootedType DEF Plain

LEMMA KeyType ==
    ASSUME tree \in Tree, files \subseteq tree, NEW k \in Keys
    PROVE  k \in Path /\ IsPath(k)
<1>1. PICK f \in files : k = Slashed(f)
  BY DEF Keys
<1>2. f \in Seq(Name) /\ f # <<>>
  BY TreeType
<1> QED
  BY <1>1, <1>2, SlashedShape

\* The first candidate that is there is served.
LEMMA FirstFound ==
    ASSUME NEW s, NEW path, NEW c \in Seq(Path), Candidates(s, path) = c,
           NEW i \in 1 .. Len(c), c[i] \in Keys,
           \A j \in 1 .. Len(c) : j < i => c[j] \notin Keys
    PROVE  MatchingAsset(s, path) = c[i]
<1> DEFINE found == {j \in DOMAIN c : c[j] \in Keys}
<1>1. DOMAIN c = 1 .. Len(c) /\ Len(c) \in Nat
  BY LenProperties
<1>2. i \in found /\ found \subseteq Int
  BY <1>1
<1>3. \A j \in found : i <= j
  BY <1>1
<1>4. MatchingAsset(s, path) = IF found = {} THEN Nothing ELSE c[Min(found)]
  BY DEF MatchingAsset
<1> HIDE DEF found
<1>5. \A n \in found : (\A j \in found : n <= j) => n = i
  BY <1>2, <1>3
<1>6. Min(found) = i
  BY <1>2, <1>3, <1>5 DEF Min
<1> QED
  BY <1>2, <1>4, <1>6

LEMMA ExactType ==
    ASSUME NEW s \in ServerConfig, NEW key \in Path, key # <<>>
    PROVE  /\ key[Len(key)] = "/" => ExactAndExt(s, key) = <<>>
           /\ key[Len(key)] # "/" =>
                /\ ExactAndExt(s, key) \in Seq(Path)
                /\ Len(s.autoExt) \in Nat
                /\ Len(ExactAndExt(s, key)) = 1 + Len(s.autoExt)
                /\ ExactAndExt(s, key)[1] = key
                /\ \A i \in 1 .. Len(s.autoExt) :
                      ExactAndExt(s, key)[1 + i] = Join(key, s.autoExt[i])
<1> DEFINE x == s.autoExt
           G == [i \in DOMAIN x |-> key \o <<x[i]>>]
           E == ExactAndExt(s, key)
<1>1. x \in Seq(Token)
  BY AssetPathsAssumption
<1>2. Len(x) \in Nat /\ DOMAIN x = 1 .. Len(x)
  BY <1>1, LenProperties
<1>3. IsSuffix(Slash, key) <=> key[Len(key)] = "/"
  BY EndsInSlash
<1>4. E = IF IsSuffix(Slash, key) THEN <<>> ELSE <<key>> \o G
  BY DEF ExactAndExt
<1>5. G \in Seq(Path) /\ Len(G) = Len(x) /\ \A i \in 1 .. Len(x) : G[i] = Join(key, x[i])
  <2>1. \A i \in 1 .. Len(x) : x[i] \in Element
    BY <1>1, ElementOfSeq DEF Element
  <2>2. \A i \in 1 .. Len(x) : key \o <<x[i]>> \in Path /\ key \o <<x[i]>> = Join(key, x[i])
    <3>1. \A c \in Element : key \o <<c>> \in Path
      BY LastOfJoin DEF Join
    <3> QED
      BY <2>1, <3>1 DEF Join
  <2> HIDE DEF x
  <2>3. G = [i \in 1 .. Len(x) |-> key \o <<x[i]>>]
    BY <1>2
  <2>4. G \in Seq(Path) /\ Len(G) = Len(x)
    BY <1>2, <2>2, <2>3
  <2>5. \A i \in 1 .. Len(x) : G[i] = Join(key, x[i])
    BY <2>2, <2>3
  <2> QED
    BY <2>4, <2>5
<1> DEFINE K == <<key>>
<1>6. K \in Seq(Path) /\ Len(K) = 1 /\ K[1] = key
  OBVIOUS
<1> HIDE DEF G, K, E, x
<1>7. /\ K \o G \in Seq(Path) /\ Len(K \o G) = Len(K) + Len(G)
      /\ \A i \in 1 .. Len(K) + Len(G) : (K \o G)[i] = IF i <= Len(K) THEN K[i] ELSE G[i - Len(K)]
  <2>1. K \in Seq(Path) /\ G \in Seq(Path)
    BY <1>5, <1>6
  <2> QED
    BY <2>1, ConcatProperties
<1>8. (K \o G)[1] = key
  <2>1. 1 \in 1 .. Len(K) + Len(G) /\ 1 <= Len(K)
    BY <1>2, <1>5, <1>6
  <2> QED
    BY <1>6, <1>7, <2>1
<1>9. ASSUME NEW i \in 1 .. Len(x) PROVE (K \o G)[1 + i] = Join(key, x[i])
  <2>1. 1 + i \in 1 .. Len(K) + Len(G) /\ ~(1 + i <= Len(K)) /\ 1 + i - Len(K) = i
    BY <1>2, <1>5, <1>6
  <2> QED
    BY <1>5, <1>7, <2>1
<1>10. Len(K \o G) = 1 + Len(x)
  BY <1>5, <1>6, <1>7
<1> DEFINE KG == K \o G
<1>11. KG \in Seq(Path) /\ Len(KG) = 1 + Len(x) /\ KG[1] = key
       /\ \A i \in 1 .. Len(x) : KG[1 + i] = Join(key, x[i])
  BY <1>7, <1>8, <1>9, <1>10
<1>12. E = IF IsSuffix(Slash, key) THEN <<>> ELSE KG
  BY <1>4 DEF K
<1> HIDE DEF KG
<1>13. key[Len(key)] = "/" => E = <<>>
  BY <1>3, <1>12
<1>14. key[Len(key)] # "/" => E = KG
  BY <1>3, <1>12
<1>15. key[Len(key)] # "/" => /\ E \in Seq(Path) /\ Len(x) \in Nat /\ Len(E) = 1 + Len(x) /\ E[1] = key
                              /\ \A i \in 1 .. Len(x) : E[1 + i] = Join(key, x[i])
  BY <1>2, <1>11, <1>14
<1> QED
  BY <1>13, <1>15 DEF E, x

LEMMA IndexType ==
    ASSUME NEW s \in ServerConfig, NEW key \in Path
    PROVE  /\ Index(s, key) \in Seq(Path) /\ Len(s.autoIndex) \in Nat
           /\ Len(Index(s, key)) = Len(s.autoIndex)
           /\ \A i \in 1 .. Len(s.autoIndex) :
                Index(s, key)[i] = Join(NoTrailingSlash(key) \o Slash, s.autoIndex[i])
<1> DEFINE x == s.autoIndex
           d == NoTrailingSlash(key) \o Slash
           I == Index(s, key)
<1>1. x \in Seq(Token)
  BY AssetPathsAssumption
<1>2. Len(x) \in Nat /\ DOMAIN x = 1 .. Len(x)
  BY <1>1, LenProperties
<1>3. d \in Path
  BY LastTokenKept, SlashType, PathJoin
<1>4. I = [i \in DOMAIN x |-> d \o <<x[i]>>]
  BY DEF Index
<1>5. \A i \in 1 .. Len(x) : x[i] \in Element
  BY <1>1, ElementOfSeq DEF Element
<1> HIDE DEF d, x, I
<1>6. \A i \in 1 .. Len(x) : d \o <<x[i]>> \in Path /\ d \o <<x[i]>> = Join(d, x[i])
  <2>1. \A c \in Element : d \o <<c>> \in Path
    BY <1>3, LastOfJoin DEF Join
  <2> QED
    BY <1>5, <2>1 DEF Join
<1>7. I = [i \in 1 .. Len(x) |-> d \o <<x[i]>>]
  BY <1>2, <1>4
<1>8. I \in Seq(Path) /\ Len(I) = Len(x)
  BY <1>2, <1>6, <1>7
<1>9. \A i \in 1 .. Len(x) : I[i] = Join(d, x[i])
  BY <1>6, <1>7
<1> QED
  BY <1>2, <1>8, <1>9 DEF I, x, d

\* What is tried for a key that does not end in a slash: the key, the pages of
\* that name, the indexes of the directory of that name.
TriesAll(c, s, key) ==
    /\ c \in Seq(Path) /\ Len(s.autoExt) \in Nat /\ Len(s.autoIndex) \in Nat
    /\ Len(c) = (1 + Len(s.autoExt)) + Len(s.autoIndex)
    /\ c[1] = key
    /\ \A i \in 1 .. Len(s.autoExt) : c[1 + i] = Join(key, s.autoExt[i])
    /\ \A i \in 1 .. Len(s.autoIndex) :
          c[(1 + Len(s.autoExt)) + i] = Join(key \o Slash, s.autoIndex[i])

LEMMA CandidatesType ==
    ASSUME NEW s \in ServerConfig, NEW path, NEW key \in Path, key # <<>>,
           AssetKey(s, path) = key, key[Len(key)] # "/"
    PROVE  TriesAll(Candidates(s, path), s, key)
<1> DEFINE x == s.autoExt
           y == s.autoIndex
           E == ExactAndExt(s, key)
           I == Index(s, key)
           C == Candidates(s, path)
           d == key \o Slash
<1>1. C = E \o I
  BY DEF Candidates
<1>2. /\ E \in Seq(Path) /\ Len(x) \in Nat /\ Len(E) = 1 + Len(x) /\ E[1] = key
      /\ \A i \in 1 .. Len(x) : E[1 + i] = Join(key, x[i])
  BY ExactType
<1>3. NoTrailingSlash(key) = key
  BY LastTokenKept
<1>4. /\ I \in Seq(Path) /\ Len(y) \in Nat /\ Len(I) = Len(y)
      /\ \A i \in 1 .. Len(y) : I[i] = Join(d, y[i])
  BY <1>3, IndexType
<1> HIDE DEF C, E, I, x, y, d
<1>5. /\ E \o I \in Seq(Path) /\ Len(E \o I) = Len(E) + Len(I)
      /\ \A i \in 1 .. Len(E) + Len(I) : (E \o I)[i] = IF i <= Len(E) THEN E[i] ELSE I[i - Len(E)]
  <2>1. E \in Seq(Path) /\ I \in Seq(Path)
    BY <1>2, <1>4
  <2> QED
    BY <2>1, ConcatProperties
<1>6. C \in Seq(Path) /\ Len(C) = (1 + Len(x)) + Len(y)
  BY <1>1, <1>2, <1>4, <1>5
<1>7. \A i \in 1 .. 1 + Len(x) : C[i] = E[i]
  <2>1. \A i \in 1 .. 1 + Len(x) : i \in 1 .. Len(E) + Len(I) /\ i <= Len(E)
    BY <1>2, <1>4
  <2> QED
    BY <1>1, <1>5, <2>1
<1>8. C[1] = key /\ \A i \in 1 .. Len(x) : C[1 + i] = Join(key, x[i])
  <2>1. 1 \in 1 .. 1 + Len(x) /\ \A i \in 1 .. Len(x) : 1 + i \in 1 .. 1 + Len(x)
    BY <1>2
  <2> QED
    BY <1>2, <1>7, <2>1
<1>9. ASSUME NEW i \in 1 .. Len(y) PROVE C[(1 + Len(x)) + i] = Join(d, y[i])
  <2> DEFINE j == (1 + Len(x)) + i
  <2>1. j \in 1 .. Len(E) + Len(I) /\ ~(j <= Len(E)) /\ j - Len(E) = i
    BY <1>2, <1>4
  <2> HIDE DEF j
  <2>2. C[j] = I[i]
    BY <1>1, <1>5, <2>1
  <2> QED
    BY <1>4, <2>2 DEF j
<1> QED
  BY <1>2, <1>4, <1>6, <1>8, <1>9 DEF C, x, y, d, TriesAll

LEMMA RootedLength ==
    ASSUME NEW p \in Path, p # <<>>
    PROVE  /\ Rooted(p) \in Path /\ Rooted(p) # <<>>
           /\ Len(Rooted(p)) = Len(p) \/ Len(Rooted(p)) = Len(p) + 1
           /\ Rooted(p)[Len(Rooted(p))] = p[Len(p)]
<1> DEFINE a == Slash
           z == a \o p
<1>1. a \in Path /\ Len(a) = 1
  BY SlashType
<1>2. Rooted(p) = p \/ Rooted(p) = z
  BY DEF Rooted
<1> HIDE DEF a
<1>3. /\ Len(p) \in Nat /\ Len(z) = Len(a) + Len(p)
      /\ \A i \in 1 .. Len(p) : z[Len(a) + i] = p[i]
  BY <1>1, PathJoin
<1>4. Len(p) # 0
  BY EmptySeq DEF Path
<1>5. Len(z) = Len(p) + 1 /\ z[Len(z)] = p[Len(p)]
  <2>1. Len(p) \in 1 .. Len(p) /\ Len(a) + Len(p) = Len(p) + 1
    BY <1>1, <1>3, <1>4
  <2> QED
    BY <1>3, <2>1
<1>6. Rooted(p) \in Path /\ Rooted(p) # <<>>
  BY RootedType
<1> HIDE DEF z
<1> QED
  BY <1>2, <1>5, <1>6

-----------------------------------------------------------------------------
(* The path of a URL.                                                       *)

Spelled(t) == IF t \in DOMAIN Encoding THEN Encoding[t] ELSE t

LEMMA SpelledType ==
    ASSUME NEW t \in Element
    PROVE  /\ Spelled(t) \in Element /\ Spelled(t) \notin DOMAIN Encoding
           /\ t = "/" <=> Spelled(t) = "/"
           /\ t \in DOMAIN Encoding => Spelled(t) # t
<1>1. /\ Token \cap {"/", "."} = {} /\ DOMAIN Encoding \subseteq Token
      /\ \A e \in DOMAIN Encoding : Encoding[e] \in Token \ DOMAIN Encoding
  BY AssetPathsAssumption
<1>2. CASE t \in DOMAIN Encoding
  <2>1. Spelled(t) = Encoding[t]
    BY <1>2 DEF Spelled
  <2> QED
    BY <1>1, <1>2, <2>1 DEF Element
<1>3. CASE t \notin DOMAIN Encoding
  BY <1>3 DEF Spelled
<1> QED
  BY <1>2, <1>3

LEMMA PathnameType ==
    ASSUME NEW p \in Path
    PROVE  /\ Pathname(p) \in Path /\ Len(p) \in Nat /\ Len(Pathname(p)) = Len(p)
           /\ \A i \in 1 .. Len(p) : p[i] \in Element /\ Pathname(p)[i] = Spelled(p[i])
           /\ SpelledAlike(Pathname(p))
           /\ SpelledAlike(p) => Pathname(p) = p
<1>1. Len(p) \in Nat /\ DOMAIN p = 1 .. Len(p) /\ \A i \in 1 .. Len(p) : p[i] \in Element
  BY LenProperties, ElementOfSeq DEF Path, Element
<1> DEFINE q == Pathname(p)
<1>2. q = [i \in 1 .. Len(p) |-> Spelled(p[i])]
  BY <1>1 DEF Pathname, Spelled
<1>3. \A i \in 1 .. Len(p) :
         Spelled(p[i]) \in Element /\ Spelled(p[i]) \notin DOMAIN Encoding
  BY <1>1, SpelledType
<1> HIDE DEF q
<1>4. q \in Path /\ Len(q) = Len(p) /\ \A i \in 1 .. Len(p) : q[i] = Spelled(p[i])
  <2>1. q \in Seq(Element) /\ Len(q) = Len(p)
    BY <1>1, <1>2, <1>3, IsASeq
  <2> QED
    BY <1>2, <2>1 DEF Path, Element
<1>5. SpelledAlike(q)
  <2>1. DOMAIN q = 1 .. Len(p)
    BY <1>2
  <2> QED
    BY <1>3, <1>4, <2>1 DEF SpelledAlike
<1>6. ASSUME SpelledAlike(p) PROVE q = p
  <2>1. \A i \in 1 .. Len(p) : q[i] = p[i]
    BY <1>1, <1>4, <1>6 DEF SpelledAlike, Spelled
  <2> QED
    BY <1>4, <2>1, SeqEqual DEF Path
<1> QED
  BY <1>1, <1>4, <1>5, <1>6 DEF q

LEMMA SpelledAlikeMeans ==
    ASSUME NEW p \in Path
    PROVE  SpelledAlike(p) <=> \A i \in 1 .. Len(p) : p[i] \notin DOMAIN Encoding
BY LenProperties DEF Path, SpelledAlike

LEMMA PathnameOfConcat ==
    ASSUME NEW p \in Path, NEW q \in Path
    PROVE  /\ Pathname(p \o q) = Pathname(p) \o Pathname(q)
           /\ SpelledAlike(p \o q) <=> SpelledAlike(p) /\ SpelledAlike(q)
<1> DEFINE z == p \o q
           a == Pathname(p)
           b == Pathname(q)
           y == a \o b
           w == Pathname(z)
<1>1. /\ z \in Path /\ Len(p) \in Nat /\ Len(q) \in Nat /\ Len(z) = Len(p) + Len(q)
      /\ \A i \in 1 .. Len(p) : z[i] = p[i]
      /\ \A i \in 1 .. Len(q) : z[Len(p) + i] = q[i]
  BY PathJoin
<1>2. /\ a \in Path /\ Len(a) = Len(p) /\ b \in Path /\ Len(b) = Len(q)
      /\ \A i \in 1 .. Len(p) : a[i] = Spelled(p[i])
      /\ \A i \in 1 .. Len(q) : b[i] = Spelled(q[i])
  BY PathnameType
<1> HIDE DEF z, a, b
<1>3. /\ y \in Path /\ Len(y) = Len(a) + Len(b)
      /\ \A i \in 1 .. Len(a) : y[i] = a[i]
      /\ \A i \in 1 .. Len(b) : y[Len(a) + i] = b[i]
  BY <1>2, PathJoin
<1>4. w \in Path /\ Len(w) = Len(z) /\ \A i \in 1 .. Len(z) : w[i] = Spelled(z[i])
  BY <1>1, PathnameType
<1> HIDE DEF y, w
<1>5. ASSUME NEW i \in 1 .. Len(z)
      PROVE  \/ i \in 1 .. Len(p) /\ z[i] = p[i]
             \/ \E j \in 1 .. Len(q) : i = Len(p) + j /\ z[i] = q[j]
  <2>1. CASE i <= Len(p)
    BY <1>1, <2>1
  <2>2. CASE ~(i <= Len(p))
    <3>1. i - Len(p) \in 1 .. Len(q) /\ Len(p) + (i - Len(p)) = i
      BY <1>1, <2>2
    <3>2. z[Len(p) + (i - Len(p))] = q[i - Len(p)]
      BY <1>1, <3>1
    <3> QED
      BY <3>1, <3>2
  <2> QED
    BY <2>1, <2>2
<1>6. ASSUME NEW i \in 1 .. Len(z) PROVE w[i] = y[i]
  <2>1. CASE i \in 1 .. Len(p) /\ z[i] = p[i]
    BY <1>2, <1>3, <1>4, <2>1
  <2>2. ASSUME NEW j \in 1 .. Len(q), i = Len(p) + j, z[i] = q[j]
        PROVE  w[i] = y[i]
    BY <1>2, <1>3, <1>4, <2>2
  <2> QED
    BY <1>5, <2>1, <2>2
<1>7. w = y
  <2>1. Len(w) = Len(y) /\ \A i \in 1 .. Len(w) : w[i] = y[i]
    BY <1>1, <1>2, <1>3, <1>4, <1>6
  <2> QED
    BY <1>3, <1>4, <2>1, SeqEqual DEF Path
<1>8. SpelledAlike(z) <=> SpelledAlike(p) /\ SpelledAlike(q)
  <2>1. SpelledAlike(z) <=> \A i \in 1 .. Len(z) : z[i] \notin DOMAIN Encoding
    BY <1>1, SpelledAlikeMeans
  <2>2. SpelledAlike(p) <=> \A i \in 1 .. Len(p) : p[i] \notin DOMAIN Encoding
    BY SpelledAlikeMeans
  <2>3. SpelledAlike(q) <=> \A i \in 1 .. Len(q) : q[i] \notin DOMAIN Encoding
    BY SpelledAlikeMeans
  <2>4. ASSUME SpelledAlike(z) PROVE SpelledAlike(p) /\ SpelledAlike(q)
    <3>1. \A i \in 1 .. Len(p) : i \in 1 .. Len(z)
      BY <1>1
    <3>2. \A i \in 1 .. Len(q) : Len(p) + i \in 1 .. Len(z)
      BY <1>1
    <3> QED
      BY <1>1, <2>1, <2>2, <2>3, <2>4, <3>1, <3>2
  <2>5. ASSUME SpelledAlike(p), SpelledAlike(q) PROVE SpelledAlike(z)
    BY <1>5, <2>1, <2>2, <2>3, <2>5
  <2> QED
    BY <2>4, <2>5
<1> QED
  BY <1>7, <1>8 DEF w, y, z, a, b

\* An encoded path has none of the tokens that are encoded: a prefix that has
\* one is not found in it.
LEMMA NotInAPathname ==
    ASSUME NEW r \in Path, ~SpelledAlike(r), NEW v \in Path, SpelledAlike(v)
    PROVE  ReplaceFirstSubSeq(<<>>, r, v) = v
<1>1. ASSUME r \in SubSeqs(v) PROVE FALSE
  <2>1. PICK i \in 0 .. Len(v), j \in 0 .. Len(v) : r = SubSeq(v, i + 1, j)
    BY <1>1 DEF SubSeqs
  <2>2. /\ Len(v) \in Nat /\ i + 1 \in Int /\ j \in Int
        /\ \A n \in 1 .. Len(v) : v[n] \in Element
    BY LenProperties, ElementOfSeq DEF Path, Element
  <2>3. \A n \in i + 1 .. j : v[n] \in Element
    BY <2>2
  <2>4. /\ Len(r) = IF i + 1 <= j THEN j - (i + 1) + 1 ELSE 0
        /\ \A n \in 1 .. j - (i + 1) + 1 : r[n] = v[i + 1 + n - 1]
    BY <2>1, <2>2, <2>3, SubSeqProperties
  <2>5. PICK n \in 1 .. Len(r) : r[n] \in DOMAIN Encoding
    BY SpelledAlikeMeans
  <2>6. n \in 1 .. j - (i + 1) + 1 /\ i + 1 + n - 1 \in 1 .. Len(v)
    BY <2>2, <2>4
  <2>7. \A m \in 1 .. Len(v) : v[m] \notin DOMAIN Encoding
    BY SpelledAlikeMeans
  <2> QED
    BY <2>4, <2>5, <2>6, <2>7
<1> QED
  BY <1>1 DEF ReplaceFirstSubSeq

\* The path of a URL that spells an asset's path otherwise leads to another key,
\* which is no shorter.
LEMMA EncodedLeadsElsewhere ==
    ASSUME NEW s \in Joined, NEW k \in Path, IsPath(k), Below(s, k),
           ~SpelledAlike(UrlOf(s, k))
    PROVE  \E key \in Path :
             /\ AssetKey(s, Pathname(UrlOf(s, k))) = key /\ key # k
             /\ key # <<>> /\ key[Len(key)] # "/" /\ Len(k) <= Len(key)
<1> DEFINE P == s.publicDirPrefix
           R == NormalizePath(s.routePrefix)
           B == Base(s)
           Q == IF R = Slash THEN <<>> ELSE R
           u == UrlOf(s, k)
<1>1. s \in ServerConfig
  BY DEF Joined
<1>2. PICK rest \in Path : k = B \o rest /\ rest # <<>> /\ rest[1] = "/"
  <2>1. B \in Path /\ Slash \in Path /\ B \o Slash \in Path
    BY <1>1, BaseType, SlashType, PathJoin
  <2>2. PICK y \in Path : k = (B \o Slash) \o y
    BY <2>1, PrefixSplits DEF Below
  <2>3. k = B \o (Slash \o y)
    BY <2>1, <2>2, SlashAssociative
  <2> QED
    BY <2>3, SlashThen
<1>3. /\ P \in Path /\ B \in Path /\ R \in Path /\ R # <<>> /\ R[1] = "/"
      /\ B = IF P = <<>> THEN <<>> ELSE Rooted(P)
  BY <1>1, BaseType, NormalizedType DEF Base
<1>4. Q \in Path /\ u = Q \o rest
  <2>1. <<>> \in Path
    BY EmptySeq DEF Path
  <2> QED
    BY <1>1, <1>2, <1>3, <2>1, UrlMeans
<1> DEFINE rest2 == Pathname(rest)
<1>5. /\ rest2 \in Path /\ Len(rest) \in Nat /\ Len(rest2) = Len(rest)
      /\ \A i \in 1 .. Len(rest) : rest[i] \in Element /\ rest2[i] = Spelled(rest[i])
  BY PathnameType
<1>6. Len(rest) >= 1
  <2>1. Len(rest) # 0
    BY <1>2, EmptySeq DEF Path
  <2> QED
    BY <1>5, <2>1
<1>7. \A i \in 1 .. Len(rest) : rest[i] = "/" <=> rest2[i] = "/"
  BY <1>5, SpelledType
<1>8. /\ Len(k) \in Nat /\ Len(k) >= 2 /\ k[1] = "/" /\ k[2] # "/" /\ k[Len(k)] # "/"
  BY PathIsPlain DEF IsPath
<1>9. /\ Len(B) \in Nat /\ Len(k) = Len(B) + Len(rest)
      /\ \A i \in 1 .. Len(B) : k[i] = B[i]
      /\ \A i \in 1 .. Len(rest) : k[Len(B) + i] = rest[i]
  <2>1. B \in Path /\ rest \in Path /\ k = B \o rest
    BY <1>2, <1>3
  <2> HIDE DEF B
  <2> QED
    BY <2>1, PathJoin
<1>10. rest2[Len(rest)] # "/" /\ rest2[1] = "/"
  <2>1. Len(rest) \in 1 .. Len(rest) /\ 1 \in 1 .. Len(rest)
    BY <1>5, <1>6
  <2> QED
    BY <1>2, <1>7, <1>8, <1>9, <2>1
<1>11. Pathname(u) = Pathname(Q) \o rest2
       /\ (SpelledAlike(u) <=> SpelledAlike(Q) /\ SpelledAlike(rest))
  BY <1>4, PathnameOfConcat
<1> HIDE DEF P, R, B, u, rest2
<1>12. CASE SpelledAlike(Q)
  <2> DEFINE k2 == B \o rest2
  <2>1. /\ k2 \in Path /\ Len(k2) = Len(B) + Len(rest2)
        /\ \A i \in 1 .. Len(B) : k2[i] = B[i]
        /\ \A i \in 1 .. Len(rest2) : k2[Len(B) + i] = rest2[i]
    BY <1>3, <1>5, PathJoin
  <2>2. Pathname(u) = Q \o rest2
    BY <1>4, <1>11, <1>12, PathnameType
  <2>3. UrlOf(s, k2) = Q \o rest2
    BY <1>1, <1>5, UrlMeans DEF R, B
  <2>4. Leads(s, k2)
    BY <1>5, <1>10 DEF Leads, B
  <2> HIDE DEF k2, Q
  <2>5. Len(k2) = Len(k)
    BY <1>5, <1>9, <2>1
  <2>6. \A i \in 1 .. Len(k) : k[i] = "/" <=> k2[i] = "/"
    <3>1. ASSUME NEW i \in 1 .. Len(k) PROVE k[i] = "/" <=> k2[i] = "/"
      <4>1. CASE i <= Len(B)
        BY <1>9, <2>1, <4>1
      <4>2. CASE ~(i <= Len(B))
        <5>1. i - Len(B) \in 1 .. Len(rest) /\ Len(B) + (i - Len(B)) = i
          BY <1>5, <1>9, <4>2
        <5>2. k[i] = rest[i - Len(B)] /\ k2[i] = rest2[i - Len(B)]
          BY <1>5, <1>9, <2>1, <5>1
        <5> QED
          BY <1>7, <5>1, <5>2
      <4> QED
        BY <4>1, <4>2
    <3> QED
      BY <3>1
  <2>7. IsPath(k2)
    <3>1. 1 \in 1 .. Len(k) /\ 2 \in 1 .. Len(k) /\ Len(k) \in 1 .. Len(k)
      BY <1>8
    <3> QED
      BY <1>8, <2>5, <2>6, <3>1 DEF IsPath
  <2>8. Plain(k2) /\ k2 # <<>> /\ Rooted(k2) = k2 /\ k2[Len(k2)] # "/"
    BY <2>1, <2>7, PathIsPlain
  <2>9. AssetKey(s, Pathname(u)) = k2
    BY <2>1, <2>2, <2>3, <2>4, <2>8, AssetKeyOfUrl
  <2>10. k2 # k
    <3>1. ~SpelledAlike(rest)
      BY <1>11, <1>12 DEF u
    <3>2. PICK i \in 1 .. Len(rest) : rest[i] \in DOMAIN Encoding
      BY <3>1, SpelledAlikeMeans
    <3>3. rest2[i] # rest[i]
      BY <1>5, <3>2, SpelledType
    <3> QED
      BY <1>5, <1>9, <2>1, <3>3
  <2>11. Len(k) <= Len(k2)
    BY <1>8, <2>5
  <2> QED
    BY <2>1, <2>8, <2>9, <2>10, <2>11 DEF u
<1>13. CASE ~SpelledAlike(Q)
  <2>1. Q = R
    <3>1. ASSUME Q = <<>> PROVE FALSE
      <4>1. Len(Q) = 0
        BY <3>1, EmptySeq
      <4>2. SpelledAlike(Q)
        BY <1>4, <4>1, SpelledAlikeMeans
      <4> QED
        BY <1>13, <4>2
    <3> QED
      BY <3>1
  <2>2. ~SpelledAlike(R)
    BY <1>13, <2>1
  <2> DEFINE v == Pathname(u)
             x == Pathname(R)
  <2>3. v = x \o rest2
    BY <1>11, <2>1
  <2>4. x \in Path /\ Len(x) = Len(R) /\ Len(R) \in Nat
    BY <1>3, PathnameType
  <2>5. v \in Path /\ SpelledAlike(v)
    <3>1. u \in Path
      BY <1>4, PathJoin
    <3> QED
      BY <3>1, PathnameType
  <2> HIDE DEF v, x, Q
  <2>6. Len(R) >= 2
    <3>1. PICK i \in 1 .. Len(R) : R[i] \in DOMAIN Encoding
      BY <1>3, <2>2, SpelledAlikeMeans
    <3>2. "/" \notin DOMAIN Encoding
      BY AssetPathsAssumption
    <3>3. i # 1
      BY <1>3, <3>1, <3>2
    <3> QED
      BY <2>4, <3>1, <3>3
  <2>7. AssetKey(s, v) = Rooted(P \o v)
    <3>1. ReplaceFirstSubSeq(<<>>, R, v) = v
      BY <1>3, <2>2, <2>5, NotInAPathname
    <3> QED
      BY <3>1 DEF AssetKey, P, R
  <2>8. Len(v) = Len(R) + Len(rest) /\ v[Len(v)] # "/"
    <3>1. /\ Len(v) = Len(x) + Len(rest2)
          /\ \A i \in 1 .. Len(rest2) : v[Len(x) + i] = rest2[i]
      BY <1>5, <2>3, <2>4, PathJoin
    <3>2. Len(rest) \in 1 .. Len(rest2)
      BY <1>5, <1>6
    <3> QED
      BY <1>5, <1>10, <2>4, <3>1, <3>2
  <2> DEFINE w == P \o v
  <2>9. w \in Path /\ Len(P) \in Nat /\ Len(w) = Len(P) + Len(v) /\ w[Len(w)] # "/"
    <3>1. /\ w \in Path /\ Len(P) \in Nat /\ Len(w) = Len(P) + Len(v)
          /\ \A i \in 1 .. Len(v) : w[Len(P) + i] = v[i]
      BY <1>3, <2>5, PathJoin
    <3>2. Len(v) \in 1 .. Len(v)
      BY <1>5, <2>4, <2>6, <2>8
    <3> QED
      BY <2>8, <3>1, <3>2
  <2> HIDE DEF w
  <2> DEFINE key == Rooted(w)
  <2>10. /\ key \in Path /\ key # <<>>
         /\ (Len(key) = Len(w) \/ Len(key) = Len(w) + 1)
         /\ key[Len(key)] = w[Len(w)]
    BY <1>5, <2>4, <2>6, <2>8, <2>9, RootedLength
  <2>11. Len(B) <= Len(P) + 1
    <3>1. CASE P = <<>>
      BY <1>3, <2>9, <3>1, EmptySeq
    <3>2. CASE P # <<>>
      BY <1>3, <2>9, <3>2, RootedLength
    <3> QED
      BY <3>1, <3>2
  <2>12. AssetKey(s, v) = key
    BY <2>7 DEF w
  <2> HIDE DEF key
  <2>13. Len(k) < Len(key)
    BY <1>5, <1>9, <2>4, <2>6, <2>8, <2>9, <2>10, <2>11
  <2>14. key # k /\ Len(k) <= Len(key)
    BY <1>8, <2>10, <2>13
  <2>15. AssetKey(s, Pathname(UrlOf(s, k))) = key
    BY <2>12 DEF u, v
  <2> QED
    BY <2>9, <2>10, <2>14, <2>15
<1> QED
  BY <1>12, <1>13

\* A path whose candidates are other keys, or longer ones, does not find k.
LEMMA NotFoundIfOther ==
    ASSUME NEW s \in ServerConfig, NEW path, NEW key \in Path, key # <<>>,
           AssetKey(s, path) = key, key[Len(key)] # "/",
           NEW k \in Path, k # <<>>, key # k, Len(k) <= Len(key)
    PROVE  MatchingAsset(s, path) # k
<1> DEFINE c == Candidates(s, path)
           x == s.autoExt
           y == s.autoIndex
           D == key \o Slash
           n == 1 + Len(x)
<1>1. /\ c \in Seq(Path) /\ Len(x) \in Nat /\ Len(y) \in Nat /\ Len(c) = n + Len(y)
      /\ c[1] = key /\ (\A j \in 1 .. Len(x) : c[1 + j] = Join(key, x[j]))
      /\ \A j \in 1 .. Len(y) : c[n + j] = Join(D, y[j])
  <2>1. TriesAll(c, s, key)
    BY CandidatesType
  <2> HIDE DEF c
  <2> QED
    BY <2>1 DEF TriesAll
<1>2. D \in Path /\ Len(D) = Len(key) + 1 /\ Len(key) \in Nat /\ Len(k) \in Nat
  <2> DEFINE a == Slash
  <2>1. a \in Path /\ Len(a) = 1
    BY SlashType
  <2> HIDE DEF a
  <2>2. key \o a \in Path /\ Len(key \o a) = Len(key) + Len(a) /\ Len(key) \in Nat
    BY <2>1, PathJoin
  <2>3. Len(k) \in Nat
    BY LenProperties DEF Path
  <2> QED
    BY <2>1, <2>2, <2>3 DEF a
<1>3. /\ \A j \in 1 .. Len(x) : x[j] \in Element
      /\ \A j \in 1 .. Len(y) : y[j] \in Element
  <2>1. x \in Seq(Token) /\ y \in Seq(Token)
    BY AssetPathsAssumption
  <2> QED
    BY <2>1, ElementOfSeq DEF Element
<1>4. c = Candidates(s, path)
  OBVIOUS
<1> HIDE DEF c, D, x, y
<1>5. \A j \in 1 .. Len(x) : Len(Join(key, x[j])) = Len(key) + 1
  BY <1>3, LastOfJoin
<1>6. \A j \in 1 .. Len(y) : Len(Join(D, y[j])) = Len(D) + 1
  BY <1>2, <1>3, LastOfJoin
<1>7. ASSUME NEW j \in 1 .. Len(c) PROVE c[j] # k
  <2>1. CASE j = 1
    BY <1>1, <2>1
  <2>2. CASE j # 1 /\ j <= n
    <3>1. j - 1 \in 1 .. Len(x) /\ 1 + (j - 1) = j
      BY <1>1, <2>2
    <3>2. c[1 + (j - 1)] = Join(key, x[j - 1])
      BY <1>1, <3>1
    <3>3. Len(c[j]) = Len(key) + 1
      BY <1>5, <3>1, <3>2
    <3> QED
      BY <1>2, <3>3
  <2>3. CASE ~(j <= n)
    <3>1. j - n \in 1 .. Len(y) /\ n + (j - n) = j
      BY <1>1, <2>3
    <3>2. c[n + (j - n)] = Join(D, y[j - n])
      BY <1>1, <3>1
    <3>3. Len(c[j]) = Len(D) + 1
      BY <1>6, <3>1, <3>2
    <3> QED
      BY <1>2, <3>3
  <2> QED
    BY <2>1, <2>2, <2>3
<1> DEFINE T == {j \in DOMAIN c : c[j] \in Keys}
<1>8. DOMAIN c = 1 .. Len(c) /\ Len(c) \in Nat
  BY <1>1, LenProperties
<1>9. CASE T = {}
  <2>1. MatchingAsset(s, path) = <<>>
    BY <1>4, <1>9 DEF MatchingAsset, Nothing
  <2> QED
    BY <2>1
<1>10. CASE T # {}
  <2>1. PICK m \in T : \A j \in T : m <= j
    <3>1. T \in SUBSET Nat
      BY <1>8
    <3> HIDE DEF T
    <3> QED
      BY <1>10, <3>1, LeastNumber
  <2>2. /\ m \in 1 .. Len(c) /\ c[m] \in Keys /\ Len(c) \in Nat
        /\ \A j \in 1 .. Len(c) : j < m => c[j] \notin Keys
    <3>1. m \in 1 .. Len(c) /\ c[m] \in Keys
      BY <1>8
    <3>2. ASSUME NEW j \in 1 .. Len(c), j < m, c[j] \in Keys PROVE FALSE
      <4>1. j \in T
        BY <1>8, <3>2
      <4>2. m <= j
        BY <2>1, <4>1
      <4> QED
        BY <1>8, <3>1, <3>2, <4>2
    <3> QED
      BY <1>8, <3>1, <3>2
  <2> HIDE DEF T
  <2>3. c \in Seq(Path)
    BY <1>1
  <2>4. MatchingAsset(s, path) = c[m]
    BY <1>4, <2>2, <2>3, FirstFound
  <2> QED
    BY <1>7, <2>2, <2>4
<1> QED
  BY <1>9, <1>10

LEMMA UrlType ==
    ASSUME NEW s \in ServerConfig, NEW k \in Path, Leads(s, k)
    PROVE  UrlOf(s, k) \in Path
<1>1. PICK rest \in Path : k = Base(s) \o rest
  BY DEF Leads
<1>2. NormalizePath(s.routePrefix) \in Path /\ <<>> \in Path
  BY BaseType, NormalizedType, EmptySeq DEF Path
<1>3. UrlOf(s, k) = (IF NormalizePath(s.routePrefix) = Slash THEN <<>>
                     ELSE NormalizePath(s.routePrefix)) \o rest
  BY <1>1, UrlMeans
<1> QED
  BY <1>2, <1>3, PathJoin

\* A path that a URL spells as the file system does is the one looked up.
LEMMA ServedAsSpelled ==
    ASSUME NEW s \in ServerConfig, NEW k \in Path, Leads(s, k), SpelledAlike(UrlOf(s, k))
    PROVE  Served(s, UrlOf(s, k)) = MatchingAsset(s, UrlOf(s, k))
BY UrlType, PathnameType DEF Served

LEMMA AssetIsFound ==
    ASSUME tree \in Tree, files \subseteq tree,
           NEW s \in Joined, NEW k \in Keys, Below(s, k)
    PROVE  MatchingAsset(s, UrlOf(s, k)) = k
<1> DEFINE u == UrlOf(s, k)
           c == Candidates(s, u)
<1>1. k \in Path /\ IsPath(k) /\ s \in ServerConfig
  BY KeyType DEF Joined
<1>2. Plain(k) /\ k # <<>> /\ Rooted(k) = k /\ k[Len(k)] # "/"
  BY <1>1, PathIsPlain
<1>3. Leads(s, k)
  BY <1>1, BelowLeads
<1>4. AssetKey(s, u) = k
  BY <1>1, <1>2, <1>3, AssetKeyOfUrl
<1> HIDE DEF u
<1>5. /\ c \in Seq(Path) /\ Len(s.autoExt) \in Nat /\ Len(s.autoIndex) \in Nat
      /\ Len(c) = (1 + Len(s.autoExt)) + Len(s.autoIndex) /\ c[1] = k
  <2>1. TriesAll(c, s, k)
    BY <1>1, <1>2, <1>4, CandidatesType
  <2> HIDE DEF c
  <2> QED
    BY <2>1 DEF TriesAll
<1>6. 1 \in 1 .. Len(c) /\ \A j \in 1 .. Len(c) : ~(j < 1)
  <2>1. PICK m \in Nat, n \in Nat : Len(c) = (1 + m) + n
    BY <1>5
  <2> HIDE DEF c
  <2>2. Len(c) \in Nat /\ 1 <= Len(c)
    BY <2>1
  <2> QED
    BY <2>2
<1>7. c[1] \in Keys /\ \A j \in 1 .. Len(c) : j < 1 => c[j] \notin Keys
  BY <1>5, <1>6
<1>8. c = Candidates(s, u)
  OBVIOUS
<1> HIDE DEF c
<1>9. MatchingAsset(s, u) = c[1]
  BY <1>5, <1>6, <1>7, <1>8, FirstFound
<1> QED
  BY <1>5, <1>9 DEF u

\* getMatchingAsset finds the exact path before every other candidate: an asset
\* of a server's directory is served at the prefix followed by its path, whatever
\* other assets there are, also if a prefix occurs in it again, provided that a
\* URL spells this path as the file system does.  An asset whose name a URL
\* percent-encodes is not: serveRequest looks the encoded path up, whose
\* candidates are all other keys.
THEOREM AssetsAreServedAsSpelled == Spec => []ServedIffSpelledAlike
<1>1. ASSUME tree \in Tree, files \subseteq tree,
             NEW s \in Joined, NEW k \in Keys, Below(s, k)
      PROVE  Served(s, UrlOf(s, k)) = k <=> SpelledAlike(UrlOf(s, k))
  <2>1. k \in Path /\ IsPath(k) /\ s \in ServerConfig
    BY <1>1, KeyType DEF Joined
  <2>2. k # <<>>
    BY <2>1, PathIsPlain
  <2>3. CASE SpelledAlike(UrlOf(s, k))
    <3>1. Leads(s, k)
      BY <1>1, <2>1, BelowLeads
    <3>2. Served(s, UrlOf(s, k)) = MatchingAsset(s, UrlOf(s, k))
      BY <2>1, <2>3, <3>1, ServedAsSpelled
    <3> QED
      BY <1>1, <2>3, <3>2, AssetIsFound
  <2>4. CASE ~SpelledAlike(UrlOf(s, k))
    <3>1. PICK key \in Path :
            /\ AssetKey(s, Pathname(UrlOf(s, k))) = key /\ key # k
            /\ key # <<>> /\ key[Len(key)] # "/" /\ Len(k) <= Len(key)
      BY <1>1, <2>1, <2>4, EncodedLeadsElsewhere
    <3>2. MatchingAsset(s, Pathname(UrlOf(s, k))) # k
      BY <2>1, <2>2, <3>1, NotFoundIfOther
    <3> QED
      BY <2>4, <3>2 DEF Served
  <2> QED
    BY <2>3, <2>4
<1>2. TypeOK => ServedIffSpelledAlike
  BY <1>1 DEF TypeOK, ServedIffSpelledAlike
<1> QED
  BY WalkIsTyped, <1>2, PTL

-----------------------------------------------------------------------------
\* The index the configuration prefers among those a directory has.
Preferred(s, dir, i) ==
    /\ i \in 1 .. Len(s.autoIndex)
    /\ Join(dir \o Slash, s.autoIndex[i]) \in Keys
    /\ \A j \in 1 .. i - 1 : Join(dir \o Slash, s.autoIndex[j]) \notin Keys

LEMMA DirectoryType ==
    ASSUME NEW dir \in Path, dir = <<>> \/ IsPath(dir)
    PROVE  /\ dir \o Slash \in Path /\ dir \o Slash # <<>> /\ Plain(dir \o Slash)
           /\ (dir \o Slash)[Len(dir \o Slash)] = "/"
           /\ Rooted(dir \o Slash) = dir \o Slash /\ NoTrailingSlash(dir \o Slash) = dir
           /\ Plain(dir)
<1> DEFINE D == dir \o Slash
<1>1. D = Join(dir, "/")
  BY DEF Slash, Join
<1>2. "/" \in Element
  BY DEF Element
<1> HIDE DEF D
<1>3. /\ D \in Path /\ D # <<>> /\ Len(dir) \in Nat /\ Len(D) = Len(dir) + 1
      /\ D[Len(D)] = "/" /\ \A i \in 1 .. Len(dir) : D[i] = dir[i]
  BY <1>1, <1>2, LastOfJoin
<1>4. CASE dir = <<>>
  <2>1. Len(dir) = 0
    BY <1>4, EmptySeq
  <2>2. Len(D) = 1 /\ D[1] = "/" /\ ~(Len(D) > 1)
    BY <1>3, <2>1
  <2>3. Plain(D) /\ Plain(dir)
    BY <1>4, <2>2 DEF Plain
  <2>4. Rooted(D) = D
    BY <1>3, <2>2, RootedType
  <2>5. NoTrailingSlash(D) = dir
    BY <1>4, LastTokenKept DEF D
  <2> QED
    BY <1>3, <2>3, <2>4, <2>5 DEF D
<1>5. CASE IsPath(dir)
  <2>1. /\ Plain(dir) /\ dir # <<>> /\ Len(dir) >= 2 /\ dir[1] = "/" /\ dir[2] # "/"
        /\ dir[Len(dir)] # "/"
    BY <1>5, PathIsPlain DEF IsPath
  <2>2. 1 \in 1 .. Len(dir) /\ 2 \in 1 .. Len(dir)
    BY <1>3, <2>1
  <2>3. D[1] = "/" /\ D[2] # "/"
    BY <1>3, <2>1, <2>2
  <2>4. Plain(D)
    BY <2>3 DEF Plain
  <2>5. Rooted(D) = D
    BY <1>3, <2>3, RootedType
  <2>6. NoTrailingSlash(D) = dir
    BY <2>1, LastTokenKept DEF D
  <2> QED
    BY <1>3, <2>1, <2>4, <2>5, <2>6 DEF D
<1> QED
  BY <1>4, <1>5

\* A path that stands for a directory with its slash has only the indexes.
LEMMA IndexIsServed ==
    ASSUME NEW s \in ServerConfig, NEW dir \in Path, dir = <<>> \/ IsPath(dir),
           NEW i, Preferred(s, dir, i), NEW path, AssetKey(s, path) = dir \o Slash
    PROVE  MatchingAsset(s, path) = Join(dir \o Slash, s.autoIndex[i])
<1> DEFINE D == dir \o Slash
           y == s.autoIndex
           I == Index(s, D)
<1>1. D \in Path /\ D # <<>> /\ D[Len(D)] = "/" /\ NoTrailingSlash(D) = dir
  BY DirectoryType
<1>2. AssetKey(s, path) = D
  OBVIOUS
<1>3. /\ i \in 1 .. Len(y) /\ Join(D, y[i]) \in Keys
      /\ \A j \in 1 .. i - 1 : Join(D, y[j]) \notin Keys
  BY DEF Preferred
<1>4. I \in Seq(Path) /\ Len(y) \in Nat /\ Len(I) = Len(y)
      /\ \A j \in 1 .. Len(y) : I[j] = Join(NoTrailingSlash(D) \o Slash, y[j])
  <2> HIDE DEF D
  <2> QED
    BY <1>1, IndexType
<1>5. \A j \in 1 .. Len(y) : I[j] = Join(D, y[j])
  BY <1>1, <1>4
<1> HIDE DEF D
<1>6. ExactAndExt(s, D) = <<>>
  BY <1>1, ExactType
<1>7. Candidates(s, path) = <<>> \o I
  BY <1>2, <1>6 DEF Candidates
<1> HIDE DEF I
<1>8. Candidates(s, path) = I
  <2>1. <<>> \o I = I
    BY <1>4, ConcatEmptySeq
  <2> QED
    BY <1>7, <2>1
<1> HIDE DEF y
<1>9. i \in 1 .. Len(I) /\ I[i] = Join(D, y[i])
  BY <1>3, <1>4, <1>5
<1>10. \A j \in 1 .. Len(I) : j < i => I[j] \notin Keys
  <2>1. \A j \in 1 .. Len(I) : j < i => j \in 1 .. i - 1 /\ j \in 1 .. Len(y)
    BY <1>3, <1>4
  <2> QED
    BY <1>3, <1>5, <2>1
<1>11. MatchingAsset(s, path) = I[i]
  <2>1. I[i] \in Keys
    BY <1>3, <1>9
  <2> QED
    BY <1>4, <1>8, <1>9, <1>10, <2>1, FirstFound
<1> QED
  BY <1>9, <1>11 DEF D, y

\* What is before the indexes when the slash is missing.
Taken(s, dir) == {dir} \cup {Join(dir, s.autoExt[j]) : j \in 1 .. Len(s.autoExt)}

\* A path that stands for a directory without its slash has a file or a page
\* of that name before the indexes.
LEMMA NameIsServed ==
    ASSUME NEW s \in ServerConfig, NEW dir \in Path, IsPath(dir),
           NEW i, Preferred(s, dir, i), NEW path, AssetKey(s, path) = dir
    PROVE  /\ Taken(s, dir) \cap Keys = {} =>
                MatchingAsset(s, path) = Join(dir \o Slash, s.autoIndex[i])
           /\ Taken(s, dir) \cap Keys # {} => MatchingAsset(s, path) \in Taken(s, dir)
<1> DEFINE c == Candidates(s, path)
           x == s.autoExt
           y == s.autoIndex
           D == dir \o Slash
           n == 1 + Len(x)
           taken == Taken(s, dir)
<1>1. dir # <<>> /\ dir[Len(dir)] # "/"
  BY PathIsPlain
<1>2. /\ c \in Seq(Path) /\ Len(x) \in Nat /\ Len(y) \in Nat /\ Len(c) = n + Len(y)
      /\ c[1] = dir /\ (\A j \in 1 .. Len(x) : c[1 + j] = Join(dir, x[j]))
      /\ \A j \in 1 .. Len(y) : c[n + j] = Join(D, y[j])
  <2>1. dir # <<>> /\ dir[Len(dir)] # "/" /\ AssetKey(s, path) = dir
    BY <1>1
  <2>2. TriesAll(c, s, dir)
    BY <2>1, CandidatesType
  <2> HIDE DEF c
  <2> QED
    BY <2>2 DEF TriesAll
<1>3. /\ i \in 1 .. Len(y) /\ Join(D, y[i]) \in Keys
      /\ \A j \in 1 .. i - 1 : Join(D, y[j]) \notin Keys
  BY DEF Preferred
<1>4. taken = {dir} \cup {Join(dir, x[j]) : j \in 1 .. Len(x)}
  BY DEF Taken
<1>5. c = Candidates(s, path)
  OBVIOUS
<1> HIDE DEF c, D, x, y, taken
<1>6. n \in Nat /\ n >= 1 /\ Len(c) \in Nat /\ n <= Len(c) /\ i \in Nat
  BY <1>2, <1>3
<1>7. \A j \in 1 .. n : c[j] \in taken
  <2>1. ASSUME NEW j \in 1 .. n PROVE c[j] \in taken
    <3>1. CASE j = 1
      BY <1>2, <1>4, <3>1
    <3>2. CASE j # 1
      <4>1. j - 1 \in 1 .. Len(x) /\ 1 + (j - 1) = j
        BY <1>2, <3>2
      <4>2. c[1 + (j - 1)] = Join(dir, x[j - 1])
        BY <1>2, <4>1
      <4>3. c[j] = Join(dir, x[j - 1])
        BY <4>1, <4>2
      <4> QED
        BY <1>4, <4>1, <4>3
    <3> QED
      BY <3>1, <3>2
  <2> QED
    BY <2>1
<1>8. \A k \in taken : \E j \in 1 .. n : c[j] = k
  <2>1. 1 \in 1 .. n /\ \A j \in 1 .. Len(x) : 1 + j \in 1 .. n
    BY <1>2
  <2> QED
    BY <1>2, <1>4, <2>1
<1> HIDE DEF n
<1>9. ASSUME taken \cap Keys = {} PROVE MatchingAsset(s, path) = Join(D, y[i])
  <2>1. n + i \in 1 .. Len(c) /\ c[n + i] = Join(D, y[i])
    <3>1. n + i \in 1 .. Len(c)
      BY <1>2, <1>3, <1>6
    <3> QED
      BY <1>2, <1>3, <3>1
  <2>2. ASSUME NEW j \in 1 .. Len(c), j < n + i PROVE c[j] \notin Keys
    <3>1. CASE j <= n
      <4>1. j \in 1 .. n
        BY <1>6, <3>1
      <4> QED
        BY <1>7, <1>9, <4>1
    <3>2. CASE ~(j <= n)
      <4>1. j - n \in 1 .. i - 1 /\ j - n \in 1 .. Len(y) /\ n + (j - n) = j
        BY <1>2, <1>3, <1>6, <2>2, <3>2
      <4>2. c[n + (j - n)] = Join(D, y[j - n])
        BY <1>2, <4>1
      <4> QED
        BY <1>3, <4>1, <4>2
    <3> QED
      BY <3>1, <3>2
  <2> DEFINE m == n + i
  <2>3. /\ m \in 1 .. Len(c) /\ c[m] \in Keys /\ c[m] = Join(D, y[i])
        /\ \A j \in 1 .. Len(c) : j < m => c[j] \notin Keys
    BY <1>3, <2>1, <2>2
  <2> HIDE DEF m
  <2>4. c \in Seq(Path)
    BY <1>2
  <2>5. MatchingAsset(s, path) = c[m]
    BY <1>5, <2>3, <2>4, FirstFound
  <2> QED
    BY <2>3, <2>5
<1>10. ASSUME taken \cap Keys # {} PROVE MatchingAsset(s, path) \in taken
  <2> DEFINE T == {j \in 1 .. Len(c) : c[j] \in Keys}
  <2>1. PICK k \in taken : k \in Keys
    BY <1>10
  <2>2. PICK h \in 1 .. n : c[h] = k
    BY <1>8
  <2>3. h \in T
    <3>1. h \in 1 .. Len(c)
      BY <1>6
    <3> QED
      BY <2>1, <2>2, <3>1
  <2>4. PICK m \in T : \A j \in T : m <= j
    <3>1. T \in SUBSET Nat /\ T # {}
      BY <1>6, <2>3
    <3> HIDE DEF T
    <3> QED
      BY <3>1, LeastNumber
  <2>5. m \in 1 .. Len(c) /\ c[m] \in Keys /\ m <= h
    BY <2>3, <2>4
  <2>6. ASSUME NEW j \in 1 .. Len(c), j < m PROVE c[j] \notin Keys
    <3>1. ~(m <= j)
      BY <1>6, <2>5, <2>6
    <3> QED
      BY <2>4, <3>1
  <2>7. c \in Seq(Path)
    BY <1>2
  <2> HIDE DEF T
  <2>8. MatchingAsset(s, path) = c[m]
    BY <1>5, <2>5, <2>6, <2>7, FirstFound
  <2>9. m \in 1 .. n
    BY <1>6, <2>5
  <2> QED
    BY <1>7, <2>8, <2>9
<1> QED
  BY <1>9, <1>10 DEF D, y, taken

\* The directory an asset is in, with or without its slash, is below Base(s).
LEMMA DirectoryOfIndexLeads ==
    ASSUME tree \in Tree, files \subseteq tree, NEW s \in Joined, NEW f \in files,
           NEW dir, dir = Slashed(Front(f)), NEW i, Preferred(s, dir, i),
           Slashed(f) = Join(dir \o Slash, s.autoIndex[i]), Below(s, Slashed(f))
    PROVE  /\ s \in ServerConfig /\ dir \in Path /\ (dir = <<>> \/ IsPath(dir))
           /\ dir \o Slash \in Path /\ Leads(s, dir) /\ Leads(s, dir \o Slash)
<1>1. s \in ServerConfig
  BY DEF Joined
<1>2. dir \in Path /\ (dir = <<>> \/ IsPath(dir))
  <2>1. f \in Seq(Name) /\ f # <<>>
    BY TreeType
  <2>2. Len(f) - 1 \in 0 .. Len(f)
    BY <2>1, EmptySeq, LenProperties
  <2>3. Front(f) \in Seq(Name)
    BY <2>1, <2>2, PrefixType DEF Front
  <2> DEFINE g == Front(f)
  <2>4. g \in Seq(Name) /\ dir = Slashed(g)
    BY <2>3
  <2> HIDE DEF g
  <2> QED
    BY <2>4, SlashedShape
<1>3. s.autoIndex[i] \in Token
  <2>1. s.autoIndex \in Seq(Token) /\ i \in 1 .. Len(s.autoIndex)
    BY <1>1, AssetPathsAssumption DEF Preferred
  <2> QED
    BY <2>1, ElementOfSeq
<1>4. Leads(s, dir) /\ Leads(s, dir \o Slash)
  <2> DEFINE x == s.autoIndex[i]
  <2>1. Below(s, Join(dir \o Slash, x)) /\ x \in Token
    BY <1>3
  <2> HIDE DEF x
  <2> QED
    BY <1>1, <1>2, <2>1, DirectoryLeads
<1> QED
  BY <1>1, <1>2, <1>4, SlashType, PathJoin

LEMMA DirectoryIsServed ==
    ASSUME tree \in Tree, files \subseteq tree, NEW s \in Joined, NEW f \in files,
           NEW dir, dir = Slashed(Front(f)), NEW i, Preferred(s, dir, i),
           Slashed(f) = Join(dir \o Slash, s.autoIndex[i]), Below(s, Slashed(f))
    PROVE  /\ MatchingAsset(s, UrlOf(s, dir \o Slash)) = Slashed(f)
           /\ Taken(s, dir) \cap Keys = {} => MatchingAsset(s, UrlOf(s, dir)) = Slashed(f)
           /\ Taken(s, dir) \cap Keys # {} => MatchingAsset(s, UrlOf(s, dir)) \in Taken(s, dir)
<1>1. s \in ServerConfig
  BY DEF Joined
<1>2. dir \in Path /\ (dir = <<>> \/ IsPath(dir))
  BY DirectoryOfIndexLeads
<1>4. Leads(s, dir) /\ Leads(s, dir \o Slash)
  BY DirectoryOfIndexLeads
<1>5. /\ dir \o Slash \in Path /\ Plain(dir \o Slash) /\ Plain(dir)
      /\ Rooted(dir \o Slash) = dir \o Slash
  BY <1>2, DirectoryType
<1>6. AssetKey(s, UrlOf(s, dir \o Slash)) = dir \o Slash
  BY <1>4, <1>5, AssetKeyOfUrl
<1>7. AssetKey(s, UrlOf(s, dir)) = Rooted(dir)
  BY <1>2, <1>4, <1>5, AssetKeyOfUrl
<1>8. MatchingAsset(s, UrlOf(s, dir \o Slash)) = Slashed(f)
  BY <1>1, <1>2, <1>6, IndexIsServed
<1>9. CASE dir = <<>>
  <2>1. Rooted(dir) = dir \o Slash
    <3>1. Rooted(dir) = Slash \o <<>>
      BY <1>2, <1>9, RootedType
    <3>2. Slash \o <<>> = Slash /\ <<>> \o Slash = Slash
      BY SlashType, ConcatEmptySeq DEF Path
    <3> QED
      BY <1>9, <3>1, <3>2
  <2>2. MatchingAsset(s, UrlOf(s, dir)) = Slashed(f)
    BY <1>1, <1>2, <1>7, <2>1, IndexIsServed
  <2>3. Taken(s, dir) \cap Keys = {}
    <3>1. \A k \in Keys : Len(k) # 0 /\ Len(k) # 1
      BY KeyType, PathIsPlain
    <3>2. Len(dir) = 0
      BY <1>9, EmptySeq
    <3>3. \A j \in 1 .. Len(s.autoExt) : Len(Join(dir, s.autoExt[j])) = 1
      <4>1. s.autoExt \in Seq(Token)
        BY <1>1, AssetPathsAssumption
      <4>2. \A j \in 1 .. Len(s.autoExt) : s.autoExt[j] \in Element
        BY <4>1, ElementOfSeq DEF Element
      <4>3. \A c \in Element : Len(Join(dir, c)) = Len(dir) + 1
        BY <1>2, LastOfJoin
      <4>4. 0 + 1 = 1
        OBVIOUS
      <4> QED
        BY <3>2, <4>2, <4>3, <4>4
    <3>4. \A k \in Taken(s, dir) : Len(k) = 0 \/ Len(k) = 1
      BY <3>2, <3>3 DEF Taken
    <3> QED
      BY <3>1, <3>4
  <2> QED
    BY <1>8, <2>2, <2>3
<1>10. CASE IsPath(dir)
  <2>1. Rooted(dir) = dir
    BY <1>2, <1>10, PathIsPlain
  <2>2. AssetKey(s, UrlOf(s, dir)) = dir
    BY <1>7, <2>1
  <2>3. /\ Taken(s, dir) \cap Keys = {} =>
             MatchingAsset(s, UrlOf(s, dir)) = Join(dir \o Slash, s.autoIndex[i])
        /\ Taken(s, dir) \cap Keys # {} => MatchingAsset(s, UrlOf(s, dir)) \in Taken(s, dir)
    BY <1>1, <1>2, <1>10, <2>2, NameIsServed
  <2> QED
    BY <1>8, <2>3
<1> QED
  BY <1>2, <1>9, <1>10

\* A directory that a URL spells as the file system does is served by the index
\* the configuration prefers, with or without a slash at the end, unless a file or
\* a page of that name is in the way, which is then served: getMatchingAsset, with
\* the path serveRequest takes out of the URL.
THEOREM DirectoriesAreServed == Spec => []FriendlyUrls
<1>1. TypeOK => FriendlyUrls
  <2> SUFFICES ASSUME TypeOK, NEW s \in Joined, NEW f \in files,
                      NEW i \in DOMAIN s.autoIndex,
                      Slashed(f) = Slashed(Front(f)) \o Slash \o <<s.autoIndex[i]>>,
                      \A j \in 1 .. i - 1 :
                         Slashed(Front(f)) \o Slash \o <<s.autoIndex[j]>> \notin Keys,
                      Below(s, Slashed(f))
               PROVE  LET dir == Slashed(Front(f))
                          taken == {dir} \cup {dir \o <<s.autoExt[j]>> : j \in DOMAIN s.autoExt}
                      IN /\ SpelledAlike(UrlOf(s, dir \o Slash)) =>
                               Served(s, UrlOf(s, dir \o Slash)) = Slashed(f)
                         /\ SpelledAlike(UrlOf(s, dir)) =>
                               IF taken \cap Keys = {}
                               THEN Served(s, UrlOf(s, dir)) = Slashed(f)
                               ELSE Served(s, UrlOf(s, dir)) \in taken
    BY DEF FriendlyUrls
  <2> DEFINE dir == Slashed(Front(f))
             taken == {dir} \cup {dir \o <<s.autoExt[j]>> : j \in DOMAIN s.autoExt}
  <2>1. tree \in Tree /\ files \subseteq tree
    BY DEF TypeOK
  <2>2. s.autoIndex \in Seq(Token) /\ s.autoExt \in Seq(Token)
    BY AssetPathsAssumption DEF Joined
  <2>3. DOMAIN s.autoIndex = 1 .. Len(s.autoIndex) /\ DOMAIN s.autoExt = 1 .. Len(s.autoExt)
    BY <2>2, LenProperties
  <2>4. Slashed(f) = Join(dir \o Slash, s.autoIndex[i])
    BY DEF Join
  <2>5. Slashed(f) \in Keys
    BY DEF Keys
  <2>6. Preferred(s, dir, i)
    BY <2>3, <2>4, <2>5 DEF Preferred, Join
  <2>7. taken = Taken(s, dir)
    BY <2>3 DEF Taken, Join
  <2>8. dir = Slashed(Front(f))
    OBVIOUS
  <2> HIDE DEF dir, taken
  <2>9. /\ MatchingAsset(s, UrlOf(s, dir \o Slash)) = Slashed(f)
        /\ Taken(s, dir) \cap Keys = {} => MatchingAsset(s, UrlOf(s, dir)) = Slashed(f)
        /\ Taken(s, dir) \cap Keys # {} => MatchingAsset(s, UrlOf(s, dir)) \in Taken(s, dir)
    BY <2>1, <2>4, <2>6, <2>8, DirectoryIsServed
  <2>10. /\ s \in ServerConfig /\ dir \in Path /\ dir \o Slash \in Path
         /\ Leads(s, dir) /\ Leads(s, dir \o Slash)
    BY <2>1, <2>4, <2>6, <2>8, DirectoryOfIndexLeads
  <2>11. /\ SpelledAlike(UrlOf(s, dir \o Slash)) =>
               Served(s, UrlOf(s, dir \o Slash)) = Slashed(f)
         /\ SpelledAlike(UrlOf(s, dir)) =>
               IF taken \cap Keys = {}
               THEN Served(s, UrlOf(s, dir)) = Slashed(f)
               ELSE Served(s, UrlOf(s, dir)) \in taken
    BY <2>7, <2>9, <2>10, ServedAsSpelled
  <2> QED
    BY <2>11 DEF dir, taken
<1> QED
  BY WalkIsTyped, <1>1, PTL

=============================================================================
