--------------------------- MODULE InstanceProofs ---------------------------
(***************************************************************************)
(* Proofs about the builtins of an instance: its calls of the host and the *)
(* _free helpers, for lists of any length; the natives of its stores, for  *)
(* any number of calls of open and any addresses; its secrets, for an      *)
(* int32 of any width; the information on its request, for any headers.    *)
(***************************************************************************)
EXTENDS MCInstance, BindingsProofs, FiniteSetTheorems

-----------------------------------------------------------------------------
(* Blocks in order.  FlattenSeq is a recursive function too.              *)

Flattens(F, s, n) ==
    /\ F = [i \in 1 .. n |-> F[i]]
    /\ \A i \in 1 .. n : F[i] = IF i = 1 THEN s[i] ELSE F[i - 1] \o s[i]

LEMMA FlattenExists ==
    ASSUME NEW s, NEW n \in Nat
    PROVE  \E F : Flattens(F, s, n)
<1> DEFINE T == {k \in Nat : \E F : Flattens(F, s, k)}
<1>1. 0 \in T
  <2>1. Flattens([i \in 1 .. 0 |-> 0], s, 0)
    BY DEF Flattens
  <2> QED
    BY <2>1
<1>2. ASSUME NEW k \in T PROVE k + 1 \in T
  <2>1. PICK F : Flattens(F, s, k)
    OBVIOUS
  <2> DEFINE G == [i \in 1 .. k + 1 |-> IF i \in 1 .. k THEN F[i] ELSE
                                        IF i = 1 THEN s[i] ELSE F[k] \o s[i]]
  <2>2. \A i \in 1 .. k : G[i] = F[i]
    OBVIOUS
  <2>3. G[k + 1] = IF k + 1 = 1 THEN s[k + 1] ELSE F[k] \o s[k + 1]
    OBVIOUS
  <2>4. G = [i \in 1 .. k + 1 |-> G[i]]
    OBVIOUS
  <2> HIDE DEF G
  <2>5. ASSUME NEW i \in 1 .. k + 1
        PROVE G[i] = IF i = 1 THEN s[i] ELSE G[i - 1] \o s[i]
    <3>1. CASE i = k + 1
      <4>1. CASE k = 0
        BY <2>3, <3>1, <4>1
      <4>2. CASE k # 0
        <5>1. k \in 1 .. k /\ i - 1 = k /\ i # 1
          BY <3>1, <4>2
        <5>2. G[i - 1] = F[k]
          BY <2>2, <5>1
        <5> QED
          BY <2>3, <3>1, <5>1, <5>2
      <4> QED
        BY <4>1, <4>2
    <3>2. CASE i # k + 1
      <4>1. i \in 1 .. k
        BY <3>2
      <4>2. F[i] = IF i = 1 THEN s[i] ELSE F[i - 1] \o s[i]
        BY <2>1, <4>1 DEF Flattens
      <4>3. i # 1 => G[i - 1] = F[i - 1]
        BY <2>2, <4>1
      <4> QED
        BY <2>2, <4>1, <4>2, <4>3
    <3> QED
      BY <3>1, <3>2
  <2>6. Flattens(G, s, k + 1)
    BY <2>4, <2>5 DEF Flattens
  <2> QED
    BY <2>6
<1> HIDE DEF T
<1>3. T \in SUBSET Nat
  BY DEF T
<1>4. T = Nat
  BY <1>1, <1>2, <1>3, NumbersByInduction
<1> QED
  BY <1>4 DEF T

LEMMA FlattenIsLast ==
    ASSUME NEW s, Len(s) \in Nat \ {0}
    PROVE  \E F : Flattens(F, s, Len(s)) /\ FlattenSeq(s) = F[Len(s)]
<1> DEFINE F == CHOOSE flatten : flatten
        = [i \in 1 .. Len(s) |-> IF i = 1 THEN s[i] ELSE flatten[i - 1] \o s[i]]
<1>1. \E f : f = [i \in 1 .. Len(s) |-> IF i = 1 THEN s[i] ELSE f[i - 1] \o s[i]]
  <2>1. PICK f : Flattens(f, s, Len(s))
    BY FlattenExists
  <2>2. f = [i \in 1 .. Len(s) |-> IF i = 1 THEN s[i] ELSE f[i - 1] \o s[i]]
    BY <2>1 DEF Flattens
  <2> QED
    BY <2>2
<1>2. F = [i \in 1 .. Len(s) |-> IF i = 1 THEN s[i] ELSE F[i - 1] \o s[i]]
  BY <1>1, Zenon
<1>3. FlattenSeq(s) = F[Len(s)]
  BY Zenon DEF FlattenSeq
<1> HIDE DEF F
<1>4. Flattens(F, s, Len(s))
  BY <1>2 DEF Flattens
<1> QED
  BY <1>3, <1>4

-----------------------------------------------------------------------------
\* None twice, and none after the one it is inside of.
InnerFirst(s) == \A i, j \in DOMAIN s : i < j => s[i] # s[j] /\ ~Above(s[i], s[j])

\* Blocks given back in turn: these.
InOrder(s, blocks) == s \in Seq(Paths) /\ InnerFirst(s) /\ ToSet(s) = blocks

LEMMA NoneInOrder == InOrder(<<>>, {})
<1>1. <<>> \in Seq(Paths)
  OBVIOUS
<1>2. InnerFirst(<<>>)
  BY DEF InnerFirst
<1>3. ToSet(<<>>) = {}
  BY DEF ToSet
<1> QED
  BY <1>1, <1>2, <1>3 DEF InOrder

LEMMA JoinInOrder ==
    ASSUME NEW x, NEW B, InOrder(x, B), NEW y, NEW C, InOrder(y, C),
           \A p \in B, q \in C : p # q /\ ~Above(p, q)
    PROVE  InOrder(x \o y, B \cup C)
<1>1. x \in Seq(Paths) /\ y \in Seq(Paths)
  BY DEF InOrder
<1> DEFINE z == x \o y
           m == Len(x)
           n == Len(y)
<1>2. m \in Nat /\ n \in Nat /\ DOMAIN x = 1 .. m /\ DOMAIN y = 1 .. n
  BY <1>1, LenProperties
<1>3. /\ z \in Seq(Paths) /\ Len(z) = m + n
      /\ \A i \in 1 .. m + n : z[i] = IF i <= m THEN x[i] ELSE y[i - m]
  BY <1>1, ConcatProperties
<1>4. DOMAIN z = 1 .. m + n
  BY <1>3, LenProperties
<1> HIDE DEF z, m, n
<1>5. \A i \in 1 .. m : i \in 1 .. m + n /\ z[i] = x[i] /\ x[i] \in B
  <2> SUFFICES ASSUME NEW i \in 1 .. m PROVE i \in 1 .. m + n /\ z[i] = x[i] /\ x[i] \in B
    OBVIOUS
  <2>1. i \in 1 .. m + n /\ i <= m
    BY <1>2
  <2> QED
    BY <1>2, <1>3, <2>1 DEF InOrder, ToSet
<1>6. \A j \in 1 .. n : j + m \in 1 .. m + n /\ z[j + m] = y[j] /\ y[j] \in C
  <2> SUFFICES ASSUME NEW j \in 1 .. n PROVE j + m \in 1 .. m + n /\ z[j + m] = y[j] /\ y[j] \in C
    OBVIOUS
  <2>1. j + m \in 1 .. m + n /\ ~(j + m <= m) /\ (j + m) - m = j
    BY <1>2
  <2> QED
    BY <1>2, <1>3, <2>1 DEF InOrder, ToSet
<1>7. \A i \in 1 .. m + n : i \in 1 .. m \/ \E j \in 1 .. n : i = j + m
  <2> SUFFICES ASSUME NEW i \in 1 .. m + n, i \notin 1 .. m PROVE \E j \in 1 .. n : i = j + m
    OBVIOUS
  <2>1. i - m \in 1 .. n /\ i = (i - m) + m
    BY <1>2
  <2> QED
    BY <2>1
<1>8. ToSet(z) = B \cup C
  <2>1. B = {x[i] : i \in 1 .. m} /\ C = {y[j] : j \in 1 .. n}
            /\ ToSet(z) = {z[i] : i \in 1 .. m + n}
    BY <1>2, <1>4 DEF InOrder, ToSet
  <2>2. \A p : p \in ToSet(z) <=> \E i \in 1 .. m + n : p = z[i]
    BY <2>1
  <2>3. \A p : p \in B <=> \E i \in 1 .. m : p = x[i]
    BY <2>1
  <2>4. \A p : p \in C <=> \E j \in 1 .. n : p = y[j]
    BY <2>1
  <2>5. ASSUME NEW p PROVE p \in ToSet(z) <=> p \in B \/ p \in C
    BY <1>5, <1>6, <1>7, <2>2, <2>3, <2>4
  <2> QED
    BY <2>5
<1>9. InnerFirst(z)
  <2> SUFFICES ASSUME NEW i \in 1 .. m + n, NEW j \in 1 .. m + n, i < j
               PROVE  z[i] # z[j] /\ ~Above(z[i], z[j])
    BY <1>4 DEF InnerFirst
  <2>1. CASE j \in 1 .. m
    <3>1. i \in 1 .. m
      BY <1>2, <2>1
    <3> QED
      BY <1>2, <1>5, <2>1, <3>1 DEF InOrder, InnerFirst
  <2>2. CASE i \in 1 .. m /\ j \notin 1 .. m
    <3>1. PICK k \in 1 .. n : j = k + m
      BY <1>7, <2>2
    <3> QED
      BY <1>5, <1>6, <2>2, <3>1
  <2>3. CASE i \notin 1 .. m /\ j \notin 1 .. m
    <3>1. PICK k \in 1 .. n : j = k + m
      BY <1>7, <2>3
    <3>2. PICK l \in 1 .. n : i = l + m
      BY <1>7, <2>3
    <3>3. l < k
      BY <1>2, <3>1, <3>2
    <3>4. y[l] # y[k] /\ ~Above(y[l], y[k])
      BY <1>2, <3>3 DEF InOrder, InnerFirst
    <3> QED
      BY <1>6, <3>1, <3>2, <3>4
  <2>4. i \in 1 .. m \/ j \notin 1 .. m
    BY <1>2
  <2> QED
    BY <2>1, <2>2, <2>3, <2>4
<1> QED
  BY <1>3, <1>8, <1>9 DEF InOrder, z

\* In part i of a value, these.
Prefix(i, blocks) == {<<i>> \o p : p \in blocks}

LEMMA PrefixInOrder ==
    ASSUME NEW i \in Nat, NEW s, NEW B, InOrder(s, B)
    PROVE  InOrder([k \in DOMAIN s |-> <<i>> \o s[k]], Prefix(i, B))
<1>1. s \in Seq(Paths)
  BY DEF InOrder
<1>2. Len(s) \in Nat /\ DOMAIN s = 1 .. Len(s) /\ \A k \in DOMAIN s : s[k] \in Paths
  BY <1>1, LenProperties, ElementOfSeq
<1> DEFINE t == [k \in DOMAIN s |-> <<i>> \o s[k]]
           n == Len(s)
<1>3. DOMAIN t = DOMAIN s /\ \A k \in DOMAIN s : t[k] = <<i>> \o s[k]
  OBVIOUS
<1>4. \A k \in 1 .. n : t[k] \in Paths
  BY <1>2, <1>3, Prefixed
<1>5. t \in [1 .. n -> Paths]
  BY <1>2, <1>4
<1> HIDE DEF n
<1>6. t \in Seq(Paths)
  BY <1>2, <1>5, SeqDef DEF n
<1> HIDE DEF t
<1>7. InnerFirst(t)
  <2> SUFFICES ASSUME NEW k \in DOMAIN s, NEW l \in DOMAIN s, k < l
               PROVE  t[k] # t[l] /\ ~Above(t[k], t[l])
    BY <1>3 DEF InnerFirst
  <2>1. s[k] # s[l] /\ ~Above(s[k], s[l]) /\ s[k] \in Paths /\ s[l] \in Paths
    BY <1>2 DEF InOrder, InnerFirst
  <2>2. <<i>> \o s[k] = <<i>> \o s[l] <=> i = i /\ s[k] = s[l]
    BY <2>1, PrefixesAgree
  <2>3. Above(<<i>> \o s[k], <<i>> \o s[l]) <=> i = i /\ Above(s[k], s[l])
    BY <2>1, AbovePrefixed
  <2> QED
    BY <1>3, <2>1, <2>2, <2>3
<1>8. ToSet(t) = Prefix(i, B)
  <2>1. B = {s[k] : k \in DOMAIN s} /\ ToSet(t) = {t[k] : k \in DOMAIN s}
    BY <1>3 DEF InOrder, ToSet
  <2>2. \A p : p \in ToSet(t) <=> \E k \in DOMAIN s : p = <<i>> \o s[k]
    BY <1>3, <2>1
  <2>3. \A p : p \in Prefix(i, B) <=> \E k \in DOMAIN s : p = <<i>> \o s[k]
    BY <2>1 DEF Prefix
  <2> QED
    BY <2>2, <2>3
<1> QED
  BY <1>6, <1>7, <1>8 DEF InOrder, t

AllPrefixed(blocks, N) == UNION {Prefix(i, blocks[i]) : i \in 1 .. N}

LEMMA FlattenInOrder ==
    ASSUME NEW N \in Nat, NEW s, Tuple(s, N), NEW B, \A i \in 1 .. N : B[i] \in SUBSET Paths,
           \A i \in 1 .. N : InOrder(s[i], Prefix(i, B[i]))
    PROVE  InOrder(FlattenSeq(s), AllPrefixed(B, N))
<1> USE DEF AllPrefixed
<1> DEFINE U(k) == UNION {Prefix(i, B[i]) : i \in 1 .. k}
<1>0. Len(s) = N
  BY LenOf
<1>1. CASE N = 0
  <2>1. s = <<>>
    BY <1>1 DEF Tuple
  <2>2. FlattenSeq(s) = <<>>
    BY <2>1, EmptySeq DEF FlattenSeq
  <2>3. U(0) = {}
    OBVIOUS
  <2> QED
    BY <1>1, <2>2, <2>3, NoneInOrder
<1>2. CASE N # 0
  <2>1. N \in Nat \ {0}
    BY <1>2
  <2>2. PICK F : Flattens(F, s, N) /\ FlattenSeq(s) = F[N]
    BY <1>0, <2>1, FlattenIsLast
  <2> DEFINE T == {k \in Nat : k + 1 \in 1 .. N => InOrder(F[k + 1], U(k + 1))}
  <2>3. 0 \in T
    <3>1. 1 \in 1 .. N
      BY <2>1
    <3>2. F[1] = s[1]
      BY <2>2, <3>1 DEF Flattens
    <3>3. U(1) = Prefix(1, B[1])
      <4>1. 1 .. 1 = {1}
        OBVIOUS
      <4> QED
        BY <4>1
    <3> HIDE DEF U
    <3>4. InOrder(s[1], Prefix(1, B[1]))
      BY <3>1
    <3>5. InOrder(F[1], U(1))
      BY <3>2, <3>3, <3>4
    <3>6. 0 + 1 = 1 /\ 0 \in Nat
      OBVIOUS
    <3> QED
      BY <3>5, <3>6
  <2>4. ASSUME NEW k \in T PROVE k + 1 \in T
    <3> DEFINE i == k + 1
    <3> SUFFICES ASSUME i + 1 \in 1 .. N PROVE InOrder(F[i + 1], U(i + 1))
      OBVIOUS
    <3>1. k \in Nat
      OBVIOUS
    <3>2. i \in 1 .. N /\ i \in Nat /\ i + 1 # 1 /\ (i + 1) - 1 = i
      BY <3>1
    <3>3. InOrder(F[i], U(i))
      BY <3>2
    <3> HIDE DEF i
    <3>4. F[i + 1] = F[i] \o s[i + 1]
      BY <2>2, <3>2 DEF Flattens
    <3>5. U(i + 1) = U(i) \cup Prefix(i + 1, B[i + 1])
      <4>1. 1 .. i + 1 = (1 .. i) \cup {i + 1}
        BY <3>2
      <4> QED
        BY <4>1
    <3>6. InOrder(s[i + 1], Prefix(i + 1, B[i + 1]))
      OBVIOUS
    <3>7. ASSUME NEW p \in U(i), NEW q \in Prefix(i + 1, B[i + 1])
          PROVE  p # q /\ ~Above(p, q)
      <4>1. PICK j \in 1 .. i : p \in Prefix(j, B[j])
        OBVIOUS
      <4>2. PICK a \in B[j] : p = <<j>> \o a
        BY <4>1 DEF Prefix
      <4>3. PICK b \in B[i + 1] : q = <<i + 1>> \o b
        BY DEF Prefix
      <4>4. j \in 1 .. N /\ j \in Nat /\ i + 1 \in Nat /\ j # i + 1
        BY <3>2
      <4>5. a \in Paths /\ b \in Paths
        BY <4>4
      <4>6. <<j>> \o a = <<i + 1>> \o b <=> j = i + 1 /\ a = b
        BY <4>4, <4>5, PrefixesAgree
      <4>7. Above(<<j>> \o a, <<i + 1>> \o b) <=> j = i + 1 /\ Above(a, b)
        BY <4>4, <4>5, AbovePrefixed
      <4> QED
        BY <4>2, <4>3, <4>4, <4>6, <4>7
    <3> HIDE DEF U
    <3> QED
      BY <3>3, <3>4, <3>5, <3>6, <3>7, JoinInOrder
  <2> HIDE DEF T
  <2>5. T \in SUBSET Nat
    BY DEF T
  <2>6. T = Nat
    BY <2>3, <2>4, <2>5, NumbersByInduction
  <2>7. N - 1 \in T /\ (N - 1) + 1 = N /\ N \in 1 .. N
    BY <2>1, <2>6
  <2>8. InOrder(F[N], U(N))
    BY <2>7 DEF T
  <2> QED
    BY <2>2, <2>8
<1> QED
  BY <1>1, <1>2

-----------------------------------------------------------------------------
(* _free helpers.  Of every value of its type a helper gives back all blocks *)
(* but those it has no call for, each once and before the one its pointer is *)
(* in; so it does of a record, a list or a variant if its parts' helpers do. *)

\* A helper gives back what v owns, but for what it has no call for; and so of every value of a type.
Does(h, v) == Left(h, v) \in SUBSET Blocks(v) /\ InOrder(Freed(h, v), Blocks(v) \ Left(h, v))
Frees(h, t) == \A v \in t.values : v \in Values /\ Does(h, v)

BlocksOf(parts, I) == UNION {Prefix(i, Blocks(parts[i])) : i \in I}

LEMMA BlocksArePaths ==
    ASSUME NEW v \in Values
    PROVE  Blocks(v) \in SUBSET Paths
BY DEF Blocks, Values

LEMMA PartsBlocks ==
    ASSUME NEW w, NEW kind, NEW n, NEW I \in SUBSET Nat, NEW parts \in [I -> Values],
           MadeOf(w, kind, n, I, parts)
    PROVE  /\ \A p \in Paths : p # <<>> => (p \in Blocks(w) <=> p \in BlocksOf(parts, I))
           /\ <<>> \in Blocks(w) <=> kind = "list" /\ n > 0
           /\ <<>> \notin BlocksOf(parts, I)
           /\ Blocks(w) \in SUBSET Paths /\ BlocksOf(parts, I) \in SUBSET Paths
<1>1. /\ w \in Values /\ <<>> \in DOMAIN w
      /\ w[<<>>] = [kind |-> kind, n |-> n]
      /\ \A i \in I : \A p \in Paths :
            /\ <<i>> \o p \in DOMAIN w <=> p \in DOMAIN parts[i]
            /\ p \in DOMAIN parts[i] => w[<<i>> \o p] = parts[i][p]
      /\ \A p \in DOMAIN w : p # <<>> => Head(p) \in I /\ Tail(p) \in DOMAIN parts[Head(p)]
  BY DEF MadeOf
<1>2. <<>> \in Blocks(w) <=> kind = "list" /\ n > 0
  BY <1>1 DEF Blocks
<1>3. ASSUME NEW i \in I PROVE Blocks(parts[i]) \in SUBSET Paths
  <2>1. parts[i] \in Values
    OBVIOUS
  <2> QED
    BY <2>1, BlocksArePaths
<1>4. \A i \in I : \A p \in Blocks(parts[i]) : <<i>> \o p \in Paths /\ <<i>> \o p # <<>>
  BY <1>3, Prefixed
<1>5. \A q : q \in BlocksOf(parts, I) <=> \E i \in I : \E p \in Blocks(parts[i]) : q = <<i>> \o p
  <2>1. \A q : q \in BlocksOf(parts, I) <=> \E i \in I : q \in Prefix(i, Blocks(parts[i]))
    BY DEF BlocksOf
  <2>2. \A q, i : q \in Prefix(i, Blocks(parts[i])) <=> \E p \in Blocks(parts[i]) : q = <<i>> \o p
    BY DEF Prefix
  <2> QED
    BY <2>1, <2>2
<1>6. <<>> \notin BlocksOf(parts, I) /\ BlocksOf(parts, I) \in SUBSET Paths
  <2>1. ASSUME NEW q \in BlocksOf(parts, I) PROVE q # <<>> /\ q \in Paths
    <3>1. PICK i \in I : \E p \in Blocks(parts[i]) : q = <<i>> \o p
      BY <1>5
    <3> QED
      BY <1>4, <3>1
  <2> QED
    BY <2>1
<1>7. Blocks(w) \in SUBSET Paths
  BY <1>1, BlocksArePaths
<1>8. ASSUME NEW q \in BlocksOf(parts, I) PROVE q \in Blocks(w)
  <2>1. PICK i \in I : \E p \in Blocks(parts[i]) : q = <<i>> \o p
    BY <1>5
  <2>2. PICK p \in Blocks(parts[i]) : q = <<i>> \o p
    BY <2>1
  <2>3. p \in Paths /\ p \in DOMAIN parts[i] /\ parts[i][p].kind = "list" /\ parts[i][p].n > 0
    BY <1>3 DEF Blocks
  <2>4. q \in DOMAIN w /\ w[q] = parts[i][p]
    BY <1>1, <2>2, <2>3
  <2> QED
    BY <2>3, <2>4 DEF Blocks
<1>9. ASSUME NEW q \in Paths, q # <<>>, q \in Blocks(w) PROVE q \in BlocksOf(parts, I)
  <2>1. q \in DOMAIN w /\ w[q].kind = "list" /\ w[q].n > 0
    BY <1>9 DEF Blocks
  <2>2. Head(q) \in I /\ Tail(q) \in DOMAIN parts[Head(q)]
    BY <1>1, <1>9, <2>1
  <2>3. Tail(q) \in Paths /\ q = <<Head(q)>> \o Tail(q)
    BY <1>9, Taken
  <2>4. w[q] = parts[Head(q)][Tail(q)]
    BY <1>1, <2>2, <2>3
  <2>5. Tail(q) \in Blocks(parts[Head(q)])
    BY <2>1, <2>2, <2>4 DEF Blocks
  <2> QED
    BY <1>5, <2>2, <2>3, <2>5
<1> QED
  BY <1>2, <1>6, <1>7, <1>8, <1>9

\* What a helper does with part i of w.
LEMMA PartInOrder ==
    ASSUME NEW w, NEW i \in Nat, NEW v \in Values, PartOf(w, i) = v, NEW h, Does(h, v)
    PROVE  /\ InOrder(FreedOfPart(w, i, h), Prefix(i, Blocks(v) \ Left(h, v)))
           /\ LeftOfPart(w, i, h) = Prefix(i, Left(h, v))
           /\ Left(h, v) \in SUBSET Paths
           /\ Blocks(v) \ Left(h, v) \in SUBSET Paths
<1>1. InOrder(Freed(h, v), Blocks(v) \ Left(h, v)) /\ Left(h, v) \in SUBSET Blocks(v)
  BY DEF Does
<1>2. InOrder([k \in DOMAIN Freed(h, v) |-> <<i>> \o Freed(h, v)[k]],
          Prefix(i, Blocks(v) \ Left(h, v)))
  BY <1>1, PrefixInOrder
<1> QED
  BY <1>1, <1>2, BlocksArePaths DEF FreedOfPart, LeftOfPart, Prefix

LEMMA PrefixTwo ==
    ASSUME NEW i \in Nat, NEW j \in Nat, NEW B \in SUBSET Paths, NEW C \in SUBSET Paths,
           NEW q, q \in Prefix(i, B), q \in Prefix(j, C)
    PROVE  i = j /\ \E p \in B \cap C : q = <<i>> \o p
<1>1. PICK a \in B : q = <<i>> \o a
  BY DEF Prefix
<1>2. PICK b \in C : q = <<j>> \o b
  BY DEF Prefix
<1>3. a \in Paths /\ b \in Paths /\ i \in Nat /\ j \in Nat
  OBVIOUS
<1>4. Head(q) = i /\ Tail(q) = a
  BY <1>1, <1>3, Prefixed
<1>5. Head(q) = j /\ Tail(q) = b
  BY <1>2, <1>3, Prefixed
<1> QED
  BY <1>1, <1>4, <1>5

LEMMA TurnInOrder ==
    ASSUME NEW w, NEW kind, NEW n, NEW N \in Nat, NEW parts \in [1 .. N -> Values],
           MadeOf(w, kind, n, 1 .. N, parts), NEW helpers, Tuple(helpers, N),
           \A i \in 1 .. N : Does(helpers[i], parts[i])
    PROVE  /\ InOrder(FreedInTurn(w, helpers), BlocksOf(parts, 1 .. N) \ LeftInTurn(w, helpers))
           /\ LeftInTurn(w, helpers) \in SUBSET BlocksOf(parts, 1 .. N)
<1> DEFINE s == [i \in 1 .. N |-> FreedOfPart(w, i, helpers[i])]
           L == [i \in 1 .. N |-> Left(helpers[i], parts[i])]
           B == [i \in 1 .. N |-> Blocks(parts[i]) \ Left(helpers[i], parts[i])]
           A == [i \in 1 .. N |-> Blocks(parts[i])]
<1>1. DOMAIN helpers = 1 .. N
  BY DEF Tuple
<1>2. FreedInTurn(w, helpers) = FlattenSeq(s)
  BY <1>1 DEF FreedInTurn
<1>3. ASSUME NEW i \in 1 .. N
      PROVE  /\ InOrder(s[i], Prefix(i, B[i])) /\ B[i] \in SUBSET Paths
             /\ LeftOfPart(w, i, helpers[i]) = Prefix(i, L[i]) /\ L[i] \in SUBSET A[i]
             /\ A[i] \in SUBSET Paths /\ B[i] = A[i] \ L[i] /\ A[i] = Blocks(parts[i])
  <2>1. PartOf(w, i) = parts[i] /\ parts[i] \in Values /\ i \in Nat /\ Does(helpers[i], parts[i])
    BY DEF MadeOf
  <2>2. Left(helpers[i], parts[i]) \in SUBSET Blocks(parts[i])
    BY <2>1 DEF Does
  <2> QED
    BY <2>1, <2>2, PartInOrder, BlocksArePaths
<1>4. Tuple(s, N)
  BY DEF Tuple
<1>5. LeftInTurn(w, helpers) = AllPrefixed(L, N)
  <2>1. \A q : q \in LeftInTurn(w, helpers) <=> \E i \in 1 .. N : q \in LeftOfPart(w, i, helpers[i])
    BY <1>1 DEF LeftInTurn
  <2>2. \A i \in 1 .. N : LeftOfPart(w, i, helpers[i]) = Prefix(i, L[i])
    BY <1>3
  <2> HIDE DEF L
  <2> QED
    BY <2>1, <2>2 DEF AllPrefixed
<1>6. BlocksOf(parts, 1 .. N) = AllPrefixed(A, N)
  BY <1>3 DEF BlocksOf, AllPrefixed
<1> HIDE DEF s, L, B, A
<1>7. InOrder(FlattenSeq(s), AllPrefixed(B, N))
  <2>1. \A i \in 1 .. N : B[i] \in SUBSET Paths
    BY <1>3
  <2>2. \A i \in 1 .. N : InOrder(s[i], Prefix(i, B[i]))
    BY <1>3
  <2> QED
    BY <1>4, <2>1, <2>2, FlattenInOrder
<1>8. \A i \in 1 .. N : Prefix(i, L[i]) \in SUBSET Prefix(i, A[i])
  BY <1>3 DEF Prefix
<1>9. AllPrefixed(L, N) \in SUBSET AllPrefixed(A, N)
  BY <1>8 DEF AllPrefixed
<1>10. AllPrefixed(B, N) =
          (AllPrefixed(A, N)) \ AllPrefixed(L, N)
  <2>1. ASSUME NEW q, NEW i \in 1 .. N, q \in Prefix(i, B[i]), NEW j \in 1 .. N,
            q \in Prefix(j, L[j])
        PROVE  FALSE
    <3>1. B[i] \in SUBSET Paths /\ L[j] \in SUBSET Paths /\ i \in Nat /\ j \in Nat
      <4>1. /\ B[i] = A[i] \ L[i] /\ A[i] \in SUBSET Paths
            /\ L[j] \in SUBSET A[j] /\ A[j] \in SUBSET Paths
        BY <1>3
      <4> QED
        BY <4>1
    <3>2. i = j /\ \E p \in B[i] \cap L[j] : q = <<i>> \o p
      <4> DEFINE X == B[i]
                 Y == L[j]
      <4>1. X \in SUBSET Paths /\ Y \in SUBSET Paths /\ i \in Nat /\ j \in Nat
        BY <3>1
      <4>2. q \in Prefix(i, X) /\ q \in Prefix(j, Y)
        BY <2>1
      <4> HIDE DEF X, Y
      <4>3. i = j /\ \E p \in X \cap Y : q = <<i>> \o p
        BY <4>1, <4>2, PrefixTwo
      <4> QED
        BY <4>3 DEF X, Y
    <3>3. PICK p \in B[i] \cap L[j] : q = <<i>> \o p
      BY <3>2
    <3>4. B[i] = A[i] \ L[i]
      BY <1>3
    <3>5. p \in B[i] /\ p \in L[i]
      BY <3>2, <3>3
    <3> QED
      BY <3>4, <3>5
  <2>2. ASSUME NEW q, NEW i \in 1 .. N, q \in Prefix(i, A[i]), q \notin Prefix(i, L[i])
        PROVE  q \in Prefix(i, B[i])
    BY <1>3, <2>2 DEF Prefix
  <2>3. \A i \in 1 .. N : Prefix(i, B[i]) \in SUBSET Prefix(i, A[i])
    BY <1>3 DEF Prefix
  <2>4. ASSUME NEW q, q \in AllPrefixed(B, N)
        PROVE  q \in (AllPrefixed(A, N)) \ AllPrefixed(L, N)
    <3>1. PICK i \in 1 .. N : q \in Prefix(i, B[i])
      BY <2>4 DEF AllPrefixed
    <3>2. q \in Prefix(i, A[i])
      BY <2>3, <3>1
    <3>3. ASSUME NEW j \in 1 .. N PROVE q \notin Prefix(j, L[j])
      BY <2>1, <3>1
    <3> QED
      BY <3>2, <3>3 DEF AllPrefixed
  <2>5. ASSUME NEW q, q \in (AllPrefixed(A, N)) \ AllPrefixed(L, N)
        PROVE  q \in AllPrefixed(B, N)
    BY <2>2, <2>5 DEF AllPrefixed
  <2> QED
    BY <2>4, <2>5
<1> QED
  BY <1>2, <1>5, <1>6, <1>7, <1>9, <1>10

-----------------------------------------------------------------------------
LEMMA FreedBy ==
    ASSUME NEW t, NEW frees, NEW leaves, NEW v, DOMAIN frees = t.values, DOMAIN leaves = t.values,
           v \in t.values
    PROVE  Freed(Free(t, frees, leaves), v) = frees[v]
           /\ Left(Free(t, frees, leaves), v) = leaves[v]
BY DEF Freed, Left, Free

LEMMA KeepDoes ==
    ASSUME NEW v, Blocks(v) = {}
    PROVE  Does(Keep, v)
<1>1. Freed(Keep, v) = <<>> /\ Left(Keep, v) = {}
  <2>1. v \notin DOMAIN <<>>
    OBVIOUS
  <2>2. Keep.frees = <<>> /\ Keep.leaves = <<>>
    BY DEF Keep, Free
  <2> QED
    BY <2>1, <2>2 DEF Freed, Left
<1> QED
  BY <1>1, NoneInOrder DEF Does

LEMMA KeepFreesScalar ==
    ASSUME NEW size \in Aligns
    PROVE  Frees(Keep, Scalar(size))
<1>1. Valued(Scalar(size))
  BY ScalarValued
<1> SUFFICES ASSUME NEW v \in Scalar(size).values PROVE v \in Values /\ Does(Keep, v)
  BY DEF Frees
<1>2. v = Whole("scalar", 0, <<>>) /\ v \in Values
  BY <1>1 DEF Valued, Scalar, Type
<1>3. Blocks(v) = {}
  <2>1. DOMAIN v = {<<>>} /\ v[<<>>] = [kind |-> "scalar", n |-> 0]
    BY <1>2 DEF Whole
  <2> QED
    BY <2>1 DEF Blocks
<1> QED
  BY <1>2, <1>3, KeepDoes

LEMMA LeaveFrees ==
    ASSUME NEW t, Valued(t)
    PROVE  Frees(Leave(t), t)
<1> SUFFICES ASSUME NEW v \in t.values PROVE v \in Values /\ Does(Leave(t), v)
  BY DEF Frees
<1>1. Freed(Leave(t), v) = <<>> /\ Left(Leave(t), v) = Blocks(v)
  BY DEF Leave, Freed, Left, Free
<1>2. Blocks(v) \ Blocks(v) = {}
  OBVIOUS
<1> QED
  BY <1>1, <1>2, NoneInOrder DEF Does, Valued

-----------------------------------------------------------------------------
(* Records, lists and variants.                                           *)

RecordOf(v, types, N, fs) ==
    /\ MadeOf(v, "record", 0, 1 .. N, fs) /\ fs \in [1 .. N -> Values]
    /\ \A i \in 1 .. N : fs[i] \in types[i].values
ListOf(v, t, n, es) ==
    /\ MadeOf(v, "list", n, 1 .. n, es) /\ es \in [1 .. n -> Values] /\ n \in Nat
    /\ \A i \in 1 .. n : es[i] \in t.values
CaseOf(v, types, N, i, one, x) ==
    /\ i \in 1 .. N /\ one = [k \in {i} |-> x] /\ MadeOf(v, "case", i - 1, {i}, one)
    /\ x \in types[i].values /\ x \in Values

LEMMA RecordValue ==
    ASSUME NEW N \in Nat, NEW types, Tuple(types, N), \A i \in 1 .. N : Valued(types[i]),
           NEW v \in Record(types).values
    PROVE  v \in Values /\ \E fs : RecordOf(v, types, N, fs)
<1>1. DOMAIN types = 1 .. N
  BY DEF Tuple
<1>2. Record(types).values =
         {Whole("record", 0, fs) :
             fs \in {gs \in [1 .. N -> UNION {types[i].values : i \in 1 .. N}] :
                        \A i \in 1 .. N : gs[i] \in types[i].values}}
  BY <1>1 DEF Record, Type
<1>3. PICK fs \in {gs \in [1 .. N -> UNION {types[i].values : i \in 1 .. N}] :
                      \A i \in 1 .. N : gs[i] \in types[i].values} : v = Whole("record", 0, fs)
  BY <1>2
<1>4. \A i \in 1 .. N : fs[i] \in types[i].values /\ fs[i] \in Values
  BY <1>3 DEF Valued
<1>5. fs \in [1 .. N -> Values]
  BY <1>3, <1>4
<1>6. "record" \in Kinds /\ 0 \in Nat /\ 1 .. N \in SUBSET Nat
  BY DEF Kinds
<1>7. MadeOf(v, "record", 0, 1 .. N, fs)
  BY <1>3, <1>5, <1>6, WholeParts
<1> QED
  BY <1>4, <1>5, <1>7 DEF RecordOf, MadeOf

LEMMA ListValue ==
    ASSUME NEW t, Valued(t), NEW v \in List(t).values, WitAbiAssumption
    PROVE  v \in Values /\ \E n \in Nat : \E es : ListOf(v, t, n, es)
<1>1. List(t).values
          = UNION {{Whole("list", n, es) : es \in [1 .. n -> t.values]} : n \in 0 .. MaxLen}
  BY DEF List, Type
<1>2. PICK n \in 0 .. MaxLen : v \in {Whole("list", n, es) : es \in [1 .. n -> t.values]}
  BY <1>1
<1>3. PICK es \in [1 .. n -> t.values] : v = Whole("list", n, es)
  BY <1>2
<1>4. n \in Nat /\ 1 .. n \in SUBSET Nat /\ "list" \in Kinds
  BY DEF WitAbiAssumption, Kinds
<1>5. es \in [1 .. n -> Values] /\ \A i \in 1 .. n : es[i] \in t.values
  BY DEF Valued
<1>6. MadeOf(v, "list", n, 1 .. n, es)
  BY <1>3, <1>4, <1>5, WholeParts
<1> QED
  BY <1>4, <1>5, <1>6 DEF ListOf, MadeOf

LEMMA CaseValue ==
    ASSUME NEW N \in Nat, NEW types, Tuple(types, N), \A i \in 1 .. N : Valued(types[i]),
           NEW v \in Variant(types).values
    PROVE  v \in Values /\ \E i, one, x : CaseOf(v, types, N, i, one, x)
<1>1. DOMAIN types = 1 .. N
  BY DEF Tuple
<1>2. Variant(types).values =
         UNION {{Whole("case", i - 1, [k \in {i} |-> x]) : x \in types[i].values} : i \in 1 .. N}
  BY <1>1 DEF Variant, Type
<1>3. PICK i \in 1 .. N : v \in {Whole("case", i - 1, [k \in {i} |-> x]) : x \in types[i].values}
  BY <1>2
<1>4. PICK x \in types[i].values : v = Whole("case", i - 1, [k \in {i} |-> x])
  BY <1>3
<1> DEFINE one == [k \in {i} |-> x]
<1>5. x \in Values
  BY DEF Valued
<1>6. i - 1 \in Nat /\ {i} \in SUBSET Nat /\ "case" \in Kinds
  BY DEF Kinds
<1>7. one \in [{i} -> Values] /\ one = [k \in {i} |-> x]
  BY <1>5
<1>8. v = Whole("case", i - 1, one)
  BY <1>4
<1> HIDE DEF one
<1>9. MadeOf(v, "case", i - 1, {i}, one)
  BY <1>6, <1>7, <1>8, WholeParts
<1>10. CaseOf(v, types, N, i, one, x)
  BY <1>5, <1>7, <1>9 DEF CaseOf
<1> QED
  BY <1>9, <1>10 DEF MadeOf

LEMMA FreesValued ==
    ASSUME NEW h, NEW t, Frees(h, t)
    PROVE  Valued(t)
BY DEF Frees, Valued

-----------------------------------------------------------------------------
\* Helpers for the parts, in turn.
EachFrees(helpers, types, N) ==
    N \in Nat /\ Tuple(helpers, N) /\ Tuple(types, N)
        /\ \A i \in 1 .. N : Frees(helpers[i], types[i])

LEMMA FieldsFrees ==
    ASSUME NEW helpers, NEW types, NEW N, EachFrees(helpers, types, N)
    PROVE  Frees(Fields(Record(types), helpers), Record(types))
<1>1. /\ N \in Nat /\ Tuple(helpers, N) /\ Tuple(types, N)
          /\ \A i \in 1 .. N : Frees(helpers[i], types[i])
      /\ \A i \in 1 .. N : Valued(types[i])
  BY FreesValued DEF EachFrees
<1> SUFFICES ASSUME NEW v \in Record(types).values
             PROVE  v \in Values /\ Does(Fields(Record(types), helpers), v)
  BY DEF Frees
<1>2. v \in Values
  BY <1>1, RecordValue
<1>3. PICK fs : RecordOf(v, types, N, fs)
  BY <1>1, RecordValue
<1>4. /\ MadeOf(v, "record", 0, 1 .. N, fs) /\ fs \in [1 .. N -> Values]
      /\ \A i \in 1 .. N : fs[i] \in types[i].values
  BY <1>3 DEF RecordOf
<1>5. \A i \in 1 .. N : Does(helpers[i], fs[i])
  BY <1>1, <1>4 DEF Frees
<1>6. /\ InOrder(FreedInTurn(v, helpers), BlocksOf(fs, 1 .. N) \ LeftInTurn(v, helpers))
      /\ LeftInTurn(v, helpers) \in SUBSET BlocksOf(fs, 1 .. N)
  BY <1>1, <1>4, <1>5, TurnInOrder
<1>7. Blocks(v) = BlocksOf(fs, 1 .. N)
  <2>1. 1 .. N \in SUBSET Nat /\ "record" # "list"
    BY <1>1
  <2>2. /\ \A p \in Paths : p # <<>> => (p \in Blocks(v) <=> p \in BlocksOf(fs, 1 .. N))
        /\ <<>> \in Blocks(v) <=> "record" = "list" /\ 0 > 0
        /\ <<>> \notin BlocksOf(fs, 1 .. N)
        /\ Blocks(v) \in SUBSET Paths /\ BlocksOf(fs, 1 .. N) \in SUBSET Paths
    BY <1>1, <1>4, <2>1, PartsBlocks
  <2>3. \A p : p \in Blocks(v) <=> p \in BlocksOf(fs, 1 .. N)
    BY <2>1, <2>2
  <2> QED
    BY <2>3
<1>8. /\ Freed(Fields(Record(types), helpers), v) = FreedInTurn(v, helpers)
      /\ Left(Fields(Record(types), helpers), v) = LeftInTurn(v, helpers)
  BY DEF Fields, Freed, Left, Free
<1> QED
  BY <1>2, <1>6, <1>7, <1>8 DEF Does

LEMMA BufferFrees ==
    ASSUME NEW element, NEW t, Frees(element, t), WitAbiAssumption
    PROVE  Frees(Buffer(List(t), element), List(t))
<1>1. Valued(t)
  BY FreesValued
<1> SUFFICES ASSUME NEW v \in List(t).values
             PROVE  v \in Values /\ Does(Buffer(List(t), element), v)
  BY DEF Frees
<1>2. v \in Values
  BY <1>1, ListValue
<1>3. PICK n \in Nat : \E es : ListOf(v, t, n, es)
  BY <1>1, ListValue
<1>4. PICK es : ListOf(v, t, n, es)
  BY <1>3
<1>5. /\ MadeOf(v, "list", n, 1 .. n, es) /\ es \in [1 .. n -> Values] /\ n \in Nat
      /\ \A i \in 1 .. n : es[i] \in t.values
  BY <1>4 DEF ListOf
<1>6. v[<<>>].n = n
  BY <1>5 DEF MadeOf
<1> DEFINE helpers == [i \in 1 .. n |-> element]
           each == FreedInTurn(v, helpers)
<1>7. /\ Freed(Buffer(List(t), element), v) = IF n = 0 THEN <<>> ELSE Append(each, <<>>)
      /\ Left(Buffer(List(t), element), v) = LeftInTurn(v, helpers)
  BY <1>6 DEF Buffer, Freed, Left, Free
<1>8. Tuple(helpers, n) /\ \A i \in 1 .. n : Does(helpers[i], es[i])
  BY <1>5 DEF Frees, Tuple
<1>9. 1 .. n \in SUBSET Nat
  OBVIOUS
<1> HIDE DEF helpers, each
<1>10. /\ InOrder(each, BlocksOf(es, 1 .. n) \ LeftInTurn(v, helpers))
       /\ LeftInTurn(v, helpers) \in SUBSET BlocksOf(es, 1 .. n)
  BY <1>5, <1>8, TurnInOrder DEF each
<1>11. /\ \A p \in Paths : p # <<>> => (p \in Blocks(v) <=> p \in BlocksOf(es, 1 .. n))
       /\ <<>> \in Blocks(v) <=> n > 0
       /\ <<>> \notin BlocksOf(es, 1 .. n)
       /\ Blocks(v) \in SUBSET Paths /\ BlocksOf(es, 1 .. n) \in SUBSET Paths
  BY <1>5, <1>9, PartsBlocks
<1>12. LeftInTurn(v, helpers) \in SUBSET Blocks(v)
  BY <1>10, <1>11
<1>13. CASE n = 0
  <2>1. BlocksOf(es, 1 .. n) = {}
    BY <1>13 DEF BlocksOf
  <2>2. Blocks(v) = {}
    BY <1>11, <1>13, <2>1
  <2>3. Blocks(v) \ LeftInTurn(v, helpers) = {}
    BY <2>2
  <2> QED
    BY <1>2, <1>7, <1>12, <1>13, <2>3, NoneInOrder DEF Does
<1>14. CASE n # 0
  <2>1. Blocks(v) \ LeftInTurn(v, helpers)
            = (BlocksOf(es, 1 .. n) \ LeftInTurn(v, helpers)) \cup {<<>>}
    BY <1>10, <1>11, <1>14
  <2>2. InOrder(<<<<>>>>, {<<>>})
    <3>1. <<<<>>>> \in Seq(Paths)
      BY RootPath
    <3>2. ToSet(<<<<>>>>) = {<<>>}
      BY DEF ToSet
    <3>3. InnerFirst(<<<<>>>>)
      BY DEF InnerFirst
    <3> QED
      BY <3>1, <3>2, <3>3 DEF InOrder
  <2>3. Append(each, <<>>) = each \o <<<<>>>>
    <3>1. each \in Seq(Paths)
      BY <1>10 DEF InOrder
    <3> QED
      BY <3>1, RootPath, AppendIsConcat
  <2>4. \A p \in BlocksOf(es, 1 .. n) \ LeftInTurn(v, helpers), q \in {<<>>} : p # q /\ ~Above(p, q)
    BY <1>11, AboveAll
  <2>5. InOrder(each \o <<<<>>>>, (BlocksOf(es, 1 .. n) \ LeftInTurn(v, helpers)) \cup {<<>>})
    BY <1>10, <2>2, <2>4, JoinInOrder
  <2> QED
    BY <1>2, <1>7, <1>12, <1>14, <2>1, <2>3, <2>5 DEF Does
<1> QED
  BY <1>13, <1>14

\* The helper a case has.
HelperOf(cases, n) == IF n \in DOMAIN cases THEN cases[n] ELSE Keep
CasesFree(cases, types, N) ==
    N \in Nat /\ Tuple(types, N) /\ \A i \in 1 .. N : Frees(HelperOf(cases, i - 1), types[i])

LEMMA OneBlocks ==
    ASSUME NEW v, NEW types, NEW N, N \in Nat, NEW i, NEW one, NEW x, CaseOf(v, types, N, i, one, x)
    PROVE  Blocks(v) = Prefix(i, Blocks(x)) /\ PartOf(v, i) = x /\ v[<<>>].n = i - 1
<1>1. i \in 1 .. N /\ one = [k \in {i} |-> x] /\ MadeOf(v, "case", i - 1, {i}, one) /\ x \in Values
  BY DEF CaseOf
<1>2. one \in [{i} -> Values] /\ one[i] = x /\ {i} \in SUBSET Nat
  BY <1>1
<1>3. BlocksOf(one, {i}) = Prefix(i, Blocks(x))
  BY <1>2 DEF BlocksOf
<1>4. /\ \A p \in Paths : p # <<>> => (p \in Blocks(v) <=> p \in BlocksOf(one, {i}))
      /\ <<>> \in Blocks(v) <=> "case" = "list" /\ i - 1 > 0
      /\ <<>> \notin BlocksOf(one, {i})
      /\ Blocks(v) \in SUBSET Paths /\ BlocksOf(one, {i}) \in SUBSET Paths
  BY <1>1, <1>2, PartsBlocks
<1>5. Blocks(v) = BlocksOf(one, {i})
  <2>1. "case" # "list"
    OBVIOUS
  <2>2. \A p : p \in Blocks(v) <=> p \in BlocksOf(one, {i})
    BY <1>4, <2>1
  <2> QED
    BY <2>2
<1>6. PartOf(v, i) = x /\ v[<<>>].n = i - 1
  BY <1>1, <1>2 DEF MadeOf
<1> QED
  BY <1>3, <1>5, <1>6

LEMMA OnCaseFrees ==
    ASSUME NEW cases, NEW types, NEW N, CasesFree(cases, types, N)
    PROVE  Frees(OnCase(Variant(types), cases), Variant(types))
<1>1. /\ N \in Nat /\ Tuple(types, N) /\ \A i \in 1 .. N : Frees(HelperOf(cases, i - 1), types[i])
      /\ \A i \in 1 .. N : Valued(types[i])
  BY FreesValued DEF CasesFree
<1> SUFFICES ASSUME NEW v \in Variant(types).values
             PROVE  v \in Values /\ Does(OnCase(Variant(types), cases), v)
  BY DEF Frees
<1>2. v \in Values
  BY <1>1, CaseValue
<1>3. PICK i, one, x : CaseOf(v, types, N, i, one, x)
  BY <1>1, CaseValue
<1>4. i \in 1 .. N /\ x \in types[i].values /\ x \in Values
  BY <1>3 DEF CaseOf
<1> DEFINE h == HelperOf(cases, i - 1)
<1>5. Blocks(v) = Prefix(i, Blocks(x)) /\ PartOf(v, i) = x /\ v[<<>>].n = i - 1
  BY <1>1, <1>3, OneBlocks
<1>6. Does(h, x)
  BY <1>1, <1>4 DEF Frees
<1>7. (i - 1) + 1 = i /\ i \in Nat
  BY <1>4
<1>8. /\ Freed(OnCase(Variant(types), cases), v) = FreedOfPart(v, i, h)
      /\ Left(OnCase(Variant(types), cases), v) = LeftOfPart(v, i, h)
  BY <1>5, <1>7 DEF OnCase, Freed, Left, Free, HelperOf
<1> HIDE DEF h
<1>9. /\ InOrder(FreedOfPart(v, i, h), Prefix(i, Blocks(x) \ Left(h, x)))
      /\ LeftOfPart(v, i, h) = Prefix(i, Left(h, x))
      /\ Left(h, x) \in SUBSET Paths /\ Left(h, x) \in SUBSET Blocks(x)
  BY <1>4, <1>5, <1>6, <1>7, PartInOrder DEF Does
<1>10. Blocks(x) \in SUBSET Paths
  BY <1>4, BlocksArePaths
<1>11. Prefix(i, Blocks(x) \ Left(h, x)) = Prefix(i, Blocks(x)) \ Prefix(i, Left(h, x))
  <2>1. ASSUME NEW q, q \in Prefix(i, Blocks(x) \ Left(h, x)),
            q \in Prefix(i, Left(h, x)) PROVE FALSE
    <3>1. Blocks(x) \ Left(h, x) \in SUBSET Paths
      BY <1>10
    <3>2. \E p \in (Blocks(x) \ Left(h, x)) \cap Left(h, x) : q = <<i>> \o p
      BY <1>7, <1>9, <2>1, <3>1, PrefixTwo
    <3> QED
      BY <3>2
  <2>2. \A q : q \in Prefix(i, Blocks(x)) /\ q \notin Prefix(i, Left(h, x))
            => q \in Prefix(i, Blocks(x) \ Left(h, x))
    BY DEF Prefix
  <2>3. \A q : q \in Prefix(i, Blocks(x) \ Left(h, x)) => q \in Prefix(i, Blocks(x))
    BY DEF Prefix
  <2> QED
    BY <2>1, <2>2, <2>3
<1>12. Prefix(i, Left(h, x)) \in SUBSET Prefix(i, Blocks(x))
  BY <1>9 DEF Prefix
<1> QED
  BY <1>2, <1>5, <1>8, <1>9, <1>11, <1>12 DEF Does

-----------------------------------------------------------------------------
(* Parts without memory, and the shapes of the helpers of bindings.c.     *)

\* Nothing in a part, nothing in the whole.
LEMMA KeepsNothing ==
    ASSUME NEW t, Frees(Keep, t), NEW v \in t.values
    PROVE  v \in Values /\ Blocks(v) = {}
<1>1. v \in Values /\ Left(Keep, v) \in SUBSET Blocks(v)
          /\ InOrder(Freed(Keep, v), Blocks(v) \ Left(Keep, v))
  BY DEF Frees, Does
<1>2. Freed(Keep, v) = <<>> /\ Left(Keep, v) = {}
  <2>1. v \notin DOMAIN <<>>
    OBVIOUS
  <2>2. Keep.frees = <<>> /\ Keep.leaves = <<>>
    BY DEF Keep, Free
  <2> QED
    BY <2>1, <2>2 DEF Freed, Left
<1>3. ToSet(<<>>) = {}
  BY DEF ToSet
<1>4. Blocks(v) \ {} = ToSet(<<>>)
  BY <1>1, <1>2 DEF InOrder
<1> QED
  BY <1>1, <1>3, <1>4

KeptAll(types, N) == N \in Nat /\ Tuple(types, N) /\ \A i \in 1 .. N : Frees(Keep, types[i])

LEMMA KeepFreesRecord ==
    ASSUME NEW types, NEW N, KeptAll(types, N)
    PROVE  Frees(Keep, Record(types))
<1>1. /\ N \in Nat /\ Tuple(types, N) /\ \A i \in 1 .. N : Frees(Keep, types[i])
      /\ \A i \in 1 .. N : Valued(types[i])
  BY FreesValued DEF KeptAll
<1> SUFFICES ASSUME NEW v \in Record(types).values PROVE v \in Values /\ Does(Keep, v)
  BY DEF Frees
<1>2. v \in Values
  BY <1>1, RecordValue
<1>3. PICK fs : RecordOf(v, types, N, fs)
  BY <1>1, RecordValue
<1>4. /\ MadeOf(v, "record", 0, 1 .. N, fs) /\ fs \in [1 .. N -> Values]
      /\ \A i \in 1 .. N : fs[i] \in types[i].values
  BY <1>3 DEF RecordOf
<1>5. \A i \in 1 .. N : Blocks(fs[i]) = {}
  BY <1>1, <1>4, KeepsNothing
<1>6. BlocksOf(fs, 1 .. N) = {}
  BY <1>5 DEF BlocksOf, Prefix
<1>7. 1 .. N \in SUBSET Nat /\ "record" # "list"
  BY <1>1
<1>8. /\ \A p \in Paths : p # <<>> => (p \in Blocks(v) <=> p \in BlocksOf(fs, 1 .. N))
      /\ <<>> \in Blocks(v) <=> "record" = "list" /\ 0 > 0
      /\ <<>> \notin BlocksOf(fs, 1 .. N)
      /\ Blocks(v) \in SUBSET Paths /\ BlocksOf(fs, 1 .. N) \in SUBSET Paths
  BY <1>1, <1>4, <1>7, PartsBlocks
<1>9. Blocks(v) = {}
  BY <1>6, <1>7, <1>8
<1> QED
  BY <1>2, <1>9, KeepDoes

LEMMA KeepFreesVariant ==
    ASSUME NEW types, NEW N, KeptAll(types, N)
    PROVE  Frees(Keep, Variant(types))
<1>1. /\ N \in Nat /\ Tuple(types, N) /\ \A i \in 1 .. N : Frees(Keep, types[i])
      /\ \A i \in 1 .. N : Valued(types[i])
  BY FreesValued DEF KeptAll
<1> SUFFICES ASSUME NEW v \in Variant(types).values PROVE v \in Values /\ Does(Keep, v)
  BY DEF Frees
<1>2. v \in Values
  BY <1>1, CaseValue
<1>3. PICK i, one, x : CaseOf(v, types, N, i, one, x)
  BY <1>1, CaseValue
<1>4. i \in 1 .. N /\ x \in types[i].values
  BY <1>3 DEF CaseOf
<1>5. Blocks(v) = Prefix(i, Blocks(x))
  BY <1>1, <1>3, OneBlocks
<1>6. Blocks(x) = {}
  BY <1>1, <1>4, KeepsNothing
<1>7. Blocks(v) = {}
  BY <1>5, <1>6 DEF Prefix
<1> QED
  BY <1>2, <1>7, KeepDoes

LEMMA KeepFreesVoid == Frees(Keep, Void)
<1>1. KeptAll(<<>>, 0)
  BY DEF KeptAll, Tuple
<1> QED
  BY <1>1, KeepFreesRecord DEF Void

LEMMA KeepFreesPair ==
    ASSUME NEW a, NEW b, Frees(Keep, a), Frees(Keep, b)
    PROVE  Frees(Keep, Record(<<a, b>>)) /\ Frees(Keep, Variant(<<a, b>>))
<1> DEFINE types == <<a, b>>
<1>1. types[1] = a /\ types[2] = b
  OBVIOUS
<1>2. Tuple(types, 2)
  BY DEF Tuple
<1>3. \A i \in 1 .. 2 : i = 1 \/ i = 2
  OBVIOUS
<1> HIDE DEF types
<1>4. \A i \in 1 .. 2 : Frees(Keep, types[i])
  BY <1>1, <1>3
<1>5. KeptAll(types, 2)
  BY <1>2, <1>4 DEF KeptAll
<1>6. Frees(Keep, Record(types)) /\ Frees(Keep, Variant(types))
  BY <1>5, KeepFreesRecord, KeepFreesVariant
<1> QED
  BY <1>6 DEF types

LEMMA KeepFreesFour ==
    ASSUME NEW a, NEW b, NEW c, NEW d, Frees(Keep, a), Frees(Keep, b), Frees(Keep, c),
           Frees(Keep, d)
    PROVE  Frees(Keep, Record(<<a, b, c, d>>))
<1> DEFINE types == <<a, b, c, d>>
<1>1. types[1] = a /\ types[2] = b /\ types[3] = c /\ types[4] = d
  OBVIOUS
<1>2. Tuple(types, 4)
  BY DEF Tuple
<1>3. \A i \in 1 .. 4 : i = 1 \/ i = 2 \/ i = 3 \/ i = 4
  OBVIOUS
<1> HIDE DEF types
<1>4. \A i \in 1 .. 4 : Frees(Keep, types[i])
  BY <1>1, <1>3
<1>5. KeptAll(types, 4)
  BY <1>2, <1>4 DEF KeptAll
<1> QED
  BY <1>5, KeepFreesRecord DEF types

LEMMA KeepFreesEight ==
    ASSUME NEW a, Frees(Keep, a)
    PROVE  Frees(Keep, Record(<<a, a, a, a, a, a, a, a>>))
<1> DEFINE types == <<a, a, a, a, a, a, a, a>>
<1>1. \A i \in 1 .. 8 : types[i] = a
  OBVIOUS
<1>2. Tuple(types, 8)
  BY DEF Tuple
<1> HIDE DEF types
<1>3. KeptAll(types, 8)
  BY <1>1, <1>2 DEF KeptAll
<1> QED
  BY <1>3, KeepFreesRecord DEF types

LEMMA KeepFreesOption ==
    ASSUME NEW t, Frees(Keep, t)
    PROVE  Frees(Keep, Option(t))
BY KeepFreesVoid, KeepFreesPair DEF Option

LEMMA KeepFreesAddress == Frees(Keep, sockets_network_ip_socket_address)
<1>1. Frees(Keep, Scalar(1)) /\ Frees(Keep, Scalar(2)) /\ Frees(Keep, Scalar(4))
  BY KeepFreesScalar DEF Aligns
<1>2. Frees(Keep, sockets_network_ipv4_address) /\ Frees(Keep, sockets_network_ipv6_address)
  BY <1>1, KeepFreesFour, KeepFreesEight DEF sockets_network_ipv4_address,
     sockets_network_ipv6_address
<1>3. Frees(Keep, sockets_network_ipv4_socket_address)
  BY <1>1, <1>2, KeepFreesPair DEF sockets_network_ipv4_socket_address
<1>4. Frees(Keep, sockets_network_ipv6_socket_address)
  BY <1>1, <1>2, KeepFreesFour DEF sockets_network_ipv6_socket_address
<1> QED
  BY <1>3, <1>4, KeepFreesPair DEF sockets_network_ip_socket_address

-----------------------------------------------------------------------------
\* Helpers of the shapes that bindings.c has.
LEMMA FreesPair ==
    ASSUME NEW a, NEW b, NEW g, NEW h, Frees(g, a), Frees(h, b)
    PROVE  Frees(Fields(Record(<<a, b>>), <<g, h>>), Record(<<a, b>>))
<1> DEFINE types == <<a, b>>
           helpers == <<g, h>>
<1>1. types[1] = a /\ types[2] = b /\ helpers[1] = g /\ helpers[2] = h
  OBVIOUS
<1>2. Tuple(types, 2) /\ Tuple(helpers, 2)
  BY DEF Tuple
<1>3. \A i \in 1 .. 2 : i = 1 \/ i = 2
  OBVIOUS
<1> HIDE DEF types, helpers
<1>4. \A i \in 1 .. 2 : Frees(helpers[i], types[i])
  BY <1>1, <1>3
<1>5. EachFrees(helpers, types, 2)
  BY <1>2, <1>4 DEF EachFrees
<1>6. Frees(Fields(Record(types), helpers), Record(types))
  BY <1>5, FieldsFrees
<1> QED
  BY <1>6 DEF types, helpers

LEMMA FreesResult ==
    ASSUME NEW a, NEW b, NEW g, NEW h, Frees(g, a), Frees(h, b)
    PROVE  Frees(OnResult(Variant(<<a, b>>), g, h), Variant(<<a, b>>))
<1> DEFINE types == <<a, b>>
           cases == [n \in {0, 1} |-> IF n = 0 THEN g ELSE h]
<1>1. types[1] = a /\ types[2] = b /\ HelperOf(cases, 0) = g /\ HelperOf(cases, 1) = h
  BY DEF HelperOf
<1>2. Tuple(types, 2)
  BY DEF Tuple
<1>3. \A i \in 1 .. 2 : (i = 1 /\ i - 1 = 0) \/ (i = 2 /\ i - 1 = 1)
  OBVIOUS
<1>4. OnResult(Variant(<<a, b>>), g, h) = OnCase(Variant(types), cases)
  BY DEF OnResult
<1> HIDE DEF types, cases
<1>5. \A i \in 1 .. 2 : Frees(HelperOf(cases, i - 1), types[i])
  BY <1>1, <1>3
<1>6. CasesFree(cases, types, 2)
  BY <1>2, <1>5 DEF CasesFree
<1>7. Frees(OnCase(Variant(types), cases), Variant(types))
  BY <1>6, OnCaseFrees
<1> QED
  BY <1>4, <1>7 DEF types

LEMMA FreesOption ==
    ASSUME NEW t, NEW h, Frees(h, t)
    PROVE  Frees(OnSome(Option(t), h), Option(t))
<1> DEFINE types == <<Void, t>>
           cases == [n \in {1} |-> h]
<1>1. types[1] = Void /\ types[2] = t /\ HelperOf(cases, 0) = Keep /\ HelperOf(cases, 1) = h
  BY DEF HelperOf
<1>2. Tuple(types, 2)
  BY DEF Tuple
<1>3. \A i \in 1 .. 2 : (i = 1 /\ i - 1 = 0) \/ (i = 2 /\ i - 1 = 1)
  OBVIOUS
<1>4. OnSome(Option(t), h) = OnCase(Variant(types), cases)
  BY DEF OnSome, Option
<1> HIDE DEF types, cases
<1>5. \A i \in 1 .. 2 : Frees(HelperOf(cases, i - 1), types[i])
  BY <1>1, <1>3, KeepFreesVoid
<1>6. CasesFree(cases, types, 2)
  BY <1>2, <1>5 DEF CasesFree
<1>7. Frees(OnCase(Variant(types), cases), Variant(types))
  BY <1>6, OnCaseFrees
<1> QED
  BY <1>4, <1>7 DEF types, Option

\* The last case of those before have nothing.
Empties(types, N, t) == N \in Nat \ {0} /\ Tuple(types, N) /\ types[N] = t
    /\ \A i \in 1 .. N - 1 : types[i] = Void

LEMMA FreesLast ==
    ASSUME NEW t, NEW h, Frees(h, t), NEW types, NEW N, Empties(types, N, t), NEW m, m = N - 1
    PROVE  Frees(OnCase(Variant(types), [n \in {m} |-> h]), Variant(types))
<1> DEFINE cases == [n \in {m} |-> h]
<1>1. ASSUME NEW i \in 1 .. N PROVE Frees(HelperOf(cases, i - 1), types[i])
  <2>1. CASE i = N
    <3>1. HelperOf(cases, i - 1) = h /\ types[i] = t
      BY <2>1 DEF HelperOf, Empties
    <3> HIDE DEF cases
    <3> QED
      BY <3>1
  <2>2. CASE i # N
    <3>1. i \in 1 .. N - 1 /\ i - 1 # m
      BY <2>2 DEF Empties
    <3>2. HelperOf(cases, i - 1) = Keep /\ types[i] = Void
      BY <3>1 DEF HelperOf, Empties
    <3> HIDE DEF cases
    <3> QED
      BY <3>2, KeepFreesVoid
  <2> QED
    BY <2>1, <2>2
<1> HIDE DEF cases
<1>2. CasesFree(cases, types, N)
  BY <1>1 DEF CasesFree, Empties
<1>3. Frees(OnCase(Variant(types), cases), Variant(types))
  BY <1>2, OnCaseFrees
<1> QED
  BY <1>3 DEF cases

-----------------------------------------------------------------------------
(* Every helper of bindings.c.                                            *)

LEMMA Small ==
    /\ Frees(Keep, Handle) /\ Frees(Keep, Bool) /\ Frees(Keep, Enum)
    /\ Frees(Keep, Scalar(1)) /\ Frees(Keep, Scalar(2)) /\ Frees(Keep, Scalar(4))
       /\ Frees(Keep, Scalar(8))
BY KeepFreesScalar DEF Handle, Bool, Enum, Aligns

LEMMA HelperTypes ==
    /\ \A t, x : Fields(t, x).type = t /\ Buffer(t, x).type = t /\ OnCase(t, x).type = t
       /\ OnSome(t, x).type = t
    /\ \A t, x, y : OnResult(t, x, y).type = t
    /\ \A t : Leave(t).type = t
BY DEF Fields, Buffer, OnCase, OnSome, OnResult, Leave, Free

\* A helper is right for every value of its type.
Helps(h) == Frees(h, h.type)

LEMMA HelpersHelp ==
    ASSUME WitAbiAssumption
    PROVE  /\ \A h \in DOMAIN gcore_helpers : Helps(gcore_helpers[h])
           /\ \A h \in DOMAIN wasi_helpers : Helps(wasi_helpers[h])
<1>1. Frees(string_free, String) /\ string_free.type = String
  BY Small, BufferFrees, HelperTypes
     DEF string_free, String
<1>2. Frees(option_string_free, option_string) /\ option_string_free.type = option_string
  BY <1>1, FreesOption, HelperTypes
     DEF option_string_free, option_string
<1>3. Empties(<<Void, Void, String>>, 3, String)
  BY DEF Empties, Tuple
<1>4. Frees(secret_error_free, secret_error) /\ secret_error_free.type = secret_error
  BY <1>1, <1>3, 2 = 3 - 1, FreesLast, HelperTypes
     DEF secret_error_free, secret_error
<1>5. Frees(secret_result_option_string_error_free, secret_result_option_string_error)
          /\ secret_result_option_string_error_free.type = secret_result_option_string_error
  BY <1>2, <1>4, FreesResult, HelperTypes
     DEF secret_result_option_string_error_free, secret_result_option_string_error, Result
<1>6. Frees(key_value_value_free, key_value_value) /\ key_value_value_free.type = key_value_value
  BY Small, BufferFrees, HelperTypes
     DEF key_value_value_free, key_value_value
<1>7. Empties(<<Void, Void, Void, String>>, 4, String)
  BY DEF Empties, Tuple
<1>8. Frees(key_value_error_free, key_value_error) /\ key_value_error_free.type = key_value_error
  BY <1>1, <1>7, 3 = 4 - 1, FreesLast, HelperTypes
     DEF key_value_error_free, key_value_error
<1>9. Frees(key_value_result_own_store_error_free, key_value_result_own_store_error)
          /\ key_value_result_own_store_error_free.type = key_value_result_own_store_error
  BY Small, <1>8, FreesResult, HelperTypes
     DEF key_value_result_own_store_error_free, key_value_result_own_store_error, Result
<1>10. Frees(option_value_free, option_value) /\ option_value_free.type = option_value
  BY <1>6, FreesOption, HelperTypes
     DEF option_value_free, option_value
<1>11. Frees(key_value_result_option_value_error_free, key_value_result_option_value_error)
           /\ key_value_result_option_value_error_free.type = key_value_result_option_value_error
  BY <1>10, <1>8, FreesResult, HelperTypes
     DEF key_value_result_option_value_error_free, key_value_result_option_value_error, Result
<1>12. Frees(list_string_free, list_string) /\ list_string_free.type = list_string
  BY <1>1, BufferFrees, HelperTypes
     DEF list_string_free, list_string
<1>13. Frees(key_value_result_list_string_error_free, key_value_result_list_string_error)
           /\ key_value_result_list_string_error_free.type = key_value_result_list_string_error
  BY <1>12, <1>8, FreesResult, HelperTypes
     DEF key_value_result_list_string_error_free, key_value_result_list_string_error, Result
<1>14. Frees(tuple2_value_f64_free, tuple2_value_f64)
           /\ tuple2_value_f64_free.type = tuple2_value_f64
  BY <1>6, Small, FreesPair, HelperTypes
     DEF tuple2_value_f64_free, tuple2_value_f64
<1>15. Frees(list_tuple2_value_f64_free, list_tuple2_value_f64)
           /\ list_tuple2_value_f64_free.type = list_tuple2_value_f64
  BY <1>14, BufferFrees, HelperTypes
     DEF list_tuple2_value_f64_free, list_tuple2_value_f64
<1>16. Frees(key_value_result_list_tuple2_value_f64_error_free,
           key_value_result_list_tuple2_value_f64_error)
           /\ key_value_result_list_tuple2_value_f64_error_free.type
           = key_value_result_list_tuple2_value_f64_error
  BY <1>15, <1>8, FreesResult, HelperTypes
     DEF key_value_result_list_tuple2_value_f64_error_free,
        key_value_result_list_tuple2_value_f64_error, Result
<1>17. Frees(key_value_result_bool_error_free, key_value_result_bool_error)
           /\ key_value_result_bool_error_free.type = key_value_result_bool_error
  BY Small, <1>8, FreesResult, HelperTypes
     DEF key_value_result_bool_error_free, key_value_result_bool_error, Result
<1>18. Frees(cache_types_payload_free, cache_types_payload)
           /\ cache_types_payload_free.type = cache_types_payload
  BY Small, BufferFrees, HelperTypes
     DEF cache_types_payload_free, cache_types_payload
<1>19. Empties(<<Void, Void, String>>, 3, String)
  BY DEF Empties, Tuple
<1>20. Frees(cache_types_error_free, cache_types_error)
           /\ cache_types_error_free.type = cache_types_error
  BY <1>1, <1>19, 2 = 3 - 1, FreesLast, HelperTypes
     DEF cache_types_error_free, cache_types_error
<1>21. Frees(cache_sync_payload_free, cache_types_payload)
           /\ cache_sync_payload_free.type = cache_types_payload
  BY <1>18
     DEF cache_sync_payload_free
<1>22. Frees(cache_sync_error_free, cache_types_error)
           /\ cache_sync_error_free.type = cache_types_error
  BY <1>20
     DEF cache_sync_error_free
<1>23. Frees(option_payload_free, option_payload) /\ option_payload_free.type = option_payload
  BY <1>21, FreesOption, HelperTypes
     DEF option_payload_free, option_payload
<1>24. Frees(cache_sync_result_option_payload_error_free,
           cache_sync_result_option_payload_error)
           /\ cache_sync_result_option_payload_error_free.type
           = cache_sync_result_option_payload_error
  BY <1>23, <1>22, FreesResult, HelperTypes
     DEF cache_sync_result_option_payload_error_free, cache_sync_result_option_payload_error,
        Result
<1>25. Frees(cache_sync_result_void_error_free, cache_sync_result_void_error)
           /\ cache_sync_result_void_error_free.type = cache_sync_result_void_error
  BY KeepFreesVoid, <1>22, FreesResult, HelperTypes
     DEF cache_sync_result_void_error_free, cache_sync_result_void_error, Result
<1>26. Frees(cache_sync_result_bool_error_free, cache_sync_result_bool_error)
           /\ cache_sync_result_bool_error_free.type = cache_sync_result_bool_error
  BY Small, <1>22, FreesResult, HelperTypes
     DEF cache_sync_result_bool_error_free, cache_sync_result_bool_error, Result
<1>27. Frees(cache_sync_result_s64_error_free, cache_sync_result_s64_error)
           /\ cache_sync_result_s64_error_free.type = cache_sync_result_s64_error
  BY Small, <1>22, FreesResult, HelperTypes
     DEF cache_sync_result_s64_error_free, cache_sync_result_s64_error, Result
<1>28. Frees(cache_sync_result_u64_error_free, cache_sync_result_u64_error)
           /\ cache_sync_result_u64_error_free.type = cache_sync_result_u64_error
  BY Small, <1>22, FreesResult, HelperTypes
     DEF cache_sync_result_u64_error_free, cache_sync_result_u64_error, Result
<1>29. Frees(tuple2_string_string_free, tuple2_string_string)
           /\ tuple2_string_string_free.type = tuple2_string_string
  BY <1>1, FreesPair, HelperTypes
     DEF tuple2_string_string_free, tuple2_string_string
<1>30. Frees(list_tuple2_string_string_free, list_tuple2_string_string)
           /\ list_tuple2_string_string_free.type = list_tuple2_string_string
  BY <1>29, BufferFrees, HelperTypes
     DEF list_tuple2_string_string_free, list_tuple2_string_string
<1>31. Frees(io_poll_list_borrow_pollable_free, io_poll_list_borrow_pollable)
           /\ io_poll_list_borrow_pollable_free.type = io_poll_list_borrow_pollable
  BY Small, BufferFrees, HelperTypes
     DEF io_poll_list_borrow_pollable_free, io_poll_list_borrow_pollable
<1>32. Frees(list_u32_free, list_u32) /\ list_u32_free.type = list_u32
  BY Small, BufferFrees, HelperTypes
     DEF list_u32_free, list_u32
<1>33. Frees(list_u8_free, list_u8) /\ list_u8_free.type = list_u8
  BY Small, BufferFrees, HelperTypes
     DEF list_u8_free, list_u8
<1>34. Frees(Keep, io_streams_stream_error)
  BY Small, KeepFreesVoid, KeepFreesPair
     DEF io_streams_stream_error
<1>35. Frees(io_streams_result_list_u8_stream_error_free,
           io_streams_result_list_u8_stream_error)
           /\ io_streams_result_list_u8_stream_error_free.type
           = io_streams_result_list_u8_stream_error
  BY <1>33, <1>34, FreesResult, HelperTypes
     DEF io_streams_result_list_u8_stream_error_free, io_streams_result_list_u8_stream_error,
        Result
<1>36. Frees(Keep, filesystem_types_descriptor_type)
  BY Small
     DEF filesystem_types_descriptor_type
<1>37. Frees(filesystem_types_directory_entry_free, filesystem_types_directory_entry)
           /\ filesystem_types_directory_entry_free.type = filesystem_types_directory_entry
  BY <1>36, <1>1, FreesPair, HelperTypes
     DEF filesystem_types_directory_entry_free, filesystem_types_directory_entry
<1>38. Frees(Fields(tuple2_list_u8_bool, <<list_u8_free, Keep>>), tuple2_list_u8_bool)
  BY <1>33, Small, FreesPair
     DEF tuple2_list_u8_bool
<1>39. Frees(Keep, filesystem_types_error_code)
  BY Small
     DEF filesystem_types_error_code
<1>40. Valued(filesystem_types_result_tuple2_list_u8_bool_error_code)
  BY <1>38, <1>39, FreesResult, FreesValued
     DEF filesystem_types_result_tuple2_list_u8_bool_error_code, Result
<1>41. Frees(filesystem_types_result_tuple2_list_u8_bool_error_code_free,
           filesystem_types_result_tuple2_list_u8_bool_error_code)
           /\ filesystem_types_result_tuple2_list_u8_bool_error_code_free.type
           = filesystem_types_result_tuple2_list_u8_bool_error_code
  BY <1>40, LeaveFrees, HelperTypes
     DEF filesystem_types_result_tuple2_list_u8_bool_error_code_free
<1>42. Frees(filesystem_types_result_string_error_code_free,
           filesystem_types_result_string_error_code)
           /\ filesystem_types_result_string_error_code_free.type
           = filesystem_types_result_string_error_code
  BY <1>1, <1>39, FreesResult, HelperTypes
     DEF filesystem_types_result_string_error_code_free,
        filesystem_types_result_string_error_code, Result
<1>43. Frees(filesystem_types_option_directory_entry_free,
           filesystem_types_option_directory_entry)
           /\ filesystem_types_option_directory_entry_free.type
           = filesystem_types_option_directory_entry
  BY <1>37, FreesOption, HelperTypes
     DEF filesystem_types_option_directory_entry_free, filesystem_types_option_directory_entry
<1>44. Frees(filesystem_types_result_option_directory_entry_error_code_free,
           filesystem_types_result_option_directory_entry_error_code)
           /\ filesystem_types_result_option_directory_entry_error_code_free.type
           = filesystem_types_result_option_directory_entry_error_code
  BY <1>43, <1>39, FreesResult, HelperTypes
     DEF filesystem_types_result_option_directory_entry_error_code_free,
        filesystem_types_result_option_directory_entry_error_code, Result
<1>45. Frees(filesystem_preopens_tuple2_own_descriptor_string_free,
           filesystem_preopens_tuple2_own_descriptor_string)
           /\ filesystem_preopens_tuple2_own_descriptor_string_free.type
           = filesystem_preopens_tuple2_own_descriptor_string
  BY Small, <1>1, FreesPair, HelperTypes
     DEF filesystem_preopens_tuple2_own_descriptor_string_free,
        filesystem_preopens_tuple2_own_descriptor_string
<1>46. Frees(filesystem_preopens_list_tuple2_own_descriptor_string_free,
           filesystem_preopens_list_tuple2_own_descriptor_string)
           /\ filesystem_preopens_list_tuple2_own_descriptor_string_free.type
           = filesystem_preopens_list_tuple2_own_descriptor_string
  BY <1>45, BufferFrees, HelperTypes
     DEF filesystem_preopens_list_tuple2_own_descriptor_string_free,
        filesystem_preopens_list_tuple2_own_descriptor_string
<1>47. Frees(Leave(list_u8), list_u8)
  BY <1>33, FreesValued, LeaveFrees
<1>48. Frees(sockets_udp_incoming_datagram_free, sockets_udp_incoming_datagram)
           /\ sockets_udp_incoming_datagram_free.type = sockets_udp_incoming_datagram
  BY <1>47, KeepFreesAddress, FreesPair, HelperTypes
     DEF sockets_udp_incoming_datagram_free, sockets_udp_incoming_datagram
<1>49. Frees(Keep, sockets_udp_option_ip_socket_address)
  BY KeepFreesAddress, KeepFreesOption
     DEF sockets_udp_option_ip_socket_address
<1>50. Frees(sockets_udp_outgoing_datagram_free, sockets_udp_outgoing_datagram)
           /\ sockets_udp_outgoing_datagram_free.type = sockets_udp_outgoing_datagram
  BY <1>47, <1>49, FreesPair, HelperTypes
     DEF sockets_udp_outgoing_datagram_free, sockets_udp_outgoing_datagram
<1>51. Frees(sockets_udp_list_incoming_datagram_free, sockets_udp_list_incoming_datagram)
           /\ sockets_udp_list_incoming_datagram_free.type = sockets_udp_list_incoming_datagram
  BY <1>48, BufferFrees, HelperTypes
     DEF sockets_udp_list_incoming_datagram_free, sockets_udp_list_incoming_datagram
<1>52. Frees(Keep, sockets_network_error_code)
  BY Small
     DEF sockets_network_error_code
<1>53. Frees(sockets_udp_result_list_incoming_datagram_error_code_free,
           sockets_udp_result_list_incoming_datagram_error_code)
           /\ sockets_udp_result_list_incoming_datagram_error_code_free.type
           = sockets_udp_result_list_incoming_datagram_error_code
  BY <1>51, <1>52, FreesResult, HelperTypes
     DEF sockets_udp_result_list_incoming_datagram_error_code_free,
        sockets_udp_result_list_incoming_datagram_error_code, Result
<1>54. Frees(sockets_udp_list_outgoing_datagram_free, sockets_udp_list_outgoing_datagram)
           /\ sockets_udp_list_outgoing_datagram_free.type = sockets_udp_list_outgoing_datagram
  BY <1>50, BufferFrees, HelperTypes
     DEF sockets_udp_list_outgoing_datagram_free, sockets_udp_list_outgoing_datagram
<1>55. Empties(<<Void, Void, Void, Void, Void, Void, Void, Void, Void, String>>, 10, String)
  BY DEF Empties, Tuple
<1>56. Frees(http_types_method_free, http_types_method)
           /\ http_types_method_free.type = http_types_method
  <2> DEFINE types == <<Void, Void, Void, Void, Void, Void, Void, Void, Void, String>>
  <2>1. Empties(types, 10, String) /\ 9 = 10 - 1
    BY <1>55
  <2>2. http_types_method_free = OnCase(Variant(types), [n \in {9} |-> string_free])
            /\ http_types_method = Variant(types)
    BY DEF http_types_method_free, http_types_method
  <2> HIDE DEF types
  <2>3. Frees(OnCase(Variant(types), [n \in {9} |-> string_free]), Variant(types))
    BY <1>1, <2>1, FreesLast
  <2> QED
    BY <2>2, <2>3, HelperTypes
<1>57. Empties(<<Void, Void, String>>, 3, String)
  BY DEF Empties, Tuple
<1>58. Frees(http_types_scheme_free, http_types_scheme)
           /\ http_types_scheme_free.type = http_types_scheme
  BY <1>1, <1>57, 2 = 3 - 1, FreesLast, HelperTypes
     DEF http_types_scheme_free, http_types_scheme
<1>59. Frees(Leave(option_string), option_string)
  BY <1>2, FreesValued, LeaveFrees
<1>60. Frees(Keep, option_u16)
  BY Small, KeepFreesOption
     DEF option_u16
<1>61. Frees(http_types_dns_error_payload_free, http_types_dns_error_payload)
           /\ http_types_dns_error_payload_free.type = http_types_dns_error_payload
  BY <1>59, <1>60, FreesPair, HelperTypes
     DEF http_types_dns_error_payload_free, http_types_dns_error_payload
<1>62. Frees(Keep, option_u8)
  BY Small, KeepFreesOption
     DEF option_u8
<1>63. Frees(http_types_tls_alert_received_payload_free, http_types_tls_alert_received_payload)
           /\ http_types_tls_alert_received_payload_free.type
           = http_types_tls_alert_received_payload
  BY <1>62, <1>59, FreesPair, HelperTypes
     DEF http_types_tls_alert_received_payload_free, http_types_tls_alert_received_payload
<1>64. Frees(Keep, option_u32)
  BY Small, KeepFreesOption
     DEF option_u32
<1>65. Frees(http_types_field_size_payload_free, http_types_field_size_payload)
           /\ http_types_field_size_payload_free.type = http_types_field_size_payload
  BY <1>59, <1>64, FreesPair, HelperTypes
     DEF http_types_field_size_payload_free, http_types_field_size_payload
<1>66. Frees(http_types_option_field_size_payload_free, http_types_option_field_size_payload)
           /\ http_types_option_field_size_payload_free.type = http_types_option_field_size_payload
  BY <1>65, FreesOption, HelperTypes
     DEF http_types_option_field_size_payload_free, http_types_option_field_size_payload
<1>67. Frees(Keep, option_u64)
  BY Small, KeepFreesOption
     DEF option_u64
<1>68. Frees(http_types_error_code_free, http_types_error_code)
           /\ http_types_error_code_free.type = http_types_error_code
  <2> DEFINE types == <<Void, http_types_dns_error_payload, Void, Void, Void, Void, Void, Void,
                      Void, Void, Void, Void, Void, Void,
                      http_types_tls_alert_received_payload, Void, Void,
                      option_u64, Void, Void, Void, option_u32,
                      http_types_option_field_size_payload, option_u32,
                      http_types_field_size_payload, Void, option_u32,
                      http_types_field_size_payload, option_u64, option_u32,
                      http_types_field_size_payload, option_string,
                      option_string, Void, Void, Void, Void, Void,
                      option_string>>
             cases == [n \in {1, 14, 22, 24, 27, 30, 31, 32, 38} |->
                          CASE n = 1 -> http_types_dns_error_payload_free
                            [] n = 14 -> http_types_tls_alert_received_payload_free
                            [] n = 22 -> http_types_option_field_size_payload_free
                            [] n \in {24, 27, 30} -> http_types_field_size_payload_free
                            [] n \in {31, 32, 38} -> Leave(option_string)]
  <2>1. Tuple(types, 39)
    BY DEF Tuple
  <2>2. \A i \in {1, 3, 4, 5, 6, 7, 8, 9, 10, 11, 12, 13, 14, 16, 17, 19, 20, 21, 26, 34, 35,
            36, 37, 38} :
             types[i] = Void /\ HelperOf(cases, i - 1) = Keep
    BY DEF HelperOf
  <2>3. \A i \in {2} :
             types[i] = http_types_dns_error_payload
                 /\ HelperOf(cases, i - 1) = http_types_dns_error_payload_free
    BY DEF HelperOf
  <2>4. \A i \in {15} :
             types[i] = http_types_tls_alert_received_payload
                 /\ HelperOf(cases, i - 1) = http_types_tls_alert_received_payload_free
    BY DEF HelperOf
  <2>5. \A i \in {18, 29} :
             types[i] = option_u64 /\ HelperOf(cases, i - 1) = Keep
    BY DEF HelperOf
  <2>6. \A i \in {22, 24, 27, 30} :
             types[i] = option_u32 /\ HelperOf(cases, i - 1) = Keep
    BY DEF HelperOf
  <2>7. \A i \in {23} :
             types[i] = http_types_option_field_size_payload
                 /\ HelperOf(cases, i - 1) = http_types_option_field_size_payload_free
    BY DEF HelperOf
  <2>8. \A i \in {25, 28, 31} :
             types[i] = http_types_field_size_payload
                 /\ HelperOf(cases, i - 1) = http_types_field_size_payload_free
    BY DEF HelperOf
  <2>9. \A i \in {32, 33, 39} :
             types[i] = option_string /\ HelperOf(cases, i - 1) = Leave(option_string)
    BY DEF HelperOf
  <2> HIDE DEF types, cases
  <2>10. ASSUME NEW i \in 1 .. 39 PROVE Frees(HelperOf(cases, i - 1), types[i])
    <3>1. CASE i \in {1, 3, 4, 5, 6, 7, 8, 9, 10, 11, 12, 13, 14, 16, 17, 19, 20, 21, 26, 34,
              35, 36, 37, 38}
      BY <3>1, <2>2, KeepFreesVoid
    <3>2. CASE i \in {2}
      BY <3>2, <2>3, <1>61
    <3>3. CASE i \in {15}
      BY <3>3, <2>4, <1>63
    <3>4. CASE i \in {18, 29}
      BY <3>4, <2>5, <1>67
    <3>5. CASE i \in {22, 24, 27, 30}
      BY <3>5, <2>6, <1>64
    <3>6. CASE i \in {23}
      BY <3>6, <2>7, <1>66
    <3>7. CASE i \in {25, 28, 31}
      BY <3>7, <2>8, <1>65
    <3>8. CASE i \in {32, 33, 39}
      BY <3>8, <2>9, <1>59
    <3> QED
      BY <3>1, <3>2, <3>3, <3>4, <3>5, <3>6, <3>7, <3>8
  <2>11. CasesFree(cases, types, 39)
    BY <2>1, <2>10 DEF CasesFree
  <2>12. Frees(OnCase(Variant(types), cases), Variant(types))
    BY <2>11, OnCaseFrees
  <2>13. http_types_error_code_free = OnCase(Variant(types), cases)
             /\ http_types_error_code = Variant(types)
    BY DEF types, cases, http_types_error_code_free, http_types_error_code
  <2> QED
    BY <2>12, <2>13, HelperTypes
<1>69. Frees(http_types_field_key_free, String) /\ http_types_field_key_free.type = String
  BY <1>1
     DEF http_types_field_key_free
<1>70. Frees(http_types_field_name_free, String) /\ http_types_field_name_free.type = String
  BY <1>69
     DEF http_types_field_name_free
<1>71. Frees(http_types_field_value_free, http_types_field_value)
           /\ http_types_field_value_free.type = http_types_field_value
  BY Small, BufferFrees, HelperTypes
     DEF http_types_field_value_free, http_types_field_value
<1>72. Frees(tuple2_field_name_field_value_free, tuple2_field_name_field_value)
           /\ tuple2_field_name_field_value_free.type = tuple2_field_name_field_value
  BY <1>70, <1>71, FreesPair, HelperTypes
     DEF tuple2_field_name_field_value_free, tuple2_field_name_field_value
<1>73. Frees(list_tuple2_field_name_field_value_free, list_tuple2_field_name_field_value)
           /\ list_tuple2_field_name_field_value_free.type = list_tuple2_field_name_field_value
  BY <1>72, BufferFrees, HelperTypes
     DEF list_tuple2_field_name_field_value_free, list_tuple2_field_name_field_value
<1>74. Frees(list_field_value_free, list_field_value)
           /\ list_field_value_free.type = list_field_value
  BY <1>71, BufferFrees, HelperTypes
     DEF list_field_value_free, list_field_value
<1>75. Frees(http_types_option_scheme_free, http_types_option_scheme)
           /\ http_types_option_scheme_free.type = http_types_option_scheme
  BY <1>58, FreesOption, HelperTypes
     DEF http_types_option_scheme_free, http_types_option_scheme
<1>76. Frees(http_types_result_own_outgoing_response_error_code_free,
           http_types_result_own_outgoing_response_error_code)
           /\ http_types_result_own_outgoing_response_error_code_free.type
           = http_types_result_own_outgoing_response_error_code
  BY Small, <1>68, FreesResult, HelperTypes
     DEF http_types_result_own_outgoing_response_error_code_free,
        http_types_result_own_outgoing_response_error_code, Result
<1>77. Frees(Keep, http_types_option_own_trailers)
  BY Small, KeepFreesOption
     DEF http_types_option_own_trailers
<1>78. Frees(http_types_result_option_own_trailers_error_code_free,
           http_types_result_option_own_trailers_error_code)
           /\ http_types_result_option_own_trailers_error_code_free.type
           = http_types_result_option_own_trailers_error_code
  BY <1>77, <1>68, FreesResult, HelperTypes
     DEF http_types_result_option_own_trailers_error_code_free,
        http_types_result_option_own_trailers_error_code, Result
<1>79. Frees(http_types_result_result_option_own_trailers_error_code_void_free,
           http_types_result_result_option_own_trailers_error_code_void)
           /\ http_types_result_result_option_own_trailers_error_code_void_free.type
           = http_types_result_result_option_own_trailers_error_code_void
  BY <1>78, KeepFreesVoid, FreesResult, HelperTypes
     DEF http_types_result_result_option_own_trailers_error_code_void_free,
        http_types_result_result_option_own_trailers_error_code_void, Result
<1>80. Frees(http_types_option_result_result_option_own_trailers_error_code_void_free,
           http_types_option_result_result_option_own_trailers_error_code_void)
           /\ http_types_option_result_result_option_own_trailers_error_code_void_free.type
           = http_types_option_result_result_option_own_trailers_error_code_void
  BY <1>79, FreesOption, HelperTypes
     DEF http_types_option_result_result_option_own_trailers_error_code_void_free,
        http_types_option_result_result_option_own_trailers_error_code_void
<1>81. Frees(http_types_result_void_error_code_free, http_types_result_void_error_code)
           /\ http_types_result_void_error_code_free.type = http_types_result_void_error_code
  BY KeepFreesVoid, <1>68, FreesResult, HelperTypes
     DEF http_types_result_void_error_code_free, http_types_result_void_error_code, Result
<1>82. Frees(http_types_result_own_incoming_response_error_code_free,
           http_types_result_own_incoming_response_error_code)
           /\ http_types_result_own_incoming_response_error_code_free.type
           = http_types_result_own_incoming_response_error_code
  BY Small, <1>68, FreesResult, HelperTypes
     DEF http_types_result_own_incoming_response_error_code_free,
        http_types_result_own_incoming_response_error_code, Result
<1>83. Frees(http_types_result_result_own_incoming_response_error_code_void_free,
           http_types_result_result_own_incoming_response_error_code_void)
           /\ http_types_result_result_own_incoming_response_error_code_void_free.type
           = http_types_result_result_own_incoming_response_error_code_void
  BY <1>82, KeepFreesVoid, FreesResult, HelperTypes
     DEF http_types_result_result_own_incoming_response_error_code_void_free,
        http_types_result_result_own_incoming_response_error_code_void, Result
<1>84. Frees(http_types_option_result_result_own_incoming_response_error_code_void_free,
           http_types_option_result_result_own_incoming_response_error_code_void)
           /\ http_types_option_result_result_own_incoming_response_error_code_void_free.type
           = http_types_option_result_result_own_incoming_response_error_code_void
  BY <1>83, FreesOption, HelperTypes
     DEF http_types_option_result_result_own_incoming_response_error_code_void_free,
        http_types_option_result_result_own_incoming_response_error_code_void
<1>85. Frees(http_types_option_error_code_free, http_types_option_error_code)
           /\ http_types_option_error_code_free.type = http_types_option_error_code
  BY <1>68, FreesOption, HelperTypes
     DEF http_types_option_error_code_free, http_types_option_error_code
<1>86. Frees(http_outgoing_handler_error_code_free, http_types_error_code)
           /\ http_outgoing_handler_error_code_free.type = http_types_error_code
  BY <1>68
     DEF http_outgoing_handler_error_code_free
<1>87. Frees(http_outgoing_handler_result_own_future_incoming_response_error_code_free,
           http_outgoing_handler_result_own_future_incoming_response_error_code)
           /\ http_outgoing_handler_result_own_future_incoming_response_error_code_free.type
           = http_outgoing_handler_result_own_future_incoming_response_error_code
  BY Small, <1>86, FreesResult, HelperTypes
     DEF http_outgoing_handler_result_own_future_incoming_response_error_code_free,
        http_outgoing_handler_result_own_future_incoming_response_error_code, Result
<1>88. \A h \in DOMAIN gcore_helpers : Helps(gcore_helpers[h])
  <2>1. Helps(string_free) /\ Helps(option_string_free) /\ Helps(secret_error_free) /\
           Helps(secret_result_option_string_error_free) /\ Helps(key_value_value_free) /\
           Helps(key_value_error_free) /\ Helps(key_value_result_own_store_error_free) /\
           Helps(option_value_free) /\ Helps(key_value_result_option_value_error_free) /\
           Helps(list_string_free) /\ Helps(key_value_result_list_string_error_free) /\
           Helps(tuple2_value_f64_free) /\ Helps(list_tuple2_value_f64_free) /\
           Helps(key_value_result_list_tuple2_value_f64_error_free) /\
           Helps(key_value_result_bool_error_free) /\ Helps(cache_types_payload_free) /\
           Helps(cache_types_error_free) /\ Helps(cache_sync_payload_free) /\
           Helps(cache_sync_error_free) /\ Helps(option_payload_free) /\
           Helps(cache_sync_result_option_payload_error_free) /\
           Helps(cache_sync_result_void_error_free) /\ Helps(cache_sync_result_bool_error_free)
           /\ Helps(cache_sync_result_s64_error_free) /\ Helps(cache_sync_result_u64_error_free)
           /\ Helps(tuple2_string_string_free) /\ Helps(list_tuple2_string_string_free) /\
           Helps(list_u32_free) /\ Helps(list_u8_free)
    BY <1>1, <1>2, <1>4, <1>5, <1>6, <1>8, <1>9, <1>10, <1>11, <1>12, <1>13, <1>14, <1>15,
       <1>16, <1>17, <1>18, <1>20, <1>21, <1>22, <1>23, <1>24, <1>25, <1>26, <1>27, <1>28,
       <1>29, <1>30, <1>32, <1>33 DEF Helps
  <2> QED
    BY SMTT(60), <2>1 DEF gcore_helpers
<1>89. \A h \in DOMAIN wasi_helpers : Helps(wasi_helpers[h])
  <2>1. Helps(io_poll_list_borrow_pollable_free) /\
           Helps(io_streams_result_list_u8_stream_error_free) /\
           Helps(filesystem_types_directory_entry_free) /\
           Helps(filesystem_types_result_tuple2_list_u8_bool_error_code_free) /\
           Helps(filesystem_types_result_string_error_code_free) /\
           Helps(filesystem_types_option_directory_entry_free) /\
           Helps(filesystem_types_result_option_directory_entry_error_code_free) /\
           Helps(filesystem_preopens_tuple2_own_descriptor_string_free) /\
           Helps(filesystem_preopens_list_tuple2_own_descriptor_string_free) /\
           Helps(sockets_udp_incoming_datagram_free) /\
           Helps(sockets_udp_outgoing_datagram_free) /\
           Helps(sockets_udp_list_incoming_datagram_free) /\
           Helps(sockets_udp_result_list_incoming_datagram_error_code_free) /\
           Helps(sockets_udp_list_outgoing_datagram_free) /\ Helps(http_types_method_free) /\
           Helps(http_types_scheme_free) /\ Helps(http_types_dns_error_payload_free) /\
           Helps(http_types_tls_alert_received_payload_free) /\
           Helps(http_types_field_size_payload_free) /\
           Helps(http_types_option_field_size_payload_free) /\ Helps(http_types_error_code_free)
           /\ Helps(http_types_field_key_free) /\ Helps(http_types_field_name_free) /\
           Helps(http_types_field_value_free) /\ Helps(tuple2_field_name_field_value_free) /\
           Helps(list_tuple2_field_name_field_value_free) /\ Helps(list_field_value_free) /\
           Helps(http_types_option_scheme_free) /\
           Helps(http_types_result_own_outgoing_response_error_code_free) /\
           Helps(http_types_result_option_own_trailers_error_code_free) /\
           Helps(http_types_result_result_option_own_trailers_error_code_void_free) /\
           Helps(http_types_option_result_result_option_own_trailers_error_code_void_free) /\
           Helps(http_types_result_void_error_code_free) /\
           Helps(http_types_result_own_incoming_response_error_code_free) /\
           Helps(http_types_result_result_own_incoming_response_error_code_void_free) /\
           Helps(http_types_option_result_result_own_incoming_response_error_code_void_free) /\
           Helps(http_types_option_error_code_free) /\
           Helps(http_outgoing_handler_error_code_free) /\
           Helps(http_outgoing_handler_result_own_future_incoming_response_error_code_free)
    BY <1>31, <1>35, <1>37, <1>41, <1>42, <1>43, <1>44, <1>45, <1>46, <1>48, <1>50, <1>51,
       <1>53, <1>54, <1>56, <1>58, <1>61, <1>63, <1>65, <1>66, <1>68, <1>69, <1>70, <1>71,
       <1>72, <1>73, <1>74, <1>75, <1>76, <1>78, <1>79, <1>80, <1>81, <1>82, <1>83, <1>84,
       <1>85, <1>86, <1>87 DEF Helps
  <2> QED
    BY SMTT(60), <2>1 DEF wasi_helpers
<1> QED
  BY <1>88, <1>89

-----------------------------------------------------------------------------
(* Calls.  CallsInv is what each phase leaves of the ones before; all else is *)
(* said of the adapters and helpers above.                                *)

LEMMA EveryCallServes == \A c \in DOMAIN Calls : Serves(Calls[c])
<1>1. \A f, g : (\A c \in DOMAIN f : Serves(f[c])) /\ (\A c \in DOMAIN g : Serves(g[c]))
         => \A c \in DOMAIN Both(f, g) : Serves(Both(f, g)[c])
  BY DEF Both
<1>2. \A c \in DOMAIN Both(wasi_cli, wasi_filesystem) : Serves(Both(wasi_cli, wasi_filesystem)[c])
  BY <1>1, CliCallsServe, FilesystemCallsServe
<1>3. \A c \in DOMAIN Both(wasi_sockets, wasi_http) : Serves(Both(wasi_sockets, wasi_http)[c])
  BY <1>1, SocketsCallsServe, HttpCallsServe
<1>4. \A c \in DOMAIN wasi : Serves(wasi[c])
  BY <1>1, <1>2, <1>3 DEF wasi
<1> QED
  BY <1>1, <1>4, GcoreCallsServe, HostCallsAssumption

LEMMA EveryHelperHelps ==
    ASSUME WitAbiAssumption
    PROVE  \A h \in DOMAIN Helpers : Helps(Helpers[h])
<1>1. \A f, g : (\A h \in DOMAIN f : Helps(f[h])) /\ (\A h \in DOMAIN g : Helps(g[h]))
         => \A h \in DOMAIN Both(f, g) : Helps(Both(f, g)[h])
  BY DEF Both
<1> QED
  BY <1>1, HelpersHelp, HostCallsAssumption

-----------------------------------------------------------------------------
Texts(c, a) ==
    LET texts == {q \in Lifted(Calls[c].load, a) : q.path \in GivesBack(c) /\ q.holds.kind = "ptr"}
    IN {q.holds.at : q \in texts}

CallsInv ==
    /\ phase \in {"idle", "asked", "answered", "given", "released", "freed"}
    /\ phase = "freed" =>
          /\ call \in DOMAIN Helpers
          /\ answer \in Helpers[call].type.values
          /\ freed = Freed(Helpers[call], answer)
          /\ area = {}
    /\ phase # "freed" => call \in DOMAIN Calls
    /\ phase \in {"idle", "asked"} => area = {}
    /\ phase \notin {"idle", "freed"} => sent = Arguments(Calls[call].sends, args)
    /\ phase \in {"answered", "given", "released"} =>
          /\ answer \in Calls[call].result.values
          /\ area = Cells(Calls[call].result.stored.rows, answer)
    /\ phase \in {"given", "released"} => given = Told(call, Lifted(Calls[call].load, area))
    /\ phase = "released" => freed = SetToSeq(Texts(call, area))

LEMMA NoCallIsCall == "utils_set_user_diag" \in DOMAIN Calls
<1>1. "utils_set_user_diag" \in DOMAIN gcore_fastedge
  BY DEF gcore_fastedge
<1> QED
  BY <1>1, HostCallsAssumption DEF Both

LEMMA CallsStep ==
    ASSUME CallsInv, [CallsNext]_callVars
    PROVE  CallsInv'
<1> USE DEF CallsInv
<1>1. ASSUME NEW c \in DOMAIN Calls, Ask(c) PROVE CallsInv'
  BY <1>1 DEF Ask
<1>2. CASE Answer
  BY <1>2 DEF Answer
<1>3. CASE Give
  BY <1>3 DEF Give
<1>4. CASE Release
  BY <1>4 DEF Release, Texts
<1>5. CASE Done
  BY <1>5, NoCallIsCall DEF Done
<1>6. ASSUME NEW helper \in DOMAIN Helpers, FreeStruct(helper) PROVE CallsInv'
  BY <1>6 DEF FreeStruct
<1>7. CASE UNCHANGED callVars
  BY <1>7 DEF callVars
<1> QED
  BY <1>1, <1>2, <1>3, <1>4, <1>5, <1>6, <1>7 DEF CallsNext

\* The inductive invariant of calls: what each phase leaves of the ones before
\* it, from what the host answers to what is given back.
THEOREM CallsInvariant == CallsSpec => []CallsInv
<1>1. CallsInit => CallsInv
  BY NoCallIsCall DEF CallsInit, CallsInv
<1> QED
  BY <1>1, CallsStep, PTL DEF CallsSpec

\* What stands where, of a call.
LEMMA CallFacts ==
    ASSUME NEW c \in DOMAIN Calls
    PROVE  /\ Calls[c].params.passed = Calls[c].sends
           /\ Stands(Calls[c].result) /\ Calls[c].load = Calls[c].result.stored.rows
           /\ Calls[c].size = Calls[c].result.stored.size
           /\ Calls[c].align = Calls[c].result.stored.align
<1>1. Answers(Calls[c]) /\ Sends(Calls[c])
  BY EveryCallServes DEF Serves
<1>2. /\ Stands(Calls[c].result)
      /\ Calls[c].size = Calls[c].result.stored.size
      /\ Calls[c].align = Calls[c].result.stored.align
      /\ Calls[c].load = Moved(0, Calls[c].result.stored.rows)
  BY <1>1 DEF Answers, At, Spans, Reads
<1>3. Calls[c].result.stored.rows \in SUBSET Rows
  BY <1>2 DEF Stands, Fits
<1> QED
  BY <1>1, <1>2, <1>3, MovedRows DEF Sends

\* Types: every answer of the host fits into the area its adapter has for it,
\* and that is aligned as the answer asks, for lists of any length.
THEOREM CallsAreTyped == CallsSpec => []CallsTypeOK
<1>1. ASSUME CallsInv PROVE CallsTypeOK
  <2> USE <1>1 DEF CallsInv
  <2>1. ASSUME NEW d \in area PROVE d.off + d.size <= Calls[call].size
    <3>1. phase \in {"answered", "given", "released"}
      OBVIOUS
    <3>2. call \in DOMAIN Calls /\ area = Cells(Calls[call].result.stored.rows, answer)
      BY <3>1
    <3>3. PICK r \in Present(Calls[call].result.stored.rows, answer) : d.off = r.off
              /\ d.size = r.size
      BY <3>2 DEF Cells
    <3>4. r.off + r.size <= Calls[call].result.stored.size
      BY <3>2, <3>3, CallFacts DEF Present, Stands, Fits
    <3> QED
      BY <3>2, <3>3, <3>4, CallFacts
  <2>2. ASSUME phase # "freed" PROVE Calls[call].align % Calls[call].result.stored.align = 0
    <3>1. call \in DOMAIN Calls
      BY <2>2
    <3>2. Calls[call].align = Calls[call].result.stored.align
              /\ Calls[call].result.stored.align \in Aligns
      BY <3>1, CallFacts DEF Stands
    <3>3. 1 % 1 = 0 /\ 2 % 2 = 0 /\ 4 % 4 = 0 /\ 8 % 8 = 0
      OBVIOUS
    <3> QED
      BY <3>2, <3>3 DEF Aligns
  <2>3. call \in IF phase = "freed" THEN DOMAIN Helpers ELSE DOMAIN Calls
    OBVIOUS
  <2> QED
    BY <2>1, <2>2, <2>3 DEF CallsTypeOK
<1> QED
  BY <1>1, CallsInvariant, PTL

\* The host gets the arguments of every call as the canonical ABI passes them.
THEOREM ArgumentsDoArrive == CallsSpec => []ArgumentsArrive
<1>1. ASSUME CallsInv PROVE ArgumentsArrive
  BY <1>1, CallFacts DEF CallsInv, ArgumentsArrive
<1> QED
  BY <1>1, CallsInvariant, PTL

LEMMA AnswerIsLifted ==
    ASSUME CallsInv, phase \in {"given", "released"}
    PROVE  /\ call \in DOMAIN Calls /\ answer \in Calls[call].result.values
           /\ Lifted(Calls[call].load, area) = Shown(Calls[call].result.stored.rows, answer)
<1>1. /\ call \in DOMAIN Calls /\ answer \in Calls[call].result.values
      /\ area = Cells(Calls[call].result.stored.rows, answer)
  BY DEF CallsInv
<1>2. /\ Calls[call].load = Calls[call].result.stored.rows
      /\ Calls[call].result.stored.rows \in SUBSET Rows
      /\ answer \in Values /\ Suits(Calls[call].result.stored.rows, answer)
  BY <1>1, CallFacts DEF Stands, Fits
<1> QED
  BY <1>1, <1>2, LiftedIsShown

\* What a caller is told is what the host answered, part by part, of every
\* call; of a secret that cannot be read, that there is none.
THEOREM WhatIsGivenIsAnswered == CallsSpec => []GivenIsAnswered
<1>1. ASSUME CallsInv PROVE GivenIsAnswered
  BY <1>1, AnswerIsLifted DEF CallsInv, GivenIsAnswered
<1> QED
  BY <1>1, CallsInvariant, PTL

\* Every _free helper gives back each block of its value once, inner ones
\* first, and leaves only what it has no call for.
THEOREM BlocksAreFreedOnce == CallsSpec => []FreedOnce
<1>1. ASSUME CallsInv PROVE FreedOnce
  <2> SUFFICES ASSUME phase = "freed"
               PROVE  /\ InnerFirst(freed)
                      /\ ToSet(freed) = Blocks(answer) \ Left(Helpers[call], answer)
    BY DEF FreedOnce, InnerFirst
  <2>1. /\ call \in DOMAIN Helpers /\ answer \in Helpers[call].type.values
        /\ freed = Freed(Helpers[call], answer)
    BY <1>1 DEF CallsInv
  <2>2. Does(Helpers[call], answer)
    BY <2>1, EveryHelperHelps, WitAbiAssumption DEF Helps, Frees
  <2> QED
    BY <2>1, <2>2 DEF Does, InOrder
<1> QED
  BY <1>1, CallsInvariant, PTL

-----------------------------------------------------------------------------
(* Texts that a builtin gives back.                                       *)

\* A part of the first level.
LEMMA PartAt ==
    ASSUME NEW v, NEW types, NEW N \in Nat, NEW i, NEW one, NEW x, CaseOf(v, types, N, i, one, x),
           NEW k \in Nat, NEW p \in Paths
    PROVE  <<k>> \o p \in DOMAIN v => k = i /\ p \in DOMAIN x /\ v[<<k>> \o p] = x[p]
<1>1. /\ v \in Values /\ one[i] = x /\ i \in Nat
      /\ \A q \in DOMAIN v : q # <<>> => Head(q) \in {i} /\ Tail(q) \in DOMAIN one[Head(q)]
      /\ \A j \in {i} : \A q \in Paths :
            /\ <<j>> \o q \in DOMAIN v <=> q \in DOMAIN one[j]
            /\ q \in DOMAIN one[j] => v[<<j>> \o q] = one[j][q]
  BY DEF CaseOf, MadeOf
<1>2. Head(<<k>> \o p) = k /\ Tail(<<k>> \o p) = p /\ <<k>> \o p # <<>>
  BY Prefixed
<1> SUFFICES ASSUME <<k>> \o p \in DOMAIN v PROVE k = i /\ p \in DOMAIN x /\ v[<<k>> \o p] = x[p]
  OBVIOUS
<1>3. k = i /\ p \in DOMAIN one[k]
  BY <1>1, <1>2
<1> QED
  BY <1>1, <1>3

\* A text is at the place of a path.
TextAt(v, p) == p \in DOMAIN v => v[p].kind = "list" /\ v[p].n \in Nat

LEMMA TextIs ==
    ASSUME NEW v \in String.values, WitAbiAssumption
    PROVE  v[<<>>].kind = "list" /\ v[<<>>].n \in Nat
<1>1. Valued(Scalar(1))
  BY ScalarValued DEF Aligns
<1>2. PICK n \in Nat : \E es : ListOf(v, Scalar(1), n, es)
  BY <1>1, ListValue DEF String
<1>3. v[<<>>] = [kind |-> "list", n |-> n]
  BY <1>2 DEF ListOf, MadeOf
<1> QED
  BY <1>3

LEMMA PairTuple == \A a, b : Tuple(<<a, b>>, 2) /\ <<a, b>>[1] = a /\ <<a, b>>[2] = b
BY DEF Tuple

LEMMA EitherCase ==
    ASSUME NEW a, NEW b, Valued(a), Valued(b), NEW v \in Variant(<<a, b>>).values
    PROVE  v \in Values /\ \E i \in {1, 2} : \E one, x :
              /\ CaseOf(v, <<a, b>>, 2, i, one, x)
              /\ i = 1 => x \in a.values
              /\ i = 2 => x \in b.values
<1> DEFINE types == <<a, b>>
<1>1. Tuple(types, 2) /\ types[1] = a /\ types[2] = b
  BY PairTuple
<1> HIDE DEF types
<1>2. \A i \in 1 .. 2 : i = 1 \/ i = 2
  OBVIOUS
<1>3. \A i \in 1 .. 2 : Valued(types[i])
  BY <1>1, <1>2
<1>4. v \in Variant(types).values
  BY DEF types
<1>5. v \in Values /\ \E i, one, x : CaseOf(v, types, 2, i, one, x)
  BY <1>1, <1>3, <1>4, CaseValue
<1>6. PICK i, one, x : CaseOf(v, types, 2, i, one, x)
  BY <1>5
<1>7. i \in 1 .. 2 /\ x \in types[i].values
  BY <1>6 DEF CaseOf
<1>8. i \in {1, 2}
  BY <1>2, <1>7
<1> QED
  BY <1>1, <1>5, <1>6, <1>7, <1>8 DEF types

LEMMA Single == \A k \in Nat : <<k>> \o <<>> = <<k>> /\ <<k>> \in Paths
<1>1. SUFFICES ASSUME NEW k \in Nat PROVE <<k>> \o <<>> = <<k>> /\ <<k>> \in Paths
  OBVIOUS
<1>2. <<k>> \in Seq(Nat)
  OBVIOUS
<1> QED
  BY <1>2, ConcatEmptySeq DEF Paths

LEMMA OptionalTextIs ==
    ASSUME NEW v \in option_string.values, WitAbiAssumption
    PROVE  v \in Values /\ TextAt(v, <<2>>)
<1>1. Valued(Void) /\ Valued(String)
  BY AtVoid, TextValued, KeepFreesVoid, FreesValued DEF String
<1>2. option_string = Variant(<<Void, String>>)
  BY DEF option_string, Option
<1>3. /\ v \in Values
      /\ \E i \in {1, 2} : \E one, x :
              /\ CaseOf(v, <<Void, String>>, 2, i, one, x)
              /\ i = 1 => x \in Void.values
              /\ i = 2 => x \in String.values
  BY <1>1, <1>2, EitherCase
<1>4. PICK i \in {1, 2} : \E one, x :
              /\ CaseOf(v, <<Void, String>>, 2, i, one, x)
              /\ i = 1 => x \in Void.values
              /\ i = 2 => x \in String.values
  BY <1>3
<1>5. PICK one, x : CaseOf(v, <<Void, String>>, 2, i, one, x) /\ (i = 2 => x \in String.values)
  BY <1>4
<1>6. <<2>> \o <<>> \in DOMAIN v => 2 = i /\ <<>> \in DOMAIN x /\ v[<<2>> \o <<>>] = x[<<>>]
  <2>1. 2 \in Nat /\ <<>> \in Paths
    BY RootPath
  <2> DEFINE types == <<Void, String>>
  <2>2. CaseOf(v, types, 2, i, one, x)
    BY <1>5
  <2> HIDE DEF types
  <2>3. ASSUME NEW p \in Paths, NEW k \in Nat
        PROVE  <<k>> \o p \in DOMAIN v => k = i /\ p \in DOMAIN x /\ v[<<k>> \o p] = x[p]
    <3>1. 2 \in Nat
      OBVIOUS
    <3> QED
      BY <2>2, <3>1, PartAt
  <2> QED
    BY <2>1, <2>3
<1> QED
  BY <1>3, <1>5, <1>6, Single, TextIs DEF TextAt

LEMMA Two == \A j, k \in Nat : <<j>> \o <<k>> = <<j, k>>
<1> SUFFICES ASSUME NEW j \in Nat, NEW k \in Nat PROVE <<j>> \o <<k>> = <<j, k>>
  OBVIOUS
<1>1. <<j>> \in Seq(Nat) /\ <<k>> \in Seq(Nat) /\ <<j, k>> \in Seq(Nat)
  OBVIOUS
<1>2. Len(<<j>>) = 1 /\ Len(<<k>>) = 1 /\ Len(<<j, k>>) = 2
  OBVIOUS
<1>3. /\ <<j>> \o <<k>> \in Seq(Nat) /\ Len(<<j>> \o <<k>>) = 2
      /\ (<<j>> \o <<k>>)[1] = j /\ (<<j>> \o <<k>>)[2] = k
  BY <1>1, <1>2, ConcatProperties
<1>4. \A i \in 1 .. 2 : i = 1 \/ i = 2
  OBVIOUS
<1> DEFINE s == <<j>> \o <<k>>
           t == <<j, k>>
<1>5. t[1] = j /\ t[2] = k
  OBVIOUS
<1>6. s \in Seq(Nat) /\ t \in Seq(Nat) /\ Len(s) = Len(t) /\ Len(t) = 2 /\ s[1] = j /\ s[2] = k
  BY <1>1, <1>2, <1>3
<1> HIDE DEF s, t
<1>7. \A i \in 1 .. Len(s) : s[i] = t[i]
  BY <1>4, <1>5, <1>6
<1>8. s = t
  BY <1>6, <1>7, SeqEqual
<1> QED
  BY <1>8 DEF s, t

\* The answer to a question for a secret: the text in case 0.
LEMMA SecretIs ==
    ASSUME NEW v \in secret_result_option_string_error.values, WitAbiAssumption
    PROVE  /\ v \in Values /\ <<>> \in DOMAIN v
           /\ v[<<>>].n \in {0, 1}
           /\ TextAt(v, <<1, 2>>)
           /\ <<1, 2>> \in DOMAIN v => v[<<>>].n = 0
           /\ <<2, 3>> \in DOMAIN v => v[<<>>].n = 1
<1>1. Valued(option_string) /\ Valued(secret_error)
  <2>1. Valued(String) /\ Valued(Void)
    BY TextValued, KeepFreesVoid, FreesValued DEF String
  <2>2. Frees(Leave(String), String)
    BY <2>1, LeaveFrees
  <2>3. Frees(OnSome(Option(String), Leave(String)), Option(String))
    BY <2>2, FreesOption
  <2>4. Empties(<<Void, Void, String>>, 3, String) /\ 2 = 3 - 1
    BY DEF Empties, Tuple
  <2>5. Frees(OnCase(Variant(<<Void, Void, String>>), [n \in {2} |-> Leave(String)]),
              Variant(<<Void, Void, String>>))
    BY <2>2, <2>4, FreesLast
  <2> QED
    BY <2>3, <2>5, FreesValued DEF option_string, secret_error
<1>2. secret_result_option_string_error = Variant(<<option_string, secret_error>>)
  BY DEF secret_result_option_string_error, Result
<1>3. /\ v \in Values
      /\ \E i \in {1, 2} : \E one, x :
              /\ CaseOf(v, <<option_string, secret_error>>, 2, i, one, x)
              /\ i = 1 => x \in option_string.values
              /\ i = 2 => x \in secret_error.values
  BY <1>1, <1>2, EitherCase
<1>4. PICK i \in {1, 2} : \E one, x :
              /\ CaseOf(v, <<option_string, secret_error>>, 2, i, one, x)
              /\ i = 1 => x \in option_string.values
              /\ i = 2 => x \in secret_error.values
  BY <1>3
<1>5. PICK one, x : /\ CaseOf(v, <<option_string, secret_error>>, 2, i, one, x)
                    /\ i = 1 => x \in option_string.values
  BY <1>4
<1>6. /\ <<1>> \o <<2>> \in DOMAIN v => 1 = i /\ <<2>> \in DOMAIN x /\ v[<<1>> \o <<2>>] = x[<<2>>]
      /\ <<2>> \o <<3>> \in DOMAIN v => 2 = i
  <2>1. 1 \in Nat /\ 2 \in Nat /\ <<2>> \in Paths /\ <<3>> \in Paths
    BY Single
  <2> DEFINE types == <<option_string, secret_error>>
  <2>3. CaseOf(v, types, 2, i, one, x)
    BY <1>5
  <2> HIDE DEF types
  <2>4. ASSUME NEW p \in Paths, NEW k \in Nat
        PROVE  <<k>> \o p \in DOMAIN v => k = i /\ p \in DOMAIN x /\ v[<<k>> \o p] = x[p]
    <3>1. 2 \in Nat
      OBVIOUS
    <3> QED
      BY <2>3, <3>1, PartAt, SMTT(60)
  <2> QED
    BY <2>1, <2>4
<1>7. <<1>> \o <<2>> = <<1, 2>> /\ <<2>> \o <<3>> = <<2, 3>>
  BY Two
<1>8. <<>> \in DOMAIN v /\ v[<<>>].n = i - 1
  <2>1. MadeOf(v, "case", i - 1, {i}, one)
    BY <1>5 DEF CaseOf
  <2>2. <<>> \in DOMAIN v /\ v[<<>>] = [kind |-> "case", n |-> i - 1]
    BY <2>1 DEF MadeOf
  <2> QED
    BY <2>2
<1>9. i = 1 => TextAt(x, <<2>>)
  BY <1>5, OptionalTextIs
<1>10. TextAt(v, <<1, 2>>)
  <2> SUFFICES ASSUME <<1, 2>> \in DOMAIN v PROVE v[<<1, 2>>].kind = "list" /\ v[<<1, 2>>].n \in Nat
    BY DEF TextAt
  <2>1. 1 = i /\ <<2>> \in DOMAIN x /\ v[<<1, 2>>] = x[<<2>>]
    BY <1>6, <1>7
  <2> QED
    BY <1>9, <2>1 DEF TextAt
<1>11. v[<<>>].n \in {0, 1} /\ (i = 1 => v[<<>>].n = 0) /\ (i = 2 => v[<<>>].n = 1)
  BY <1>8
<1> QED
  BY <1>3, <1>6, <1>7, <1>8, <1>10, <1>11

LEMMA OneToSequence ==
    ASSUME NEW x, NEW S, S \subseteq {x}
    PROVE  IsInjective(SetToSeq(S)) /\ ToSet(SetToSeq(S)) = S
<1>1. \E f \in [1 .. Cardinality(S) -> S] : IsInjective(f) /\ ToSet(f) = S
  <2>1. CASE S = {}
    <3>1. Cardinality(S) = 0
      BY <2>1, FS_EmptySet
    <3>2. <<>> \in [1 .. Cardinality(S) -> S] /\ IsInjective(<<>>) /\ ToSet(<<>>) = S
      BY <2>1, <3>1 DEF IsInjective, ToSet
    <3> QED
      BY <3>2
  <2>2. CASE S = {x}
    <3>1. Cardinality(S) = 1
      BY <2>2, FS_Singleton
    <3>2. 1 .. 1 = {1}
      OBVIOUS
    <3> DEFINE f == [i \in 1 .. 1 |-> x]
    <3>3. f \in [1 .. Cardinality(S) -> S]
      BY <2>2, <3>1
    <3>4. IsInjective(f) /\ ToSet(f) = S
      BY <2>2, <3>2 DEF IsInjective, ToSet
    <3> QED
      BY <3>3, <3>4
  <2> QED
    BY <2>1, <2>2
<1>2. \A f \in [1 .. Cardinality(S) -> S] : IsInjective(f) => ToSet(f) = S
  <2>1. CASE S = {}
    BY <2>1, FS_EmptySet DEF ToSet
  <2>2. CASE S = {x}
    <3>1. Cardinality(S) = 1 /\ 1 .. 1 = {1}
      BY <2>2, FS_Singleton
    <3> QED
      BY <2>2, <3>1 DEF ToSet
  <2> QED
    BY <2>1, <2>2
<1>3. SetToSeq(S) = CHOOSE f \in [1 .. Cardinality(S) -> S] : IsInjective(f)
  BY DEF SetToSeq
<1>4. SetToSeq(S) \in [1 .. Cardinality(S) -> S] /\ IsInjective(SetToSeq(S))
  BY <1>1, <1>3
<1> QED
  BY <1>2, <1>4

-----------------------------------------------------------------------------
\* The pointers among what is loaded are at these places.
Pointers(load, paths) == \A r \in load : r.kind = "ptr" => r.path \in paths

LEMMA SpanPointers == \A o : Pointers(Span(o), {<<>>}) /\ Pointers(None, {})
BY DEF Pointers, Span, None, Row

LEMMA SwitchPointers ==
    ASSUME NEW N, NEW loads, Tuple(loads, N), NEW paths,
           \A i \in 1 .. N : Pointers(loads[i], paths[i]),
           NEW o
    PROVE  Pointers(Switch(o, loads), AllPrefixed(paths, N))
<1> SUFFICES ASSUME NEW r \in Switch(o, loads), r.kind
        = "ptr" PROVE r.path \in AllPrefixed(paths, N)
  BY DEF Pointers
<1>1. DOMAIN loads = 1 .. N
  BY DEF Tuple
<1>2. r # Row(<<>>, "tag", o, 1, Len(loads))
  BY DEF Row
<1>3. r \in UNION {Under(<<i>>, loads[i]) : i \in 1 .. N}
  BY <1>1, <1>2 DEF Switch, Struct
<1>4. PICK i \in 1 .. N : r \in Under(<<i>>, loads[i])
  BY <1>3
<1>5. PICK s \in loads[i] : r = Row(<<i>> \o s.path, s.kind, s.off, s.size, s.cases)
  BY <1>4 DEF Under
<1>6. s.kind = "ptr" /\ r.path = <<i>> \o s.path
  BY <1>5 DEF Row
<1>7. s.path \in paths[i]
  BY <1>6 DEF Pointers
<1>8. r.path \in Prefix(i, paths[i])
  BY <1>6, <1>7 DEF Prefix
<1> QED
  BY <1>8 DEF AllPrefixed

LEMMA VariableText == Pointers(dictionary_get.load, {<<2>>})
<1> DEFINE loads == <<None, Span(4)>>
           paths == <<{}, {<<>>}>>
<1>1. loads[1] = None /\ loads[2] = Span(4) /\ paths[1] = {} /\ paths[2] = {<<>>}
  OBVIOUS
<1>2. \A i \in 1 .. 2 : i = 1 \/ i = 2
  OBVIOUS
<1>3. Tuple(loads, 2)
  BY DEF Tuple
<1>4. dictionary_get.load = Switch(0, loads)
  BY DEF dictionary_get, Call
<1> HIDE DEF loads, paths
<1>5. \A i \in 1 .. 2 : Pointers(loads[i], paths[i])
  BY <1>1, <1>2, SpanPointers
<1>6. Pointers(Switch(0, loads), AllPrefixed(paths, 2))
  BY <1>3, <1>5, SwitchPointers
<1>7. ASSUME NEW p \in AllPrefixed(paths, 2) PROVE p = <<2>>
  <2>1. PICK i \in 1 .. 2 : p \in Prefix(i, paths[i])
    BY DEF AllPrefixed
  <2>2. i = 2 /\ p = <<2>> \o <<>>
    BY <1>1, <1>2, <2>1 DEF Prefix
  <2> QED
    BY <2>2, Single
<1> QED
  BY <1>4, <1>6, <1>7 DEF Pointers

LEMMA SecretText ==
    ASSUME NEW c \in {secret_get, secret_get_effective_at}
    PROVE  Pointers(c.load, {<<1, 2>>, <<2, 3>>})
<1> DEFINE found == <<None, Span(8)>>
           error == <<None, None, Span(8)>>
           loads == <<Switch(4, found), Switch(4, error)>>
           some == <<{}, {<<>>}>>
           text == <<{}, {}, {<<>>}>>
           paths == <<{<<2>>}, {<<3>>}>>
<1>1. /\ found[1] = None /\ found[2] = Span(8) /\ some[1] = {} /\ some[2] = {<<>>}
      /\ error[1] = None /\ error[2] = None /\ error[3] = Span(8)
      /\ text[1] = {} /\ text[2] = {} /\ text[3] = {<<>>}
  OBVIOUS
<1>2. /\ loads[1] = Switch(4, found) /\ loads[2] = Switch(4, error)
      /\ paths[1] = {<<2>>} /\ paths[2] = {<<3>>}
  OBVIOUS
<1>3. (\A i \in 1 .. 2 : i = 1 \/ i = 2) /\ (\A i \in 1 .. 3 : i = 1 \/ i = 2 \/ i = 3)
  OBVIOUS
<1>4. Tuple(found, 2) /\ Tuple(error, 3) /\ Tuple(loads, 2)
  BY DEF Tuple
<1>5. c.load = Switch(0, loads)
  <2>1. 4 + 4 = 8
    OBVIOUS
  <2>2. secret_error_at(4) = Switch(4, error)
    BY <2>1 DEF secret_error_at
  <2> QED
    BY <2>2 DEF secret_get, secret_get_effective_at, Call
<1> HIDE DEF found, error, loads, some, text, paths
<1>6. Pointers(Switch(4, found), AllPrefixed(some, 2))
  <2>1. \A i \in 1 .. 2 : Pointers(found[i], some[i])
    BY <1>1, <1>3, SpanPointers
  <2> QED
    BY <1>4, <2>1, SwitchPointers
<1>7. Pointers(Switch(4, error), AllPrefixed(text, 3))
  <2>1. \A i \in 1 .. 3 : Pointers(error[i], text[i])
    BY <1>1, <1>3, SpanPointers
  <2> QED
    BY <1>4, <2>1, SwitchPointers
<1>8. Pointers(Switch(4, found), {<<2>>})
  <2>1. ASSUME NEW p \in AllPrefixed(some, 2) PROVE p = <<2>>
    <3>1. PICK i \in 1 .. 2 : p \in Prefix(i, some[i])
      BY DEF AllPrefixed
    <3>2. i = 2 /\ p = <<2>> \o <<>>
      BY <1>1, <1>3, <3>1 DEF Prefix
    <3> QED
      BY <3>2, Single
  <2> QED
    BY <1>6, <2>1 DEF Pointers
<1>9. Pointers(Switch(4, error), {<<3>>})
  <2>1. ASSUME NEW p \in AllPrefixed(text, 3) PROVE p = <<3>>
    <3>1. PICK i \in 1 .. 3 : p \in Prefix(i, text[i])
      BY DEF AllPrefixed
    <3>2. i = 3 /\ p = <<3>> \o <<>>
      BY <1>1, <1>3, <3>1 DEF Prefix
    <3> QED
      BY <3>2, Single
  <2> QED
    BY <1>7, <2>1 DEF Pointers
<1>10. Pointers(Switch(0, loads), AllPrefixed(paths, 2))
  <2>1. \A i \in 1 .. 2 : Pointers(loads[i], paths[i])
    BY <1>2, <1>3, <1>8, <1>9
  <2> QED
    BY <1>4, <2>1, SwitchPointers
<1>11. ASSUME NEW p \in AllPrefixed(paths, 2) PROVE p \in {<<1, 2>>, <<2, 3>>}
  <2>1. PICK i \in 1 .. 2 : p \in Prefix(i, paths[i])
    BY DEF AllPrefixed
  <2>2. p = <<1>> \o <<2>> \/ p = <<2>> \o <<3>>
    BY <1>2, <1>3, <2>1 DEF Prefix
  <2> QED
    BY <2>2, Two
<1> QED
  BY <1>5, <1>10, <1>11 DEF Pointers

\* A pointer that is shown is of its place in the answer.
LEMMA ShownPointer ==
    ASSUME NEW rows, NEW v, NEW q \in Shown(rows, v), q.holds.kind = "ptr",
           NEW paths, Pointers(rows, paths)
    PROVE  q.path \in paths /\ q.path \in DOMAIN v /\ q.holds.at = q.path
<1>1. PICK r \in Present(rows, v) : q = [path |-> r.path, holds |-> Content(r, v)]
  BY DEF Shown
<1>2. Content(r, v).kind = r.kind
  BY DEF Content, Datum
<1>3. r.kind = "ptr" /\ q.path = r.path /\ q.holds = Content(r, v)
  BY <1>1, <1>2
<1>4. Content(r, v).at = r.path
  BY <1>3 DEF Content, Datum
<1> QED
  BY <1>3, <1>4 DEF Present, Pointers

\* The text in a variable: the only pointer there is.
LEMMA VariableTextGivenBack ==
    ASSUME CallsInv, phase = "released", call = "dictionary_get"
    PROVE  TextsGivenBack
<1> DEFINE A == Shown(Calls[call].result.stored.rows, answer)
           S == {q.holds.at : q \in {r \in A : r.holds.kind = "ptr"}}
<1>1. /\ call \in DOMAIN Calls /\ answer \in Calls[call].result.values
      /\ Lifted(Calls[call].load, area) = A
  BY AnswerIsLifted
<1>2. Calls[call] = dictionary_get
  BY HostCallsAssumption DEF Both, gcore_fastedge
<1>3. Calls[call].load = Calls[call].result.stored.rows /\ Calls[call].result = option_string
  BY <1>1, <1>2, CallFacts DEF dictionary_get, Call
<1>4. answer \in Values /\ TextAt(answer, <<2>>)
  BY <1>1, <1>3, OptionalTextIs, WitAbiAssumption
<1>5. Pointers(Calls[call].result.stored.rows, {<<2>>})
  BY <1>2, <1>3, VariableText
<1>6. ASSUME NEW q \in A, q.holds.kind = "ptr"
      PROVE  q.path = <<2>> /\ q.path \in DOMAIN answer /\ q.holds.at = q.path
  BY <1>5, <1>6, ShownPointer
<1>7. given = A /\ freed = SetToSeq(Texts(call, area))
  BY <1>1 DEF CallsInv, Told
<1>8. GivesBack(call) = {<<2>>}
  BY DEF GivesBack, get_env_vars
<1>9. Texts(call, area)
          = {q.holds.at : q \in {r \in A : r.path \in {<<2>>} /\ r.holds.kind = "ptr"}}
  BY <1>1, <1>8 DEF Texts
<1>10. ASSUME NEW q \in S PROVE q = <<2>> /\ q \in DOMAIN answer
  BY <1>6
<1> HIDE DEF A
<1>11. Texts(call, area) = S
  <2>1. {r \in A : r.path \in {<<2>>} /\ r.holds.kind = "ptr"} = {r \in A : r.holds.kind = "ptr"}
    BY <1>6
  <2> QED
    BY <1>9, <2>1
<1>12. S \subseteq {<<2>>}
  BY <1>10
<1>13. {q.holds.at : q \in {r \in given : r.holds.kind = "ptr"}} = S
  BY <1>7
<1> HIDE DEF S
<1>14. IsInjective(freed) /\ ToSet(freed) = S
  BY <1>7, <1>11, <1>12, OneToSequence
<1>15. ASSUME NEW p \in S PROVE p \in Blocks(answer) \/ answer[p].n = 0
  <2>1. answer[p].kind = "list" /\ answer[p].n \in Nat /\ p \in DOMAIN answer
    BY <1>4, <1>10 DEF TextAt
  <2> QED
    BY <2>1 DEF Blocks
<1> QED
  BY <1>13, <1>14, <1>15 DEF TextsGivenBack

\* The text of a secret: a pointer of case 0.  In case 1, none is told.
LEMMA SecretTextGivenBack ==
    ASSUME CallsInv, phase = "released", call \in {"secret_get", "secret_get_effective_at"}
    PROVE  TextsGivenBack
<1> DEFINE A == Shown(Calls[call].result.stored.rows, answer)
           T == {q.holds.at : q \in {r \in A : r.path \in {<<1, 2>>} /\ r.holds.kind = "ptr"}}
           none == [path |-> <<>>, holds |-> Datum("tag", <<>>, 0)]
           B == {r \in A : r.path # <<>>}
           S == {q.holds.at : q \in {r \in given : r.holds.kind = "ptr"}}
<1>1. /\ call \in DOMAIN Calls /\ answer \in Calls[call].result.values
      /\ Lifted(Calls[call].load, area) = A
  BY AnswerIsLifted
<1>2. Calls[call] \in {secret_get, secret_get_effective_at}
  BY HostCallsAssumption DEF Both, gcore_fastedge
<1>3. Calls[call].load = Calls[call].result.stored.rows
  BY <1>1, CallFacts
<1>4. Calls[call].result = secret_result_option_string_error
  BY <1>2 DEF secret_get, secret_get_effective_at, Call
<1>5. /\ <<>> \in DOMAIN answer /\ answer[<<>>].n \in {0, 1}
      /\ TextAt(answer, <<1, 2>>)
      /\ <<1, 2>> \in DOMAIN answer => answer[<<>>].n = 0
      /\ <<2, 3>> \in DOMAIN answer => answer[<<>>].n = 1
  BY <1>1, <1>4, SecretIs, WitAbiAssumption
<1>6. Pointers(Calls[call].result.stored.rows, {<<1, 2>>, <<2, 3>>})
  BY <1>2, <1>3, SecretText
<1>7. \A q \in A : q.holds.kind = "ptr" =>
          q.path \in {<<1, 2>>, <<2, 3>>} /\ q.path \in DOMAIN answer /\ q.holds.at = q.path
  BY <1>6, ShownPointer
<1>8. given = IF none \in A THEN {[q EXCEPT !.path = Tail(@)] : q \in B} ELSE {none}
  BY <1>1 DEF CallsInv, Told
<1>9. GivesBack(call) = {<<1, 2>>}
  BY DEF GivesBack, get_secret_vars, get_secret_vars_effective_at
<1>10. Texts(call, area) = T
  BY <1>1, <1>9 DEF Texts
<1>11. freed = SetToSeq(T)
  BY <1>10 DEF CallsInv
<1>12. none \in A <=> answer[<<>>].n = 0
  <2>1. \E r \in Calls[call].result.stored.rows : r.path = <<>> /\ r.kind = "tag"
    <3> DEFINE r == Row(<<>>, "tag", 0, 1, 2)
    <3>1. r \in Calls[call].load
      BY <1>2 DEF secret_get, secret_get_effective_at, Call, Switch
    <3>2. r.path = <<>> /\ r.kind = "tag"
      BY DEF Row
    <3> QED
      BY <1>3, <3>1, <3>2
  <2>2. PICK r \in Present(Calls[call].result.stored.rows, answer) : r.path = <<>> /\ r.kind = "tag"
    BY <1>5, <2>1 DEF Present
  <2>3. Content(r, answer) = Datum("tag", <<>>, answer[<<>>].n)
    BY <2>2 DEF Content
  <2>4. [path |-> <<>>, holds |-> Datum("tag", <<>>, answer[<<>>].n)] \in A
    BY <2>2, <2>3 DEF Shown
  <2>5. ASSUME none \in A PROVE answer[<<>>].n = 0
    <3>1. PICK s \in Present(Calls[call].result.stored.rows, answer) :
              none = [path |-> s.path, holds |-> Content(s, answer)]
      BY <2>5 DEF Shown
    <3>2. s.path = <<>> /\ Content(s, answer) = Datum("tag", <<>>, 0)
      BY <3>1
    <3>3. Content(s, answer).kind = s.kind
      BY DEF Content, Datum
    <3>4. s.kind = "tag"
      BY <3>2, <3>3 DEF Datum
    <3> QED
      BY <3>2, <3>4 DEF Content, Datum
  <2> QED
    BY <2>4, <2>5
<1> HIDE DEF A, none
<1>13. S = T
  <2>1. CASE answer[<<>>].n = 0
    <3>1. \A q \in A : q.holds.kind = "ptr" => q.path = <<1, 2>> /\ q.path # <<>>
      BY <1>5, <1>7, <2>1
    <3>2. S = T
      <4>1. given = {[q EXCEPT !.path = Tail(@)] : q \in B}
        BY <1>8, <1>12, <2>1
      <4>2. \A q : [q EXCEPT !.path = Tail(@)].holds = q.holds
        OBVIOUS
      <4>3. ASSUME NEW x \in S PROVE x \in T
        <5>1. PICK r \in given : r.holds.kind = "ptr" /\ x = r.holds.at
          OBVIOUS
        <5>2. PICK q \in B : r = [q EXCEPT !.path = Tail(@)]
          BY <4>1
        <5>3. q \in A /\ q.holds.kind = "ptr" /\ x = q.holds.at
          BY <4>2, <5>1, <5>2
        <5> QED
          BY <3>1, <5>3
      <4>4. ASSUME NEW x \in T PROVE x \in S
        <5>1. PICK q \in A : q.path = <<1, 2>> /\ q.holds.kind = "ptr" /\ x = q.holds.at
          OBVIOUS
        <5>2. q \in B
          BY <3>1, <5>1
        <5>3. [q EXCEPT !.path = Tail(@)] \in given
          BY <4>1, <5>2
        <5> QED
          BY <4>2, <5>1, <5>3
      <4> QED
        BY <4>3, <4>4
    <3> QED
      BY <3>2
  <2>2. CASE answer[<<>>].n # 0
    <3>1. given = {none}
      BY <1>8, <1>12, <2>2
    <3>2. none.holds.kind = "tag"
      BY DEF none, Datum
    <3>3. S = {}
      BY <3>1, <3>2
    <3>4. T = {}
      BY <1>5, <1>7, <2>2
    <3> QED
      BY <3>3, <3>4
  <2> QED
    BY <2>1, <2>2
<1>14. \A p \in T : p = <<1, 2>> /\ p \in DOMAIN answer
  BY <1>7
<1> HIDE DEF S, T
<1>15. T \subseteq {<<1, 2>>}
  BY <1>14
<1>16. IsInjective(freed) /\ ToSet(freed) = S
  BY <1>11, <1>13, <1>15, OneToSequence
<1>17. ASSUME NEW p \in S PROVE p \in Blocks(answer) \/ answer[p].n = 0
  <2>1. answer[p].kind = "list" /\ answer[p].n \in Nat /\ p \in DOMAIN answer
    BY <1>5, <1>14, <1>13 DEF TextAt
  <2> QED
    BY <2>1 DEF Blocks
<1> QED
  BY <1>16, <1>17 DEF TextsGivenBack, S

\* The text of a variable or a secret is given back once when getEnv, getSecret
\* or getSecretEffectiveAt returns, and nothing else is.
THEOREM TextsAreGivenBack == CallsSpec => []TextsGivenBack
<1>1. ASSUME CallsInv PROVE TextsGivenBack
  <2>1. CASE phase = "released"
            /\ call \notin {"dictionary_get", "secret_get", "secret_get_effective_at"}
    <3>1. GivesBack(call) = {}
      BY <2>1 DEF GivesBack, cache_results, kv_store_results
    <3>2. Texts(call, area) = {}
      BY <3>1 DEF Texts
    <3>3. freed = SetToSeq({})
      BY <1>1, <2>1, <3>2 DEF CallsInv
    <3>4. IsInjective(freed) /\ ToSet(freed) = {}
      BY <3>3, OneToSequence
    <3> QED
      BY <2>1, <3>4 DEF TextsGivenBack
  <2>2. CASE phase # "released"
    BY <2>2 DEF TextsGivenBack
  <2> QED
    BY <1>1, <2>1, <2>2, VariableTextGivenBack, SecretTextGivenBack
<1> QED
  BY <1>1, CallsInvariant, PTL

-----------------------------------------------------------------------------
(* The natives of stores.  HeldStoreUsable is not inductive: what the       *)
(* garbage collector does to an object's native depends on objects the      *)
(* application has dropped as well, so the invariant is about all that are  *)
(* not finalized.                                                           *)

\* An object that a finalizer still has to come to and that is not half-built.
Live(s) == life[s] \in {"held", "dropped"} /\ s \notin half

HalfAreGarbage == \A h \in half : life[h] \in {"dropped", "finalized"}

LiveHasNative ==
    \A s \in Stores :
        Live(s) => s \in handles /\ (slot[s] \in allocated \/ slot[s] \in TwiceDeleted)

LiveIsAlone ==
    \A s, t \in Stores :
        s # t /\ Live(s) /\ Live(t) /\ slot[s] = slot[t] => slot[s] \in TwiceDeleted

StraysAreFinalized == \A s \in strays : life[s] = "finalized"

IInv ==
    /\ StoresTypeOK /\ HalfAreGarbage /\ LiveHasNative /\ LiveIsAlone
    /\ StraysAreFinalized /\ DeletedOnce

-----------------------------------------------------------------------------
\* Once a half-built object has deleted an address, that stays so: a
\* finalized object is not used again.
LEMMA TwiceDeletedGrows ==
    ASSUME IInv, StoresNext
    PROVE  TwiceDeleted \subseteq TwiceDeleted'
<1> SUFFICES ASSUME NEW h \in half, life[h] = "finalized"
             PROVE  h \in half' /\ life'[h] = "finalized" /\ slot'[h] = slot[h]
  BY DEF TwiceDeleted
<1>1. h \in Stores
  BY DEF IInv, StoresTypeOK
<1> SUFFICES ASSUME NEW s \in Stores,
                    \/ Open(s) \/ OpenRefused(s) \/ OpenWithoutObject(s)
                    \/ OpenWithoutMethods(s) \/ Drop(s) \/ Collect(s)
             PROVE  h \in half' /\ life'[h] = "finalized" /\ slot'[h] = slot[h]
  BY DEF StoresNext
<1> USE <1>1 DEF IInv, StoresTypeOK
<1>2. CASE Open(s)
  BY <1>2 DEF Open
<1>3. CASE OpenRefused(s)
  BY <1>3 DEF OpenRefused
<1>4. CASE OpenWithoutObject(s)
  BY <1>4 DEF OpenWithoutObject
<1>5. CASE OpenWithoutMethods(s)
  BY <1>5 DEF OpenWithoutMethods
<1>6. CASE Drop(s)
  BY <1>6 DEF Drop
<1>7. CASE Collect(s)
  BY <1>7 DEF Collect
<1> QED
  BY <1>2, <1>3, <1>4, <1>5, <1>6, <1>7

LEMMA InitIInv == StoresInit => IInv
BY DEF StoresInit, IInv, StoresTypeOK, HalfAreGarbage, LiveHasNative, LiveIsAlone, Live,
       StraysAreFinalized, DeletedOnce, TwiceDeleted

LEMMA NextType == IInv /\ StoresNext => StoresTypeOK'
<1> SUFFICES ASSUME IInv, NEW s \in Stores,
                    \/ Open(s) \/ OpenRefused(s) \/ OpenWithoutObject(s)
                    \/ OpenWithoutMethods(s) \/ Drop(s) \/ Collect(s)
             PROVE  StoresTypeOK'
  BY DEF StoresNext
<1> USE DEF IInv, StoresTypeOK
<1>1. CASE Open(s)
  BY <1>1 DEF Open
<1>2. CASE OpenRefused(s)
  BY <1>2 DEF OpenRefused
<1>3. CASE OpenWithoutObject(s)
  BY <1>3 DEF OpenWithoutObject
<1>4. CASE OpenWithoutMethods(s)
  BY <1>4 DEF OpenWithoutMethods
<1>5. CASE Drop(s)
  BY <1>5 DEF Drop
<1>6. CASE Collect(s)
  BY <1>6 DEF Collect
<1> QED
  BY <1>1, <1>2, <1>3, <1>4, <1>5, <1>6

-----------------------------------------------------------------------------
(* The actions.  TwiceDeleted only grows, by TwiceDeletedGrows.                *)

LEMMA OpenKeeps ==
    ASSUME IInv, NEW s \in Stores, Open(s),
           StoresTypeOK', TwiceDeleted \subseteq TwiceDeleted'
    PROVE  IInv'
<1>1. PICK a \in Addresses \ allocated :
          slot' = [slot EXCEPT ![s] = a] /\ allocated' = allocated \cup {a}
  BY DEF Open
<1>2. life[s] = "unborn" /\ life' = [life EXCEPT ![s] = "held"]
      /\ handles' = handles \cup {s} /\ half' = half /\ strays' = strays
  BY DEF Open
<1>3. s \notin half /\ s \notin strays
  BY <1>2 DEF IInv, HalfAreGarbage, StraysAreFinalized
<1>4. \A t \in Stores \ {s} : life'[t] = life[t] /\ slot'[t] = slot[t]
  BY <1>1, <1>2 DEF IInv, StoresTypeOK
<1>5. slot'[s] = a
  BY <1>1 DEF IInv, StoresTypeOK
<1>6. HalfAreGarbage' /\ StraysAreFinalized' /\ DeletedOnce'
  BY <1>2, <1>3, <1>4
     DEF IInv, StoresTypeOK, HalfAreGarbage, StraysAreFinalized, DeletedOnce
<1>7. LiveHasNative'
  BY <1>1, <1>2, <1>4, <1>5 DEF IInv, LiveHasNative, Live
<1>8. \A t \in Stores \ {s} : Live(t)' => Live(t) /\ (slot[t] = a => a \in TwiceDeleted')
  BY <1>1, <1>2, <1>4 DEF IInv, LiveHasNative, Live
<1>9. LiveIsAlone'
  <2> SUFFICES ASSUME NEW t \in Stores, NEW u \in Stores,
                      t # u, Live(t)', Live(u)', slot'[t] = slot'[u]
               PROVE  slot'[t] \in TwiceDeleted'
    BY DEF LiveIsAlone
  <2>1. CASE t # s /\ u # s
    BY <1>4, <1>8, <2>1 DEF IInv, LiveIsAlone
  <2>2. CASE t = s \/ u = s
    BY <1>4, <1>5, <1>8, <2>2
  <2> QED
    BY <2>1, <2>2
<1> QED
  BY <1>6, <1>7, <1>9 DEF IInv

LEMMA OpenWithoutMethodsKeeps ==
    ASSUME IInv, NEW s \in Stores, OpenWithoutMethods(s),
           StoresTypeOK', TwiceDeleted \subseteq TwiceDeleted'
    PROVE  IInv'
<1>1. PICK a \in Addresses \ allocated : slot' = [slot EXCEPT ![s] = a]
  BY DEF OpenWithoutMethods
<1>2. life[s] = "unborn" /\ life' = [life EXCEPT ![s] = "dropped"]
      /\ half' = half \cup {s} /\ handles' = handles \cup {s}
      /\ allocated' = allocated /\ strays' = strays
  BY DEF OpenWithoutMethods
<1>3. s \notin strays
  BY <1>2 DEF IInv, StraysAreFinalized
<1>4. \A t \in Stores \ {s} : life'[t] = life[t] /\ slot'[t] = slot[t]
  BY <1>1, <1>2 DEF IInv, StoresTypeOK
<1>5. life'[s] = "dropped"
  BY <1>2 DEF IInv, StoresTypeOK
<1>6. HalfAreGarbage' /\ StraysAreFinalized' /\ DeletedOnce'
  BY <1>2, <1>3, <1>4, <1>5
     DEF IInv, StoresTypeOK, HalfAreGarbage, StraysAreFinalized, DeletedOnce
<1>7. \A t \in Stores : Live(t)' => t # s /\ Live(t) /\ slot'[t] = slot[t]
  BY <1>2, <1>4 DEF Live
<1>8. LiveHasNative'
  BY <1>2, <1>7 DEF IInv, LiveHasNative
<1>9. LiveIsAlone'
  BY <1>7 DEF IInv, LiveIsAlone
<1> QED
  BY <1>6, <1>8, <1>9 DEF IInv

\* finalize takes the native from the object that is finalized and, if
\* another has the same one, the address is in TwiceDeleted.
LEMMA CollectKeeps ==
    ASSUME IInv, NEW s \in Stores, Collect(s),
           StoresTypeOK', TwiceDeleted \subseteq TwiceDeleted'
    PROVE  IInv'
<1>1. life[s] = "dropped" /\ life' = [life EXCEPT ![s] = "finalized"]
      /\ allocated' = allocated \ {slot[s]}
      /\ strays' = (IF slot[s] \in allocated THEN strays ELSE strays \cup {s})
      /\ slot' = slot /\ half' = half /\ handles' = handles
  BY DEF Collect
<1>2. life'[s] = "finalized" /\ \A t \in Stores \ {s} : life'[t] = life[t]
  BY <1>1 DEF IInv, StoresTypeOK
<1>3. HalfAreGarbage' /\ StraysAreFinalized'
  BY <1>1, <1>2 DEF IInv, StoresTypeOK, HalfAreGarbage, StraysAreFinalized
<1>4. DeletedOnce'
  <2>1. s \in half \/ slot[s] \in allocated \/ slot[s] \in TwiceDeleted
    BY <1>1 DEF IInv, LiveHasNative, Live
  <2> QED
    BY <1>1, <2>1 DEF IInv, DeletedOnce
<1>5. \A t \in Stores : Live(t)' => t # s /\ Live(t)
  BY <1>1, <1>2 DEF Live
<1>6. s \in half => slot[s] \in TwiceDeleted'
  BY <1>1, <1>2 DEF TwiceDeleted
<1>7. LiveHasNative'
  <2> SUFFICES ASSUME NEW t \in Stores, Live(t)'
               PROVE  t \in handles' /\ (slot'[t] \in allocated' \/ slot'[t] \in TwiceDeleted')
    BY DEF LiveHasNative
  <2>1. t # s /\ t \in handles /\ (slot[t] \in allocated \/ slot[t] \in TwiceDeleted)
    BY <1>5 DEF IInv, LiveHasNative
  <2>2. slot[t] = slot[s] => slot[t] \in TwiceDeleted'
    BY <1>1, <1>5, <1>6, <2>1 DEF IInv, LiveIsAlone, Live
  <2> QED
    BY <1>1, <2>1, <2>2
<1>8. LiveIsAlone'
  BY <1>1, <1>5 DEF IInv, LiveIsAlone
<1> QED
  BY <1>3, <1>4, <1>7, <1>8 DEF IInv

\* The other actions change neither an address nor what is live.
LEMMA OthersKeep ==
    ASSUME IInv, NEW s \in Stores,
           OpenRefused(s) \/ OpenWithoutObject(s) \/ Drop(s),
           StoresTypeOK', TwiceDeleted \subseteq TwiceDeleted'
    PROVE  IInv'
<1>1. /\ slot' = slot /\ allocated' = allocated /\ half' = half /\ strays' = strays
      /\ handles \subseteq handles'
  BY DEF OpenRefused, OpenWithoutObject, Drop
<1>2. s \notin half /\ s \notin strays /\ \A t \in Stores \ {s} : life'[t] = life[t]
  BY DEF IInv, StoresTypeOK, HalfAreGarbage, StraysAreFinalized,
         OpenRefused, OpenWithoutObject, Drop
<1>3. Live(s)' => Live(s)
  BY DEF IInv, StoresTypeOK, Live, OpenRefused, OpenWithoutObject, Drop
<1>4. \A t \in Stores : Live(t)' => Live(t)
  BY <1>1, <1>2, <1>3 DEF Live
<1>5. HalfAreGarbage' /\ StraysAreFinalized' /\ DeletedOnce'
  BY <1>1, <1>2 DEF IInv, StoresTypeOK, HalfAreGarbage, StraysAreFinalized, DeletedOnce
<1>6. LiveHasNative' /\ LiveIsAlone'
  BY <1>1, <1>4 DEF IInv, LiveHasNative, LiveIsAlone
<1> QED
  BY <1>5, <1>6 DEF IInv

-----------------------------------------------------------------------------
\* The inductive invariant holds throughout, allocation failures included.
THEOREM StoresInvariant == StoresSpec => []IInv
<1>1. IInv /\ [StoresNext]_storeVars => IInv'
  <2>1. CASE StoresNext
    <3>1. IInv => StoresTypeOK' /\ TwiceDeleted \subseteq TwiceDeleted'
      BY <2>1, NextType, TwiceDeletedGrows
    <3> QED
      BY <2>1, <3>1, OpenKeeps, OpenWithoutMethodsKeeps, CollectKeeps, OthersKeep
         DEF StoresNext
  <2>2. CASE UNCHANGED storeVars
    BY <2>2 DEF storeVars, IInv, StoresTypeOK, HalfAreGarbage, LiveHasNative, LiveIsAlone,
                Live, StraysAreFinalized, DeletedOnce, TwiceDeleted
  <2> QED
    BY <2>1, <2>2
<1> QED
  BY InitIInv, <1>1, PTL DEF StoresSpec

\* Types of the objects and addresses of stores.
THEOREM StoresAreTyped == StoresSpec => []StoresTypeOK
<1>1. IInv => StoresTypeOK
  BY DEF IInv
<1> QED
  BY StoresInvariant, <1>1, PTL

\* Whatever is opened, dropped and collected, an object in the application's
\* hands has its native, its own, and an open handle in it, except at an
\* address that a half-built object has deleted a second time
\* (kv-store.cpp:118).
THEOREM HeldStoresAreUsable == StoresSpec => []HeldStoreUsable
<1>1. IInv => HeldStoreUsable
  BY DEF IInv, HalfAreGarbage, LiveHasNative, LiveIsAlone, Live, HeldStoreUsable
<1> QED
  BY StoresInvariant, <1>1, PTL

\* A finalizer finds its native, except that of a half-built object or where
\* one has been.
THEOREM NativesAreDeletedOnce == StoresSpec => []DeletedOnce
<1>1. IInv => DeletedOnce
  BY DEF IInv
<1> QED
  BY StoresInvariant, <1>1, PTL

-----------------------------------------------------------------------------
(* Secrets: what the number an application asks with has become when it    *)
(* reaches the host.                                                       *)

LEMMA SmallModulo ==
    ASSUME NEW d \in Nat \ {0}, NEW n \in 0 .. d - 1
    PROVE  n % d = n
BY SMT

LEMMA NegativeModulo ==
    ASSUME NEW d \in Nat \ {0}, NEW n \in Int, -d <= n, n < 0
    PROVE  n % d = n + d
BY SMT

LEMMA ModuloIsNoMore ==
    ASSUME NEW d \in Nat \ {0}, NEW n \in Nat
    PROVE  n % d \in 0 .. d - 1 /\ n % d <= n
BY SMT

\* The number passed on, and the one asked for.
PassedOn(n) == ToUint32(ClampedToZero(ToInt32(n)))
Wanted(n) == IF n < 0 THEN 0 ELSE n

\* From the range of an int32 upwards what is passed on is never later than
\* what was asked for, and the same where an int32 holds it.
LEMMA PassedOnIsNoLater ==
    ASSUME NEW n \in Int, n >= -Int32Limit
    PROVE  /\ PassedOn(n) \in Nat
           /\ PassedOn(n) <= Wanted(n)
           /\ Wanted(n) < Int32Limit => PassedOn(n) = Wanted(n)
<1> DEFINE d == 2 * Int32Limit
<1>1. Int32Limit \in Nat \ {0} /\ d \in Nat \ {0}
  BY SecretSlotsAssumption
<1> HIDE DEF d
<1>2. d = 2 * Int32Limit
  BY DEF d
<1>3. ToInt32(n) = IF n % d < Int32Limit THEN n % d ELSE (n % d) - d
  BY DEF ToInt32, d
<1>4. \A c \in 0 .. Int32Limit - 1 : ToUint32(c) = c
  BY <1>1, <1>2, SmallModulo DEF ToUint32, d
<1>5. CASE n < 0
  <2>1. n % d = n + d
    BY <1>1, <1>2, <1>5, NegativeModulo
  <2>2. ClampedToZero(ToInt32(n)) = 0
    BY <1>1, <1>2, <1>3, <1>5, <2>1 DEF ClampedToZero
  <2> QED
    BY <1>1, <1>4, <1>5, <2>2 DEF PassedOn, Wanted
<1>6. CASE n >= 0
  <2>1. n % d \in 0 .. d - 1 /\ n % d <= n
    <3>1. n \in Nat
      BY <1>6
    <3> QED
      BY <1>1, <3>1, ModuloIsNoMore
  <2>2. n < Int32Limit => n % d = n
    BY <1>1, <1>2, <1>6, SmallModulo
  <2>3. ClampedToZero(ToInt32(n)) = IF n % d < Int32Limit THEN n % d ELSE 0
    BY <1>1, <1>2, <1>3, <2>1 DEF ClampedToZero
  <2>4. ClampedToZero(ToInt32(n)) \in 0 .. Int32Limit - 1
    BY <1>1, <2>1, <2>3
  <2>5. PassedOn(n) = ClampedToZero(ToInt32(n))
    BY <1>4, <2>4 DEF PassedOn
  <2> QED
    BY <1>1, <1>6, <2>1, <2>2, <2>3, <2>5 DEF Wanted
<1> QED
  BY <1>5, <1>6

-----------------------------------------------------------------------------
\* The slots of a secret are numbers, so that at most one is the most recent.
LEMMA MostRecentIsOne ==
    ASSUME SecretTypeOK, NEW p \in Int
    PROVE  /\ MostRecent(p) \subseteq slots
           /\ IsFiniteSet(MostRecent(p)) /\ Cardinality(MostRecent(p)) <= 1
<1>1. MostRecent(p) \subseteq slots /\ \A s \in slots : s \in Int
  BY SecretSlotsAssumption DEF SecretTypeOK, MostRecent
<1>2. \A s, t \in MostRecent(p) : s = t
  BY <1>1 DEF MostRecent
<1>3. CASE MostRecent(p) = {}
  BY <1>1, <1>3, FS_EmptySet
<1>4. CASE MostRecent(p) # {}
  <2>1. PICK s : MostRecent(p) = {s}
    BY <1>2, <1>4
  <2>2. IsFiniteSet({s}) /\ Cardinality({s}) = 1
    BY FS_Singleton
  <2> QED
    BY <1>1, <2>1, <2>2
<1> QED
  BY <1>3, <1>4

\* Types of slots and answers: a call gets one slot at most.
THEOREM SecretsAreTyped == SecretSpec => []SecretTypeOK
<1>1. SecretInit => SecretTypeOK
  BY FS_EmptySet DEF SecretInit, SecretTypeOK
<1>2. ASSUME SecretTypeOK, AddSlot PROVE SecretTypeOK'
  BY <1>2 DEF SecretTypeOK, AddSlot
<1>3. ASSUME SecretTypeOK, GetSecretEffectiveAt PROVE SecretTypeOK'
  <2>1. PICK n \in Asked :
            /\ effective_at' = n
            /\ secretValue' = MostRecent(PassedOn(n))
            /\ slots' = slots
    BY <1>3 DEF GetSecretEffectiveAt, PassedOn
  <2>2. PassedOn(n) \in Int
    <3>1. Int32Limit \in Nat \ {0} /\ n \in Int
      BY SecretSlotsAssumption
    <3> QED
      BY <3>1 DEF PassedOn, ToUint32, ClampedToZero, ToInt32
  <2>3. /\ secretValue' \subseteq slots
        /\ Cardinality(secretValue') <= 1
    BY <1>3, <2>1, <2>2, MostRecentIsOne
  <2> QED
    BY <1>3, <2>1, <2>3 DEF SecretTypeOK
<1>4. SecretTypeOK /\ UNCHANGED secretVars => SecretTypeOK'
  BY DEF SecretTypeOK, secretVars
<1> QED
  BY <1>1, <1>2, <1>3, <1>4, PTL DEF SecretSpec, SecretNext

\* No call gets a slot later than it asked for, whatever slots are added
\* between calls; and asked with what an int32 holds, it gets the most recent.
THEOREM SlotsAreAsAsked == SecretSpec => SlotAsAsked
<1>1. ASSUME SecretTypeOK, GetSecretEffectiveAt
      PROVE  LET at == IF effective_at' < 0 THEN 0 ELSE effective_at'
             IN effective_at' >= -Int32Limit =>
                   /\ \A s \in secretValue' : s <= at
                   /\ at < Int32Limit => secretValue' = MostRecent(at)
  <2>1. effective_at' \in Int
    BY <1>1, SecretSlotsAssumption DEF GetSecretEffectiveAt
  <2>2. secretValue' = MostRecent(PassedOn(effective_at'))
    BY <1>1 DEF GetSecretEffectiveAt, PassedOn
  <2>3. \A s \in slots : s \in Int
    BY <1>1, SecretSlotsAssumption DEF SecretTypeOK
  <2>4. \A p : \A s \in MostRecent(p) : s \in slots /\ s <= p
    BY DEF MostRecent
  <2>5. SUFFICES ASSUME effective_at' >= -Int32Limit
                 PROVE  /\ \A s \in secretValue' : s <= Wanted(effective_at')
                        /\ Wanted(effective_at') < Int32Limit
                              => secretValue' = MostRecent(Wanted(effective_at'))
    BY DEF Wanted
  <2>6. /\ PassedOn(effective_at') \in Nat
        /\ PassedOn(effective_at') <= Wanted(effective_at')
        /\ Wanted(effective_at') < Int32Limit => PassedOn(effective_at') = Wanted(effective_at')
    BY <2>1, <2>5, PassedOnIsNoLater
  <2>7. Wanted(effective_at') \in Int
    BY <2>1 DEF Wanted
  <2> QED
    BY <2>2, <2>3, <2>4, <2>6, <2>7
<1> QED
  BY <1>1, SecretsAreTyped, PTL DEF SlotAsAsked

-----------------------------------------------------------------------------
(* What is known of the request.  What was read is what is a property by    *)
(* now, and a property stays.                                               *)

PropertiesAreSeen ==
    DOMAIN seen = DOMAIN info /\ \A p \in DOMAIN seen : seen[p] = info[p]

LEMMA InfoStepsKeepProperties ==
    ASSUME PropertiesAreSeen, [InfoNext]_infoVars
    PROVE  PropertiesAreSeen' /\ \A p \in DOMAIN seen : p \in DOMAIN seen' /\ seen'[p] = seen[p]
<1>1. CASE UNCHANGED infoVars
  BY <1>1 DEF infoVars, PropertiesAreSeen
<1>2. ASSUME NEW p \in DOMAIN Owner, Get(p) \/ GetThrows(p) \/ ReadAgain(p)
      PROVE  PropertiesAreSeen' /\ \A q \in DOMAIN seen : q \in DOMAIN seen' /\ seen'[q] = seen[q]
  <2>1. CASE Get(p)
    BY <2>1 DEF PropertiesAreSeen, Get, With
  <2>2. CASE GetThrows(p)
    BY <2>2 DEF PropertiesAreSeen, GetThrows, infoVars
  <2>3. CASE ReadAgain(p)
    BY <2>3 DEF PropertiesAreSeen, ReadAgain, With
  <2> QED
    BY <1>2, <2>1, <2>2, <2>3
<1>3. CASE \E obj \in {"event", "client", "server"} : Freeze(obj)
  BY <1>3 DEF PropertiesAreSeen, Freeze
<1>4. CASE \E name \in HeaderNames : SetHeader(name)
  BY <1>4 DEF PropertiesAreSeen, SetHeader
<1> QED
  BY <1>1, <1>2, <1>3, <1>4 DEF InfoNext

\* Which properties an object gets does not depend on the headers.
LEMMA BuiltKeepsItsProperties ==
    ASSUME NEW p \in DOMAIN Owner
    PROVE  DOMAIN Built(p)' = DOMAIN Built(p)
<1>1. p = "client" \/ p = "server" \/ p = "geo" \/ p = "pop"
  BY DEF Owner
<1>2. CASE p = "client"
  BY <1>2 DEF Built, ClientInfo
<1>3. CASE p = "server"
  BY <1>3 DEF Built, ServerInfo
<1>4. CASE p = "geo"
  BY <1>4 DEF Built, GeoInfo
<1>5. CASE p = "pop"
  BY <1>5 DEF Built, PopInfo
<1> QED
  BY <1>1, <1>2, <1>3, <1>4, <1>5

InfoInv == InfoTypeOK /\ DOMAIN info \subseteq DOMAIN Owner

LEMMA InfoStepsKeepTypes ==
    ASSUME InfoInv, [InfoNext]_infoVars
    PROVE  InfoInv'
<1>1. \A q : DOMAIN info \subseteq DOMAIN info' => (Has(q) => Has(q)')
  BY DEF Has
<1>2. ASSUME NEW p \in DOMAIN Owner, Get(p) PROVE InfoInv'
  <2>1. info' = With(info, p, Built(p)) /\ seen' = With(seen, p, Built(p)) /\ headers' = headers
        /\ Has(Owner[p])
    BY <1>2 DEF Get
  <2>2. DOMAIN info' = DOMAIN info \cup {p} /\ DOMAIN seen' = DOMAIN seen \cup {p}
    BY <2>1 DEF With
  <2>3. \A q \in DOMAIN info' : info'[q] = IF q = p THEN Built(p) ELSE info[q]
    BY <2>1, <2>2 DEF With
  <2>4. ASSUME NEW q \in DOMAIN info'
        PROVE  Has(Owner[q])' /\ DOMAIN info'[q] = DOMAIN Built(q)'
    <3>1. q \in DOMAIN Owner /\ Has(Owner[q]) /\ DOMAIN info'[q] = DOMAIN Built(q)
      BY <2>1, <2>2, <2>3 DEF InfoInv, InfoTypeOK
    <3> QED
      BY <1>1, <2>2, <3>1, BuiltKeepsItsProperties
  <2> QED
    BY <2>1, <2>2, <2>4 DEF InfoInv, InfoTypeOK
<1>3. ASSUME info' = info, DOMAIN seen' = DOMAIN seen, DOMAIN headers' \subseteq HeaderNames
      PROVE  InfoInv'
  BY <1>1, <1>3, BuiltKeepsItsProperties DEF InfoInv, InfoTypeOK
<1>4. ASSUME NEW p \in DOMAIN Owner, ReadAgain(p) PROVE InfoInv'
  <2>1. DOMAIN seen' = DOMAIN seen
    BY <1>4 DEF ReadAgain, With, InfoInv, InfoTypeOK
  <2> QED
    BY <1>3, <1>4, <2>1 DEF ReadAgain, InfoInv, InfoTypeOK
<1>5. ASSUME NEW name \in HeaderNames, SetHeader(name) PROVE InfoInv'
  <2>1. DOMAIN headers' = DOMAIN headers \cup {name}
    BY <1>5 DEF SetHeader, With
  <2> QED
    BY <1>3, <1>5, <2>1 DEF SetHeader, InfoInv, InfoTypeOK
<1>6. CASE UNCHANGED <<headers, info, seen>>
  BY <1>3, <1>6 DEF InfoInv, InfoTypeOK
<1> QED
  BY <1>2, <1>4, <1>5, <1>6 DEF InfoNext, GetThrows, Freeze, infoVars

\* Types: an object has the properties its code defines, and is there only if
\* what it is a property of is.
THEOREM InformationIsTyped == InfoSpec => []InfoTypeOK
<1>1. InfoInit => InfoInv
  BY DEF InfoInit, InfoInv, InfoTypeOK
<1>2. InfoInv => InfoTypeOK
  BY DEF InfoInv
<1> QED
  BY <1>1, <1>2, InfoStepsKeepTypes, PTL DEF InfoSpec

\* Two successful reads of a property of the event, whatever happens to the
\* headers and however many reads fail in between, give the same.
THEOREM ReadsOfTheRequestAgree == InfoSpec => ReadsAgree
<1>1. InfoInit => PropertiesAreSeen
  BY DEF InfoInit, PropertiesAreSeen
<1> QED
  BY <1>1, InfoStepsKeepProperties, PTL DEF InfoSpec, ReadsAgree

-----------------------------------------------------------------------------
(* The instance: each of its parts moves by itself.                       *)
\* What holds of calls, of stores, of secrets or of the information on the
\* request holds of the instance.
THEOREM PartsOfInstance ==
    Spec => CallsSpec /\ StoresSpec /\ SecretSpec /\ InfoSpec
<1>1. Init => CallsInit /\ StoresInit /\ SecretInit /\ InfoInit
  BY DEF Init
<1>2. [Next]_vars => /\ [CallsNext]_callVars /\ [StoresNext]_storeVars
                     /\ [SecretNext]_secretVars /\ [InfoNext]_infoVars
  BY DEF Next, vars
<1> QED
  BY <1>1, <1>2, PTL DEF Spec, CallsSpec, StoresSpec, SecretSpec, InfoSpec

\* Types of the whole instance: of its calls, stores, secrets and request.
THEOREM InstanceIsTyped == Spec => []TypeOK
<1>1. CallsTypeOK /\ StoresTypeOK /\ SecretTypeOK /\ InfoTypeOK => TypeOK
  BY DEF TypeOK
<1> QED
  BY <1>1, PartsOfInstance, CallsAreTyped, StoresAreTyped, SecretsAreTyped, InformationIsTyped, PTL

\* The run's properties, of the instance for any constants: arguments and
\* answers arrive whole and memory is given back once, natives are deleted once
\* and those of stores in use are not, no secret is of a later slot, and what
\* has been read of the request stays.
THEOREM InstanceIsCorrect ==
    Spec => /\ [](ArgumentsArrive /\ GivenIsAnswered /\ FreedOnce /\ TextsGivenBack)
            /\ [](HeldStoreUsable /\ DeletedOnce)
            /\ SlotAsAsked /\ ReadsAgree
<1> QED
  BY PartsOfInstance, ArgumentsDoArrive, WhatIsGivenIsAnswered, BlocksAreFreedOnce,
     TextsAreGivenBack,
     HeldStoresAreUsable, NativesAreDeletedOnce, SlotsAreAsAsked, ReadsOfTheRequestAgree, PTL
=============================================================================
