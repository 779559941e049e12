---------------------------- MODULE BindingsProofs ----------------------------
(***************************************************************************)
(* What the adapters of bindings.c read and pass on, for lists of any      *)
(* length: the loads of every adapter are the layout of its answer, the    *)
(* area it has for the answer is of the size and alignment of that, and    *)
(* the arguments it passes are those the canonical ABI asks for.           *)
(*                                                                         *)
(* The argument: a layout suits a value if what the value has of it does   *)
(* not overlap and the tags tell what it has (Suits).  Scalars, lists,     *)
(* variants and records suit their values if their parts do (PartsSuit),   *)
(* so every type does (Stands); and where a layout suits a value, loads    *)
(* that are its rows find the value again (LiftedIsShown).  What is left   *)
(* is arithmetic with the offsets of 144 adapters, from shapes they share. *)
(***************************************************************************)
EXTENDS GcoreCalls, WasiCalls, BindingsTypes, SequenceTheorems, WellFoundedInduction, TLAPS

-----------------------------------------------------------------------------
(* Paths *)
Paths == Seq(Nat)

LEMMA Prefixed ==
    ASSUME NEW i \in Nat, NEW p \in Paths
    PROVE  /\ <<i>> \o p \in Paths
           /\ <<i>> \o p # <<>>
           /\ Head(<<i>> \o p) = i
           /\ Tail(<<i>> \o p) = p
           /\ Len(<<i>> \o p) = Len(p) + 1
           /\ \A k \in 1 .. Len(p) : (<<i>> \o p)[k + 1] = p[k]
           /\ (<<i>> \o p)[1] = i
BY DEF Paths

LEMMA Taken ==
    ASSUME NEW p \in Paths, p # <<>>
    PROVE  Head(p) \in Nat /\ Tail(p) \in Paths /\ p = <<Head(p)>> \o Tail(p)
BY DEF Paths

LEMMA PrefixesAgree ==
    ASSUME NEW i \in Nat, NEW j \in Nat, NEW p \in Paths, NEW q \in Paths
    PROVE  <<i>> \o p = <<j>> \o q <=> i = j /\ p = q
<1>1. Head(<<i>> \o p) = i /\ Tail(<<i>> \o p) = p
  BY Prefixed
<1>2. Head(<<j>> \o q) = j /\ Tail(<<j>> \o q) = q
  BY Prefixed
<1> QED
  BY <1>1, <1>2

LEMMA AbovePrefixed ==
    ASSUME NEW i \in Nat, NEW j \in Nat, NEW p \in Paths, NEW q \in Paths
    PROVE  Above(<<i>> \o p, <<j>> \o q) <=> i = j /\ Above(p, q)
<1>1. Len(p) \in Nat /\ Len(q) \in Nat
  BY LenProperties DEF Paths
<1>2. Len(<<i>> \o p) = Len(p) + 1 /\ Len(<<j>> \o q) = Len(q) + 1
  BY Prefixed
<1>3. ASSUME Above(<<i>> \o p, <<j>> \o q) PROVE i = j /\ Above(p, q)
  <2>1. 1 \in 1 .. Len(p) + 1
    BY <1>1
  <2>2. i = j
    BY <1>2, <1>3, <2>1, Prefixed DEF Above
  <2>3. ASSUME NEW k \in 1 .. Len(p) PROVE p[k] = q[k]
    <3>1. k + 1 \in 1 .. Len(p) + 1 /\ k \in 1 .. Len(q)
      BY <1>1, <1>2, <1>3 DEF Above
    <3>2. (<<i>> \o p)[k + 1] = (<<j>> \o q)[k + 1]
      BY <1>2, <1>3, <3>1 DEF Above
    <3> QED
      BY <3>1, <3>2, Prefixed
  <2> QED
    BY <1>1, <1>2, <1>3, <2>2, <2>3 DEF Above
<1>4. ASSUME i = j, Above(p, q) PROVE Above(<<i>> \o p, <<j>> \o q)
  <2>1. ASSUME NEW k \in 1 .. Len(p) + 1 PROVE (<<i>> \o p)[k] = (<<j>> \o q)[k]
    <3>1. CASE k = 1
      BY <1>4, <3>1, Prefixed
    <3>2. CASE k # 1
      <4>1. k - 1 \in 1 .. Len(p) /\ k - 1 \in 1 .. Len(q) /\ (k - 1) + 1 = k
        BY <1>1, <1>4, <3>2 DEF Above
      <4>2. p[k - 1] = q[k - 1]
        BY <1>4, <4>1 DEF Above
      <4> QED
        BY <4>1, <4>2, Prefixed
    <3> QED
      BY <3>1, <3>2
  <2> QED
    BY <1>1, <1>2, <1>4, <2>1 DEF Above
<1> QED
  BY <1>3, <1>4

LEMMA AboveAll ==
    ASSUME NEW p \in Paths
    PROVE  /\ Above(<<>>, p) <=> p # <<>>
           /\ ~Above(p, <<>>)
           /\ ~Above(p, p)
BY DEF Above, Paths

LEMMA StepBelow ==
    ASSUME NEW i \in Nat, NEW p \in Paths, NEW q \in Paths, Above(p, q)
    PROVE  (<<i>> \o q)[Len(<<i>> \o p) + 1] = q[Len(p) + 1]
<1>1. Len(p) + 1 \in 1 .. Len(q)
  BY LenProperties DEF Paths, Above
<1> QED
  BY <1>1, Prefixed

-----------------------------------------------------------------------------
(* Values *)

Kinds == {"scalar", "list", "case", "record", "ptr", "len", "tag"}
Parts == [kind : Kinds, n : Nat]
Values == UNION {[D -> Parts] : D \in {E \in SUBSET Paths : <<>> \in E}}

\* What w has of the values it is made of.
MadeOf(w, kind, n, I, parts) ==
    /\ w \in Values /\ <<>> \in DOMAIN w
    /\ w[<<>>] = [kind |-> kind, n |-> n]
    /\ \A i \in I : \A p \in Paths :
          /\ <<i>> \o p \in DOMAIN w <=> p \in DOMAIN parts[i]
          /\ p \in DOMAIN parts[i] => w[<<i>> \o p] = parts[i][p]
    /\ \A p \in DOMAIN w : p # <<>> => Head(p) \in I /\ Tail(p) \in DOMAIN parts[Head(p)]
    /\ \A i \in I : PartOf(w, i) = parts[i]

LEMMA WholeParts ==
    ASSUME NEW I \in SUBSET Nat, NEW parts \in [I -> Values], NEW kind \in Kinds, NEW n \in Nat
    PROVE  MadeOf(Whole(kind, n, parts), kind, n, I, parts)
<1> DEFINE w == Whole(kind, n, parts)
<1> DEFINE D == {<<>>} \cup UNION {{<<i>> \o q : q \in DOMAIN parts[i]} : i \in DOMAIN parts}
<1>1. \A i \in I : i \in Nat /\ parts[i] \in Values /\ DOMAIN parts[i] \in SUBSET Paths
          /\ <<>> \in DOMAIN parts[i]
  BY DEF Values
<1>2. DOMAIN parts = I
  OBVIOUS
<1>3. w = [p \in D |-> IF p = <<>> THEN [kind |-> kind, n |-> n] ELSE parts[Head(p)][Tail(p)]]
  BY DEF Whole
<1>4. ASSUME NEW i \in I, NEW p \in DOMAIN parts[i]
      PROVE  <<i>> \o p \in D /\ w[<<i>> \o p] = parts[i][p]
  <2>1. <<i>> \o p \in D
    BY <1>2
  <2>2. <<i>> \o p # <<>> /\ Head(<<i>> \o p) = i /\ Tail(<<i>> \o p) = p
    BY <1>1, Prefixed
  <2> QED
    BY <1>3, <2>1, <2>2
<1>5. ASSUME NEW p \in D, p # <<>>
      PROVE  Head(p) \in I /\ Tail(p) \in DOMAIN parts[Head(p)] /\ p = <<Head(p)>> \o Tail(p)
             /\ p \in Paths
  <2>1. PICK i \in I : \E q \in DOMAIN parts[i] : p = <<i>> \o q
    BY <1>2, <1>5
  <2>2. PICK q \in DOMAIN parts[i] : p = <<i>> \o q
    BY <2>1
  <2> QED
    BY <1>1, <2>2, Prefixed
<1>6. ASSUME NEW i \in I, NEW p \in Paths, <<i>> \o p \in D PROVE p \in DOMAIN parts[i]
  <2>1. <<i>> \o p # <<>> /\ Head(<<i>> \o p) = i /\ Tail(<<i>> \o p) = p
    BY <1>1, Prefixed
  <2> QED
    BY <1>5, <1>6, <2>1
<1>7. DOMAIN w = D
  BY <1>3
<1>8. w \in Values
  <2>1. D \in SUBSET Paths /\ <<>> \in D
    BY <1>5, EmptySeq DEF Paths
  <2>2. ASSUME NEW p \in D PROVE w[p] \in Parts
    <3>1. CASE p = <<>>
      BY <1>3, <3>1 DEF Parts
    <3>2. CASE p # <<>>
      <4>1. w[p] = parts[Head(p)][Tail(p)] /\ Head(p) \in I /\ Tail(p) \in DOMAIN parts[Head(p)]
        BY <1>3, <1>5, <3>2
      <4>2. parts[Head(p)] \in [DOMAIN parts[Head(p)] -> Parts]
        BY <4>1 DEF Values
      <4> QED
        BY <4>1, <4>2
    <3> QED
      BY <3>1, <3>2
  <2>3. w \in [D -> Parts]
    BY <1>3, <2>2
  <2> QED
    BY <2>1, <2>3 DEF Values
<1>9. w[<<>>] = [kind |-> kind, n |-> n]
  BY <1>3
<1>10. ASSUME NEW i \in I PROVE PartOf(w, i) = parts[i]
  <2> DEFINE E == {Tail(q) : q \in {r \in DOMAIN w : r # <<>> /\ Head(r) = i}}
  <2>1. ASSUME NEW p \in E PROVE p \in DOMAIN parts[i]
    BY <1>5, <1>7
  <2>2. ASSUME NEW p \in DOMAIN parts[i] PROVE p \in E
    <3>1. <<i>> \o p \in DOMAIN w
      BY <1>4, <1>7
    <3>2. <<i>> \o p # <<>> /\ Head(<<i>> \o p) = i /\ Tail(<<i>> \o p) = p
      BY <1>1, Prefixed
    <3> QED
      BY <3>1, <3>2
  <2>3. E = DOMAIN parts[i]
    BY <2>1, <2>2
  <2>4. PartOf(w, i) = [p \in DOMAIN parts[i] |-> w[<<i>> \o p]]
    BY <2>3 DEF PartOf
  <2>5. PartOf(w, i) = [p \in DOMAIN parts[i] |-> parts[i][p]]
    BY <1>4, <2>4
  <2>6. parts[i] = [p \in DOMAIN parts[i] |-> parts[i][p]]
    BY <1>1 DEF Values
  <2> QED
    BY <2>5, <2>6
<1>11. \A i \in I : \A p \in Paths :
          /\ <<i>> \o p \in DOMAIN w <=> p \in DOMAIN parts[i]
          /\ p \in DOMAIN parts[i] => w[<<i>> \o p] = parts[i][p]
  BY <1>4, <1>6, <1>7
<1>12. \A p \in DOMAIN w : p # <<>> => Head(p) \in I /\ Tail(p) \in DOMAIN parts[Head(p)]
  BY <1>5, <1>7
<1> QED
  BY <1>7, <1>8, <1>9, <1>10, <1>11, <1>12 DEF MadeOf

-----------------------------------------------------------------------------
(* Layouts *)

Rows == [path : Paths, kind : Kinds, off : Nat, size : Nat \ {0}, cases : Nat]

\* Tag s is above row r; and it selects, in v, the case that r is in.
TagAbove(s, r) == s.kind = "tag" /\ Above(s.path, r.path)
Selects(s, r, v) == r.path[Len(s.path) + 1] = v[s.path].n + 1

\* A layout suits a value: what it has of it does not overlap, and the tags
\* tell, from above, what it has of it.
Suits(rows, v) ==
    /\ \A r, s \in Present(rows, v) : r = s \/ r.off + r.size <= s.off \/ s.off + s.size <= r.off
    /\ \A r \in rows : \A s \in rows :
          TagAbove(s, r) /\ r.path \in DOMAIN v => s.path \in DOMAIN v /\ Selects(s, r, v)
    /\ \A r \in rows : r.path \notin DOMAIN v =>
          \E s \in rows : TagAbove(s, r) /\ s.path \in DOMAIN v /\ ~Selects(s, r, v)
    /\ \A r \in Present(rows, v) : r.kind = "tag" => v[r.path].n < r.cases

Fits(rows, size) == rows \in SUBSET Rows /\ \A r \in rows : r.off + r.size <= size

\* Row r of the part i that stands at an offset.
Placed(i, at, r) == Row(<<i>> \o r.path, r.kind, r.off + at, r.size, r.cases)

Part(i, at, rows) == {Placed(i, at, r) : r \in rows}

\* Rows of parts, each part at its own offset, and others.
Composite(T, I, at, rows) == T \cup UNION {Part(i, at[i], rows[i]) : i \in I}

LEMMA RowsBelow ==
    ASSUME NEW rows \in SUBSET Rows, NEW i \in Nat, NEW at \in Nat
    PROVE  /\ Under(<<i>>, Moved(at, rows)) = Part(i, at, rows)
           /\ Moved(at, Under(<<i>>, rows)) = Part(i, at, rows)
           /\ Part(i, at, rows) \in SUBSET Rows
<1>1. ASSUME NEW r \in rows
      PROVE  /\ Placed(i, at, r) \in Rows
             /\ LET q == Row(r.path, r.kind, r.off + at, r.size, r.cases)
                IN Row(<<i>> \o q.path, q.kind, q.off, q.size, q.cases) = Placed(i, at, r)
             /\ LET q == Row(<<i>> \o r.path, r.kind, r.off, r.size, r.cases)
                IN Row(q.path, q.kind, q.off + at, q.size, q.cases) = Placed(i, at, r)
  <2>1. r \in Rows
    OBVIOUS
  <2>2. r.path \in Paths /\ r.kind \in Kinds /\ r.off \in Nat /\ r.size \in Nat \ {0}
            /\ r.cases \in Nat
    BY <2>1 DEF Rows
  <2>3. <<i>> \o r.path \in Paths /\ r.off + at \in Nat
    BY <2>2, Prefixed
  <2>4. Placed(i, at, r) \in Rows
    BY <2>2, <2>3 DEF Placed, Row, Rows
  <2> QED
    BY <2>4 DEF Placed, Row
<1> QED
  BY <1>1 DEF Under, Moved, Part

\* A layout made of the layouts of parts, each at its own offset, and a tag
\* or none suits a value made of values of parts: of all, side by side; or
\* of the one that the tag selects.
LEMMA Apart ==
    ASSUME NEW a \in Nat, NEW b \in Nat, NEW m \in Nat, NEW x \in Nat, NEW y \in Nat, NEW z \in Nat,
           x + y <= m, a + m <= b
    PROVE  (x + a) + y <= z + b
OBVIOUS

Assembles(I, at, sizes, rows, T, cases, J, n, vs) ==
    /\ I \in SUBSET Nat /\ at \in [I -> Nat] /\ sizes \in [I -> Nat]
       /\ \A i \in I : Fits(rows[i], sizes[i])
    /\ cases \in Nat /\ T \in SUBSET {Row(<<>>, "tag", 0, 1, cases)} /\ n \in Nat
    /\ J \in SUBSET I /\ vs \in [J -> Values] /\ \A i \in J : Suits(rows[i], vs[i])
    /\ \/ /\ T = {} /\ J = I
          /\ \A i, j \in I : i # j => at[i] + sizes[i] <= at[j] \/ at[j] + sizes[j] <= at[i]
       \/ T # {} /\ J = {n + 1} /\ n < cases /\ \A i \in I : at[i] >= 1

LEMMA PartsSuit ==
    ASSUME NEW I, NEW at, NEW sizes, NEW rows, NEW T, NEW cases, NEW J, NEW n, NEW vs,
           Assembles(I, at, sizes, rows, T, cases, J, n, vs), NEW kind \in Kinds,
           NEW w, w = Whole(kind, n, vs)
    PROVE  Suits(Composite(T, I, at, rows), w)
<1>19. /\ I \in SUBSET Nat /\ at \in [I -> Nat] /\ sizes \in [I -> Nat]
           /\ \A i \in I : Fits(rows[i], sizes[i])
       /\ cases \in Nat /\ T \in SUBSET {Row(<<>>, "tag", 0, 1, cases)} /\ n \in Nat
       /\ J \in SUBSET I /\ vs \in [J -> Values] /\ \A i \in J : Suits(rows[i], vs[i])
       /\ \/ /\ T = {} /\ J = I
             /\ \A i, j \in I : i # j => at[i] + sizes[i] <= at[j] \/ at[j] + sizes[j] <= at[i]
          \/ T # {} /\ J = {n + 1} /\ n < cases /\ \A i \in I : at[i] >= 1
  BY DEF Assembles
<1> USE <1>19
<1> DEFINE all == Composite(T, I, at, rows)
           tag == Row(<<>>, "tag", 0, 1, cases)
<1>1. /\ w \in Values /\ w[<<>>].n = n /\ <<>> \in DOMAIN w
      /\ \A i \in J : \A p \in Paths :
            /\ <<i>> \o p \in DOMAIN w <=> p \in DOMAIN vs[i]
            /\ p \in DOMAIN vs[i] => w[<<i>> \o p] = vs[i][p]
      /\ \A p \in DOMAIN w : p # <<>> => Head(p) \in J
  <2>1. J \in SUBSET Nat /\ vs \in [J -> Values]
    OBVIOUS
  <2>2. MadeOf(w, kind, n, J, vs)
    BY <2>1, WholeParts
  <2> QED
    BY <2>2 DEF MadeOf
<1>18. \A i, j \in J : i # j => at[i] + sizes[i] <= at[j] \/ at[j] + sizes[j] <= at[i]
  <2>1. CASE T = {} /\ J = I
    BY <2>1
  <2>2. CASE J = {n + 1}
    BY <2>2
  <2> QED
    BY <2>1, <2>2
<1>2. \A i \in I : \A r \in rows[i] : r \in Rows /\ r.path \in Paths /\ r.off + r.size <= sizes[i]
  BY DEF Fits, Rows
<1>3. \A i \in I : i \in Nat /\ at[i] \in Nat /\ sizes[i] \in Nat
  OBVIOUS
<1>4. ASSUME NEW i \in I, NEW r \in rows[i]
      PROVE  /\ Placed(i, at[i], r).path = <<i>> \o r.path
             /\ Placed(i, at[i], r).kind = r.kind
             /\ Placed(i, at[i], r).off = r.off + at[i]
             /\ Placed(i, at[i], r).size = r.size
             /\ Placed(i, at[i], r).cases = r.cases
             /\ Placed(i, at[i], r).path # <<>>
             /\ Placed(i, at[i], r).path \in DOMAIN w <=> i \in J /\ r.path \in DOMAIN vs[i]
             /\ i \in J /\ r.path \in DOMAIN vs[i] =>
                    w[Placed(i, at[i], r).path] = vs[i][r.path]
  <2>1. i \in Nat /\ r.path \in Paths
    BY <1>2, <1>3
  <2>2. Placed(i, at[i], r).path = <<i>> \o r.path
    BY DEF Placed, Row
  <2>3. <<i>> \o r.path # <<>> /\ Head(<<i>> \o r.path) = i
    BY <2>1, Prefixed
  <2>4. <<i>> \o r.path \in DOMAIN w <=> i \in J /\ r.path \in DOMAIN vs[i]
    BY <1>1, <2>1, <2>3
  <2> QED
    BY <1>1, <2>1, <2>2, <2>3, <2>4 DEF Placed, Row
<1>5. \A r \in all : r \in T \/ \E i \in I : \E q \in rows[i] : r = Placed(i, at[i], q)
  BY DEF Composite, Part
<1>6. \A i \in I : \A q \in rows[i] : Placed(i, at[i], q) \in all
  BY DEF Composite, Part
<1>7. \A r \in T : r = tag /\ r.path = <<>> /\ r.kind = "tag" /\ r.off = 0 /\ r.size = 1
          /\ r.cases = cases
  BY DEF Row
<1>8. \A i \in I, j \in I : \A r \in rows[i] : \A s \in rows[j] :
          TagAbove(Placed(j, at[j], s), Placed(i, at[i], r)) <=> i = j /\ TagAbove(s, r)
  <2> SUFFICES ASSUME NEW i \in I, NEW j \in I, NEW r \in rows[i], NEW s \in rows[j]
               PROVE  TagAbove(Placed(j, at[j], s), Placed(i, at[i], r)) <=> i = j /\ TagAbove(s, r)
    OBVIOUS
  <2>1. i \in Nat /\ j \in Nat /\ r.path \in Paths /\ s.path \in Paths
    BY <1>2, <1>3
  <2>2. Above(<<j>> \o s.path, <<i>> \o r.path) <=> j = i /\ Above(s.path, r.path)
    BY <2>1, AbovePrefixed
  <2>3. Placed(i, at[i], r).path = <<i>> \o r.path
    BY <1>4
  <2>4. Placed(j, at[j], s).path = <<j>> \o s.path /\ Placed(j, at[j], s).kind = s.kind
    BY <1>4
  <2> QED
    BY <2>2, <2>3, <2>4 DEF TagAbove
<1>9. \A i \in J : \A r, s \in rows[i] :
          TagAbove(s, r) /\ s.path \in DOMAIN vs[i] =>
              (Selects(Placed(i, at[i], s), Placed(i, at[i], r), w) <=> Selects(s, r, vs[i]))
  <2> SUFFICES ASSUME NEW i \in J, NEW r \in rows[i], NEW s \in rows[i],
                      TagAbove(s, r), s.path \in DOMAIN vs[i]
               PROVE  Selects(Placed(i, at[i], s), Placed(i, at[i], r), w) <=> Selects(s, r, vs[i])
    OBVIOUS
  <2>1. i \in I /\ i \in Nat /\ r.path \in Paths /\ s.path \in Paths /\ Above(s.path, r.path)
    BY <1>2, <1>3 DEF TagAbove
  <2>2. (<<i>> \o r.path)[Len(<<i>> \o s.path) + 1] = r.path[Len(s.path) + 1]
    BY <2>1, StepBelow
  <2> QED
    BY <1>4, <2>1, <2>2 DEF Selects
<1>11. \A i \in I : \A r \in rows[i] :
          /\ TagAbove(tag, Placed(i, at[i], r))
          /\ ~TagAbove(Placed(i, at[i], r), tag)
          /\ Selects(tag, Placed(i, at[i], r), w) <=> i = n + 1
  <2> SUFFICES ASSUME NEW i \in I, NEW r \in rows[i]
               PROVE  /\ TagAbove(tag, Placed(i, at[i], r))
                      /\ ~TagAbove(Placed(i, at[i], r), tag)
                      /\ Selects(tag, Placed(i, at[i], r), w) <=> i = n + 1
    OBVIOUS
  <2>1. tag.path = <<>> /\ tag.kind = "tag"
    BY DEF Row
  <2>2. (<<i>> \o r.path)[1] = i /\ <<i>> \o r.path \in Paths /\ <<i>> \o r.path # <<>>
    BY <1>2, <1>3, Prefixed
  <2>3. Placed(i, at[i], r).path = <<i>> \o r.path
    BY <1>4
  <2>4. Above(<<>>, <<i>> \o r.path) /\ ~Above(<<i>> \o r.path, <<>>)
    BY <2>2, AboveAll
  <2>5. Len(tag.path) + 1 = 1
    BY <2>1, EmptySeq
  <2>6. w[tag.path].n = n
    BY <1>1, <2>1
  <2> HIDE DEF tag
  <2>7. Selects(tag, Placed(i, at[i], r), w) <=> i = n + 1
    BY <2>2, <2>3, <2>5, <2>6 DEF Selects
  <2> QED
    BY <2>1, <2>3, <2>4, <2>7 DEF TagAbove
<1>12. \A r, s \in T : ~TagAbove(s, r)
  BY <1>7, AboveAll, EmptySeq DEF TagAbove, Paths
<1> HIDE DEF all, tag
<1>13. ASSUME NEW r \in Present(all, w), NEW s \in Present(all, w)
       PROVE  r = s \/ r.off + r.size <= s.off \/ s.off + s.size <= r.off
  <2>1. r \in all /\ s \in all /\ r.path \in DOMAIN w /\ s.path \in DOMAIN w
    BY DEF Present
  <2>2. CASE r \in T /\ s \in T
    BY <1>7, <2>2
  <2>3. ASSUME r \in T, NEW i \in I, NEW q \in rows[i], s = Placed(i, at[i], q)
        PROVE  r.off + r.size <= s.off
    <3>1. q.off \in Nat /\ at[i] \in Nat /\ at[i] >= 1
      BY <1>2, <1>3, <2>3 DEF Rows
    <3>2. s.off = q.off + at[i]
      BY <1>4, <2>3
    <3>3. r.off = 0 /\ r.size = 1
      BY <1>7, <2>3
    <3> QED
      BY <3>1, <3>2, <3>3
  <2>4. ASSUME s \in T, NEW i \in I, NEW q \in rows[i], r = Placed(i, at[i], q)
        PROVE  s.off + s.size <= r.off
    <3>1. q.off \in Nat /\ at[i] \in Nat /\ at[i] >= 1
      BY <1>2, <1>3, <2>4 DEF Rows
    <3>2. r.off = q.off + at[i]
      BY <1>4, <2>4
    <3>3. s.off = 0 /\ s.size = 1
      BY <1>7, <2>4
    <3> QED
      BY <3>1, <3>2, <3>3
  <2>5. ASSUME NEW i \in I, NEW q \in rows[i], r = Placed(i, at[i], q),
               NEW j \in I, NEW t \in rows[j], s = Placed(j, at[j], t)
        PROVE  r = s \/ r.off + r.size <= s.off \/ s.off + s.size <= r.off
    <3>1. i \in J /\ q.path \in DOMAIN vs[i] /\ j \in J /\ t.path \in DOMAIN vs[j]
      BY <1>4, <2>1, <2>5
    <3>2. /\ q.off \in Nat /\ q.size \in Nat /\ q.off + q.size <= sizes[i] /\ at[i] \in Nat
          /\ t.off \in Nat /\ t.size \in Nat /\ t.off + t.size <= sizes[j] /\ at[j] \in Nat
          /\ sizes[i] \in Nat /\ sizes[j] \in Nat
      BY <1>2, <1>3 DEF Rows
    <3>5. r.off = q.off + at[i] /\ r.size = q.size /\ s.off = t.off + at[j] /\ s.size = t.size
      BY <1>4, <2>5
    <3>3. CASE i = j
      <4>1. q \in Present(rows[i], vs[i]) /\ t \in Present(rows[i], vs[i])
        BY <3>1, <3>3 DEF Present
      <4>2. q = t \/ q.off + q.size <= t.off \/ t.off + t.size <= q.off
        BY <3>1, <4>1 DEF Suits
      <4>3. q = t => r = s
        BY <2>5, <3>3
      <4>4. ASSUME q.off + q.size <= t.off PROVE r.off + r.size <= s.off
        BY <3>2, <3>3, <3>5, <4>4
      <4>5. ASSUME t.off + t.size <= q.off PROVE s.off + s.size <= r.off
        BY <3>2, <3>3, <3>5, <4>5
      <4> QED
        BY <4>2, <4>3, <4>4, <4>5
    <3>4. CASE i # j
      <4>1. at[i] + sizes[i] <= at[j] \/ at[j] + sizes[j] <= at[i]
        BY <1>18, <3>1, <3>4
      <4>2. CASE at[i] + sizes[i] <= at[j]
        <5>1. (q.off + at[i]) + q.size <= t.off + at[j]
          BY <3>2, <4>2, Apart
        <5> QED
          BY <3>5, <5>1
      <4>3. CASE at[j] + sizes[j] <= at[i]
        <5>1. (t.off + at[j]) + t.size <= q.off + at[i]
          BY <3>2, <4>3, Apart
        <5> QED
          BY <3>5, <5>1
      <4> QED
        BY <4>1, <4>2, <4>3
    <3> QED
      BY <3>3, <3>4
  <2> QED
    BY <1>5, <2>1, <2>2, <2>3, <2>4, <2>5
<1>14. ASSUME NEW r \in all, NEW s \in all, TagAbove(s, r), r.path \in DOMAIN w
       PROVE  s.path \in DOMAIN w /\ Selects(s, r, w)
  <2>1. CASE r \in T
    BY <1>5, <1>7, <1>11, <1>12, <1>14, <2>1
  <2>2. ASSUME NEW i \in I, NEW q \in rows[i], r = Placed(i, at[i], q), s \in T
        PROVE  s.path \in DOMAIN w /\ Selects(s, r, w)
    BY <1>1, <1>4, <1>7, <1>11, <1>14, <2>2
  <2>3. ASSUME NEW i \in I, NEW q \in rows[i], r = Placed(i, at[i], q),
               NEW j \in I, NEW t \in rows[j], s = Placed(j, at[j], t)
        PROVE  s.path \in DOMAIN w /\ Selects(s, r, w)
    <3>1. i = j /\ TagAbove(t, q) /\ i \in J /\ q.path \in DOMAIN vs[i]
      BY <1>4, <1>8, <1>14, <2>3
    <3>2. t.path \in DOMAIN vs[i] /\ Selects(t, q, vs[i])
      BY <3>1, <2>3 DEF Suits
    <3> QED
      BY <1>4, <1>9, <2>3, <3>1, <3>2
  <2> QED
    BY <1>5, <2>1, <2>2, <2>3
<1>15. ASSUME NEW r \in all, r.path \notin DOMAIN w
       PROVE  \E s \in all : TagAbove(s, r) /\ s.path \in DOMAIN w /\ ~Selects(s, r, w)
  <2>1. r \notin T
    BY <1>1, <1>7, <1>15
  <2>2. PICK i \in I : \E q \in rows[i] : r = Placed(i, at[i], q)
    BY <1>5, <2>1
  <2>3. PICK q \in rows[i] : r = Placed(i, at[i], q)
    BY <2>2
  <2>4. CASE i \in J
    <3>1. q.path \notin DOMAIN vs[i]
      BY <1>4, <1>15, <2>3, <2>4
    <3>2. PICK t \in rows[i] : TagAbove(t, q) /\ t.path \in DOMAIN vs[i] /\ ~Selects(t, q, vs[i])
      BY <2>4, <3>1 DEF Suits
    <3>3. Placed(i, at[i], t) \in all /\ TagAbove(Placed(i, at[i], t), r)
      BY <1>6, <1>8, <2>3, <3>2
    <3> QED
      BY <1>4, <1>9, <2>3, <2>4, <3>2, <3>3
  <2>5. CASE i \notin J
    <3>1. tag \in T /\ i # n + 1
      BY <2>5 DEF tag
    <3>2. tag \in all
      BY <3>1 DEF all, Composite
    <3> QED
      BY <1>1, <1>7, <1>11, <2>3, <3>1, <3>2
  <2> QED
    BY <2>4, <2>5
<1>16. ASSUME NEW r \in Present(all, w), r.kind = "tag" PROVE w[r.path].n < r.cases
  <2>1. r \in all /\ r.path \in DOMAIN w
    BY DEF Present
  <2>2. CASE r \in T
    BY <1>1, <1>7, <2>2
  <2>3. ASSUME NEW i \in I, NEW q \in rows[i], r = Placed(i, at[i], q) PROVE w[r.path].n < r.cases
    <3>1. i \in J /\ q.path \in DOMAIN vs[i] /\ q.kind = "tag"
      BY <1>4, <1>16, <2>1, <2>3
    <3>2. q \in Present(rows[i], vs[i])
      BY <3>1 DEF Present
    <3>3. vs[i][q.path].n < q.cases
      BY <3>1, <3>2 DEF Suits
    <3> QED
      BY <1>4, <2>3, <3>1, <3>3
  <2> QED
    BY <1>5, <2>1, <2>2, <2>3
<1>17. Suits(all, w)
  BY <1>13, <1>14, <1>15, <1>16 DEF Suits
<1> QED
  BY <1>17 DEF all

-----------------------------------------------------------------------------
(* Numbers, and what a type is.                                           *)

LEMMA LeastNumber ==
    ASSUME NEW T \in SUBSET Nat, T # {}
    PROVE  \E m \in T : \A n \in T : m <= n
<1>1. \E m \in T : \A n \in T : ~(<<n, m>> \in OpToRel(<, Nat))
  BY NatLessThanWellFounded, WFMin
<1>2. PICK m \in T : \A n \in T : ~(<<n, m>> \in OpToRel(<, Nat))
  BY <1>1
<1>3. ASSUME NEW n \in T PROVE m <= n
  <2>1. ~(<<n, m>> \in OpToRel(<, Nat))
    BY <1>2
  <2>2. m \in Nat /\ n \in Nat
    OBVIOUS
  <2>3. CASE n < m
    <3>1. <<n, m>> \in OpToRel(<, Nat)
      BY <2>2, <2>3 DEF OpToRel
    <3> QED
      BY <2>1, <3>1
  <2> QED
    BY <2>2, <2>3
<1> QED
  BY <1>3

LEMMA NumbersByInduction ==
    ASSUME NEW T \in SUBSET Nat, 0 \in T, \A n \in T : n + 1 \in T
    PROVE  T = Nat
<1>1. SUFFICES ASSUME Nat \ T # {} PROVE FALSE
  OBVIOUS
<1>2. PICK m \in Nat \ T : \A n \in Nat \ T : m <= n
  BY <1>1, LeastNumber
<1>3. m - 1 \in Nat /\ m - 1 \notin Nat \ T
  BY <1>2
<1> QED
  BY <1>2, <1>3

-----------------------------------------------------------------------------
(* Types *)

\* The alignments of the canonical ABI.
Aligns == {1, 2, 4, 8}

LEMMA AlignedUp ==
    ASSUME NEW n \in Nat, NEW a \in Aligns
    PROVE  Aligned(n, a) \in Nat /\ Aligned(n, a) >= n
BY DEF Aligned, Aligns

LEMMA AlignedOne ==
    ASSUME NEW a \in Aligns
    PROVE  Aligned(1, a) = a
BY DEF Aligned, Aligns

LEMMA HighestIs ==
    ASSUME NEW S \in SUBSET Nat, NEW m \in S, \A n \in S : n <= m
    PROVE  Highest(S) = m
<1>1. \A k \in S : (\A n \in S : n <= k) => k = m
  OBVIOUS
<1> QED
  BY <1>1 DEF Highest

\* A type stands where it is stored: its layout has the place it says, and
\* suits each of its values.
Stands(t) ==
    /\ t.stored.size \in Nat /\ t.stored.align \in Aligns
    /\ Fits(t.stored.rows, t.stored.size)
    /\ t.values \in SUBSET Values
    /\ \A v \in t.values : Suits(t.stored.rows, v)
Spans(t, size, align) == Stands(t) /\ t.stored.size = size /\ t.stored.align = align

\* What a load of a value of the type at an offset has to be.
Reads(load, o, t) == load = Moved(o, t.stored.rows)

LEMMA MovedRows ==
    ASSUME NEW rows \in SUBSET Rows
    PROVE  Moved(0, rows) = rows
<1>1. ASSUME NEW r \in rows PROVE Row(r.path, r.kind, r.off + 0, r.size, r.cases) = r
  <2>1. r \in Rows
    OBVIOUS
  <2> QED
    BY <2>1 DEF Row, Rows
<1> QED
  BY <1>1 DEF Moved

LEMMA PlacedMoved ==
    ASSUME NEW rows \in SUBSET Rows, NEW i \in Nat, NEW at \in Nat, NEW o \in Nat
    PROVE  Moved(o, Part(i, at, rows)) = Part(i, at + o, rows)
<1>1. ASSUME NEW r \in rows
      PROVE  LET q == Placed(i, at, r)
             IN Row(q.path, q.kind, q.off + o, q.size, q.cases) = Placed(i, at + o, r)
  <2>1. r \in Rows
    OBVIOUS
  <2>2. r.off \in Nat
    BY <2>1 DEF Rows
  <2>3. (r.off + at) + o = r.off + (at + o)
    BY <2>2
  <2> QED
    BY <2>3 DEF Placed, Row
<1> QED
  BY <1>1 DEF Moved, Part

LEMMA CompositeMoved ==
    ASSUME NEW I \in SUBSET Nat, NEW at \in [I -> Nat], NEW rows,
           \A i \in I : rows[i] \in SUBSET Rows,
           NEW T, NEW o \in Nat
    PROVE  Moved(o, Composite(T, I, at, rows))
           = Composite(Moved(o, T), I, [i \in I |-> at[i] + o], rows)
<1>1. ASSUME NEW i \in I PROVE Moved(o, Part(i, at[i], rows[i])) = Part(i, at[i] + o, rows[i])
  <2>1. i \in Nat /\ rows[i] \in SUBSET Rows /\ at[i] \in Nat
    OBVIOUS
  <2> QED
    BY <2>1, PlacedMoved
<1>2. Moved(o, Composite(T, I, at, rows)) =
          Moved(o, T) \cup UNION {Moved(o, Part(i, at[i], rows[i])) : i \in I}
  BY DEF Moved, Composite
<1> QED
  BY <1>1, <1>2 DEF Composite

LEMMA CompositeFits ==
    ASSUME NEW I \in SUBSET Nat, NEW rows, NEW at \in [I -> Nat], NEW sizes \in [I -> Nat],
           \A i \in I : Fits(rows[i], sizes[i]),
           NEW T, NEW size \in Nat, Fits(T, size), \A i \in I : at[i] + sizes[i] <= size
    PROVE  Fits(Composite(T, I, at, rows), size)
<1>1. ASSUME NEW i \in I, NEW r \in rows[i]
      PROVE  Placed(i, at[i], r) \in Rows
             /\ Placed(i, at[i], r).off + Placed(i, at[i], r).size <= size
  <2>1. r \in Rows /\ rows[i] \in SUBSET Rows /\ i \in Nat /\ at[i] \in Nat /\ sizes[i] \in Nat
    BY DEF Fits
  <2>2. r.off \in Nat /\ r.size \in Nat /\ r.off + r.size <= sizes[i]
    BY <2>1 DEF Fits, Rows
  <2>5. Part(i, at[i], rows[i]) \in SUBSET Rows
    BY <2>1, RowsBelow
  <2>3. Placed(i, at[i], r) \in Rows
    BY <2>5 DEF Part
  <2>4. Placed(i, at[i], r).off = r.off + at[i] /\ Placed(i, at[i], r).size = r.size
    BY DEF Placed, Row
  <2>6. (r.off + at[i]) + r.size <= size
    BY <2>1, <2>2
  <2> QED
    BY <2>3, <2>4, <2>6
<1> QED
  BY <1>1 DEF Composite, Fits, Part

-----------------------------------------------------------------------------
(* Scalars and lists.                                                     *)

LEMMA ValuesRoot ==
    ASSUME NEW v \in Values
    PROVE  <<>> \in DOMAIN v
BY DEF Values

LEMMA RowFields ==
    ASSUME NEW path \in Paths, NEW kind \in Kinds, NEW off \in Nat, NEW size \in Nat \ {0},
           NEW cases \in Nat
    PROVE  /\ Row(path, kind, off, size, cases) \in Rows
           /\ Row(path, kind, off, size, cases).path = path
           /\ Row(path, kind, off, size, cases).kind = kind
           /\ Row(path, kind, off, size, cases).off = off
           /\ Row(path, kind, off, size, cases).size = size
           /\ Row(path, kind, off, size, cases).cases = cases
BY DEF Row, Rows

LEMMA RootPath == <<>> \in Paths
BY EmptySeq DEF Paths

\* Where all there is stands at the top, and no tag.
LEMMA FlatSuits ==
    ASSUME NEW rows, NEW v \in Values,
           \A r \in rows : r.path = <<>> /\ r.kind # "tag",
           \A r, s \in rows : r = s \/ r.off + r.size <= s.off \/ s.off + s.size <= r.off
    PROVE  Suits(rows, v)
<1>1. \A r \in rows : r.path \in DOMAIN v
  BY ValuesRoot
<1>2. Present(rows, v) = rows
  BY <1>1 DEF Present
<1>3. \A r, s \in rows : ~TagAbove(s, r)
  BY DEF TagAbove
<1> QED
  BY <1>1, <1>2, <1>3 DEF Suits

LEMMA NothingIn ==
    ASSUME NEW kind \in Kinds, NEW n \in Nat
    PROVE  Whole(kind, n, <<>>) \in Values
<1>1. {} \in SUBSET Nat /\ <<>> \in [{} -> Values]
  OBVIOUS
<1>2. MadeOf(Whole(kind, n, <<>>), kind, n, {}, <<>>)
  BY <1>1, WholeParts
<1> QED
  BY <1>2 DEF MadeOf

LEMMA ScalarSpans ==
    ASSUME NEW size \in Aligns
    PROVE  Spans(Scalar(size), size, size)
<1> DEFINE r == Row(<<>>, "scalar", 0, size, 0)
<1>1. /\ Scalar(size).stored.rows = {r} /\ Scalar(size).stored.size = size
      /\ Scalar(size).stored.align = size /\ Scalar(size).values = {Whole("scalar", 0, <<>>)}
  BY DEF Scalar, Type, ScalarLayout, Layout
<1>6. size \in Nat \ {0} /\ 0 \in Nat /\ "scalar" \in Kinds
  BY DEF Aligns, Kinds
<1>2. /\ r \in Rows /\ r.path = <<>> /\ r.kind = "scalar" /\ r.off = 0 /\ r.size = size
      /\ size \in Nat
  BY <1>6, RootPath, RowFields
<1>3. Whole("scalar", 0, <<>>) \in Values
  BY <1>6, NothingIn
<1> HIDE DEF r
<1>4. Suits({r}, Whole("scalar", 0, <<>>))
  BY <1>2, <1>3, FlatSuits
<1>5. Fits({r}, size)
  BY <1>2 DEF Fits
<1> QED
  BY <1>1, <1>2, <1>3, <1>4, <1>5 DEF Spans, Stands

LEMMA ListSpans ==
    ASSUME NEW t, t.values \in SUBSET Values, WitAbiAssumption
    PROVE  Spans(List(t), 8, 4)
<1> DEFINE p == Row(<<>>, "ptr", 0, 4, 0)
           l == Row(<<>>, "len", 4, 4, 0)
           values == UNION {{Whole("list", n, es) : es \in [1 .. n -> t.values]} : n \in 0 .. MaxLen}
<1>1. /\ List(t).stored.rows = {p, l} /\ List(t).stored.size = 8
      /\ List(t).stored.align = 4 /\ List(t).values = values
  BY DEF List, Type, ListLayout, Layout
<1>6. /\ 0 \in Nat /\ 4 \in Nat /\ 4 \in Nat \ {0}
      /\ "list" \in Kinds /\ "ptr" \in Kinds /\ "len" \in Kinds
  BY DEF Kinds
<1>2. /\ p \in Rows /\ p.path = <<>> /\ p.kind = "ptr" /\ p.off = 0 /\ p.size = 4
      /\ l \in Rows /\ l.path = <<>> /\ l.kind = "len" /\ l.off = 4 /\ l.size = 4
  BY <1>6, RootPath, RowFields
<1>3. ASSUME NEW v \in values PROVE v \in Values
  <2>1. PICK n \in 0 .. MaxLen : \E es \in [1 .. n -> t.values] : v = Whole("list", n, es)
    OBVIOUS
  <2>2. PICK es \in [1 .. n -> t.values] : v = Whole("list", n, es)
    BY <2>1
  <2>3. n \in Nat /\ 1 .. n \in SUBSET Nat /\ es \in [1 .. n -> Values]
    BY DEF WitAbiAssumption
  <2>4. MadeOf(v, "list", n, 1 .. n, es)
    BY <1>6, <2>2, <2>3, WholeParts
  <2> QED
    BY <2>4 DEF MadeOf
<1> HIDE DEF p, l, values
<1>4. ASSUME NEW v \in values PROVE Suits({p, l}, v)
  BY <1>2, <1>3, FlatSuits
<1>5. Fits({p, l}, 8)
  BY <1>2 DEF Fits
<1> QED
  BY <1>1, <1>3, <1>4, <1>5 DEF Spans, Stands, Aligns

-----------------------------------------------------------------------------
(* Variants: the tag, and at one offset behind it what the case holds.    *)

Tuple(s, N) == s = [i \in 1 .. N |-> s[i]]

LEMMA LenOf ==
    ASSUME NEW f, NEW N \in Nat, Tuple(f, N)
    PROVE  Len(f) = N
<1>1. f \in [1 .. N -> {f[i] : i \in 1 .. N}]
  BY DEF Tuple
<1>2. f \in Seq({f[i] : i \in 1 .. N})
  BY <1>1
<1> QED
  BY <1>1, <1>2

\* A variant with cases of sizes up to size and alignments up to align.
Spacious(cases, size, align) ==
    /\ \A i \in DOMAIN cases : cases[i].stored.size <= size /\ cases[i].stored.align <= align
    /\ size = 0 \/ \E i \in DOMAIN cases : cases[i].stored.size = size
    /\ align = 1 \/ \E i \in DOMAIN cases : cases[i].stored.align = align

VariantIs(cases, N, size, align) ==
    /\ Variant(cases).stored.size = Aligned(align + size, align)
    /\ Variant(cases).stored.align = align
    /\ Variant(cases).stored.rows =
           Composite({Row(<<>>, "tag", 0, 1, N)}, 1 .. N,
                     [i \in 1 .. N |-> align], [i \in 1 .. N |-> cases[i].stored.rows])

LEMMA VariantStored ==
    ASSUME NEW N \in Nat, NEW cases, Tuple(cases, N), \A i \in 1 .. N : Stands(cases[i]),
           NEW size \in Nat, NEW align \in Aligns, Spacious(cases, size, align)
    PROVE  VariantIs(cases, N, size, align)
<1> DEFINE cs == [i \in 1 .. N |-> cases[i].stored]
<1>1. DOMAIN cases = 1 .. N /\ Stored(cases) = cs
  BY DEF Stored, Tuple
<1>2. Tuple(cs, N)
  BY DEF Tuple
<1>3. Len(cs) = N
  BY <1>2, LenOf
<1>4. \A i \in 1 .. N : cs[i].size \in Nat /\ cs[i].align \in Aligns /\ cs[i].rows \in SUBSET Rows
  BY DEF Stands, Fits
<1>5. DOMAIN cs = 1 .. N
  OBVIOUS
<1>6. Alignment(cs) = align
  <2>1. \A i \in 1 .. N : cs[i].align \in Nat /\ cs[i].align <= align
    BY <1>1, <1>4 DEF Spacious, Aligns
  <2>2. align = 1 \/ \E i \in 1 .. N : cs[i].align = align
    BY <1>1 DEF Spacious
  <2>3. 1 \in Nat /\ align \in Nat /\ 1 <= align
    BY DEF Aligns
  <2> HIDE DEF cs
  <2> DEFINE S == {1} \cup {cs[i].align : i \in 1 .. N}
  <2>5. S \in SUBSET Nat /\ align \in S /\ \A k \in S : k <= align
    BY <2>1, <2>2, <2>3
  <2> HIDE DEF S
  <2>6. Highest(S) = align
    BY <2>5, HighestIs
  <2>4. Highest({1} \cup {cs[i].align : i \in 1 .. N}) = align
    BY <2>6 DEF S
  <2> QED
    BY <1>5, <2>4 DEF Alignment
<1>7. Highest({0} \cup {cs[i].size : i \in DOMAIN cs}) = size
  <2>1. \A i \in 1 .. N : cs[i].size \in Nat /\ cs[i].size <= size
    BY <1>1, <1>4 DEF Spacious
  <2>2. size = 0 \/ \E i \in 1 .. N : cs[i].size = size
    BY <1>1 DEF Spacious
  <2>3. 0 \in Nat /\ 0 <= size
    OBVIOUS
  <2> HIDE DEF cs
  <2> DEFINE S == {0} \cup {cs[i].size : i \in 1 .. N}
  <2>5. S \in SUBSET Nat /\ size \in S /\ \A k \in S : k <= size
    BY <2>1, <2>2, <2>3
  <2> HIDE DEF S
  <2>6. Highest(S) = size
    BY <2>5, HighestIs
  <2>4. Highest({0} \cup {cs[i].size : i \in 1 .. N}) = size
    BY <2>6 DEF S
  <2> QED
    BY <1>5, <2>4
<1> HIDE DEF cs
<1>8. PayloadOffset(cs) = align
  BY <1>6, AlignedOne DEF PayloadOffset
<1>9. \A i \in 1 .. N : Under(<<i>>, Moved(PayloadOffset(cs), cs[i].rows))
          = Part(i, align, cs[i].rows)
  <2> SUFFICES ASSUME NEW i \in 1 .. N
               PROVE  Under(<<i>>, Moved(PayloadOffset(cs), cs[i].rows))
                      = Part(i, align, cs[i].rows)
    OBVIOUS
  <2>1. i \in Nat /\ align \in Nat /\ cs[i].rows \in SUBSET Rows
    BY <1>4 DEF Aligns
  <2> QED
    BY <1>8, <2>1, RowsBelow
<1>10. Variant(cases).stored = VariantLayout(cs)
  BY <1>1 DEF Variant, Type
<1>11. /\ VariantLayout(cs).size = Aligned(align + size, align)
       /\ VariantLayout(cs).align = align
       /\ VariantLayout(cs).rows =
              {Row(<<>>, "tag", 0, 1, N)} \cup UNION {Part(i, align, cs[i].rows) : i \in 1 .. N}
  BY <1>3, <1>5, <1>6, <1>7, <1>8, <1>9 DEF VariantLayout, Layout
<1>12. \A i \in 1 .. N : cs[i].rows = cases[i].stored.rows
  BY DEF cs
<1> QED
  BY <1>10, <1>11, <1>12 DEF Composite, VariantIs

LEMMA VariantSpans ==
    ASSUME NEW N \in Nat, NEW cases, Tuple(cases, N), \A i \in 1 .. N : Stands(cases[i]),
           NEW size \in Nat, NEW align \in Aligns, Spacious(cases, size, align),
           NEW whole, whole = Aligned(align + size, align)
    PROVE  Spans(Variant(cases), whole, align)
<1> DEFINE tag == Row(<<>>, "tag", 0, 1, N)
           I == 1 .. N
           at == [i \in I |-> align]
           rows == [i \in I |-> cases[i].stored.rows]
           sizes == [i \in I |-> cases[i].stored.size]
           values == UNION {{Whole("case", i - 1, [k \in {i} |-> v]) : v \in cases[i].values} : i \in I}
<1>10. VariantIs(cases, N, size, align)
  BY VariantStored
<1>1. /\ Variant(cases).stored.size = whole
      /\ Variant(cases).stored.align = align
      /\ Variant(cases).stored.rows = Composite({tag}, I, at, rows)
  BY <1>10 DEF VariantIs
<1>2. Variant(cases).values = values
  BY DEF Variant, Type, Tuple
<1>3. \A i \in I : /\ i \in Nat /\ i - 1 \in Nat /\ i - 1 < N /\ at[i] = align
                   /\ rows[i] = cases[i].stored.rows /\ sizes[i] = cases[i].stored.size
                   /\ Fits(rows[i], sizes[i]) /\ sizes[i] \in Nat /\ sizes[i] <= size
                   /\ cases[i].values \in SUBSET Values
                   /\ \A v \in cases[i].values : Suits(rows[i], v)
  BY DEF Stands, Spacious, Tuple
<1>4. align \in Nat /\ align >= 1 /\ I \in SUBSET Nat /\ at \in [I -> Nat] /\ sizes \in [I -> Nat]
  BY <1>3 DEF Aligns
<1>5. whole \in Nat /\ whole >= align + size
  <2>1. align + size \in Nat
    BY <1>4
  <2> QED
    BY <2>1, AlignedUp
<1>6. "case" \in Kinds /\ "tag" \in Kinds /\ 0 \in Nat /\ 1 \in Nat \ {0} /\ N \in Nat
  BY DEF Kinds
<1>7. tag \in Rows /\ tag.off = 0 /\ tag.size = 1
  <2>1. Row(<<>>, "tag", 0, 1, N) \in Rows
    BY <1>6, RootPath, RowFields
  <2> QED
    BY <2>1 DEF Row
<1> HIDE DEF tag, at, rows, sizes, I
<1>8. Fits(Composite({tag}, I, at, rows), whole)
  <2>1. Fits({tag}, whole)
    BY <1>4, <1>5, <1>7 DEF Fits
  <2>2. ASSUME NEW i \in I PROVE at[i] + sizes[i] <= whole /\ Fits(rows[i], sizes[i])
    <3>1. at[i] = align /\ sizes[i] \in Nat /\ sizes[i] <= size /\ Fits(rows[i], sizes[i])
      BY <1>3
    <3> QED
      BY <1>4, <1>5, <3>1
  <2> QED
    BY <1>4, <1>5, <2>1, <2>2, CompositeFits
<1>9. ASSUME NEW w \in values
      PROVE  w \in Values /\ Suits(Composite({tag}, I, at, rows), w)
  <2>1. PICK i \in I : \E v \in cases[i].values : w = Whole("case", i - 1, [k \in {i} |-> v])
    OBVIOUS
  <2>2. PICK v \in cases[i].values : w = Whole("case", i - 1, [k \in {i} |-> v])
    BY <2>1
  <2> DEFINE vs == [k \in {i} |-> v]
             J == {i}
  <2>3. /\ v \in Values /\ J \in SUBSET I /\ J \in SUBSET Nat /\ vs \in [J -> Values]
            /\ i - 1 \in Nat
        /\ J = {(i - 1) + 1} /\ i - 1 < N
    <3>3. i \in Nat /\ cases[i].values \in SUBSET Values /\ i - 1 \in Nat /\ i - 1 < N
      BY <1>3
    <3>1. i \in Nat /\ v \in Values /\ i - 1 \in Nat /\ i - 1 < N /\ (i - 1) + 1 = i
      BY <3>3
    <3>2. I \in SUBSET Nat
      BY <1>4
    <3> QED
      BY <3>1, <3>2
  <2>4. \A k \in J : Suits(rows[k], vs[k])
    BY <1>3
  <2>5. w = Whole("case", i - 1, vs)
    BY <2>2
  <2> HIDE DEF vs, J
  <2>6. MadeOf(w, "case", i - 1, J, vs)
    BY <1>6, <2>3, <2>5, WholeParts
  <2>7. \A k \in I : at[k] >= 1 /\ Fits(rows[k], sizes[k])
    BY <1>3, <1>4
  <2>8. {tag} \in SUBSET {Row(<<>>, "tag", 0, 1, N)} /\ {tag} # {}
    BY DEF tag
  <2>9. Assembles(I, at, sizes, rows, {tag}, N, J, i - 1, vs)
    BY <1>4, <1>6, <2>3, <2>4, <2>7, <2>8 DEF Assembles
  <2>10. Suits(Composite({tag}, I, at, rows), w)
    BY <1>6, <2>5, <2>9, PartsSuit
  <2> QED
    BY <2>6, <2>10 DEF MadeOf
<1> QED
  BY <1>1, <1>2, <1>5, <1>8, <1>9 DEF Spans, Stands

-----------------------------------------------------------------------------
(* Layouts in turn: Ends is a recursive function, and what it is follows by *)
(* induction over the numbers.                                            *)

\* The parts of a sequence of layouts are at these offsets, and end there.
Placement(parts, N, at, end) ==
    /\ at \in [1 .. N -> Nat]
    /\ \A i \in 1 .. N :
          at[i] = IF i = 1 THEN 0 ELSE Aligned(at[i - 1] + parts[i - 1].size, parts[i].align)
    /\ end = IF N = 0 THEN 0 ELSE at[N] + parts[N].size

EndsOf(e, parts, N) ==
    e = [n \in 0 .. N |-> IF n = 0 THEN 0 ELSE Aligned(e[n - 1], parts[n].align) + parts[n].size]

LEMMA EndsUnique ==
    ASSUME NEW N \in Nat, NEW parts, NEW e, NEW f, EndsOf(e, parts, N), EndsOf(f, parts, N)
    PROVE  e = f
<1> USE DEF EndsOf
<1> DEFINE T == {n \in Nat : n \in 0 .. N => e[n] = f[n]}
<1>1. 0 \in T
  OBVIOUS
<1>2. ASSUME NEW n \in T PROVE n + 1 \in T
  <2>1. SUFFICES ASSUME n + 1 \in 0 .. N PROVE e[n + 1] = f[n + 1]
    OBVIOUS
  <2>2. n \in 0 .. N /\ (n + 1) - 1 = n /\ n + 1 # 0
    BY <2>1
  <2>3. e[n] = f[n]
    BY <2>2
  <2>4. e[n + 1] = Aligned(e[n], parts[n + 1].align) + parts[n + 1].size
    BY <2>1, <2>2
  <2>5. f[n + 1] = Aligned(f[n], parts[n + 1].align) + parts[n + 1].size
    BY <2>1, <2>2
  <2> QED
    BY <2>3, <2>4, <2>5
<1>3. T = Nat
  BY <1>1, <1>2, NumbersByInduction
<1> HIDE DEF T
<1>4. \A n \in 0 .. N : n \in T
  BY <1>3
<1>5. \A n \in 0 .. N : e[n] = f[n]
  BY <1>4 DEF T
<1> QED
  BY <1>5

LEMMA EndsAre ==
    ASSUME NEW N \in Nat, NEW parts, Tuple(parts, N),
           \A i \in 1 .. N : parts[i].size \in Nat /\ parts[i].align \in Aligns,
           NEW at, NEW end, Placement(parts, N, at, end)
    PROVE  /\ Ends(parts)[N] = end /\ end \in Nat
           /\ \A i \in 1 .. N : Offset(parts, i) = at[i]
<1> DEFINE e == [n \in 0 .. N |-> IF n = 0 THEN 0 ELSE at[n] + parts[n].size]
<1>1. Len(parts) = N
  BY LenOf
<1>2. ASSUME NEW n \in 1 .. N PROVE at[n] = Aligned(e[n - 1], parts[n].align)
  <2>1. CASE n = 1
    <3>1. e[n - 1] = 0 /\ at[n] = 0 /\ parts[n].align \in Aligns
      BY <2>1 DEF Placement
    <3> QED
      BY <3>1 DEF Aligned, Aligns
  <2>2. CASE n # 1
    <3>1. n - 1 \in 1 .. N /\ n - 1 \in 0 .. N /\ n - 1 # 0
      BY <2>2
    <3> QED
      BY <2>2, <3>1 DEF Placement
  <2> QED
    BY <2>1, <2>2
<1>3. EndsOf(e, parts, N)
  <2>1. ASSUME NEW n \in 0 .. N
        PROVE  e[n] = IF n = 0 THEN 0 ELSE Aligned(e[n - 1], parts[n].align) + parts[n].size
    <3>1. CASE n = 0
      BY <3>1
    <3>2. CASE n # 0
      <4>1. n \in 1 .. N
        BY <3>2
      <4>2. e[n] = at[n] + parts[n].size
        BY <4>1
      <4> QED
        BY <1>2, <3>2, <4>1, <4>2
    <3> QED
      BY <3>1, <3>2
  <2> QED
    BY <2>1 DEF EndsOf
<1> HIDE DEF e
<1>4. Ends(parts) = CHOOSE f : EndsOf(f, parts, N)
  BY <1>1 DEF Ends, EndsOf
<1>5. EndsOf(Ends(parts), parts, N)
  BY <1>3, <1>4
<1>6. Ends(parts) = e
  BY <1>3, <1>5, EndsUnique
<1>7. e[N] = end /\ end \in Nat
  BY DEF e, Placement
<1>8. ASSUME NEW i \in 1 .. N PROVE Offset(parts, i) = at[i]
  BY <1>2, <1>6 DEF Offset
<1> QED
  BY <1>6, <1>7, <1>8

LEMMA PlacedApart ==
    ASSUME NEW N \in Nat, NEW parts,
           \A i \in 1 .. N : parts[i].size \in Nat /\ parts[i].align \in Aligns,
           NEW at, NEW end, Placement(parts, N, at, end)
    PROVE  /\ \A i, j \in 1 .. N : i < j => at[i] + parts[i].size <= at[j]
           /\ \A i \in 1 .. N : at[i] + parts[i].size <= end
<1> DEFINE T == {j \in Nat : j \in 1 .. N => \A i \in 1 .. N : i < j
        => at[i] + parts[i].size <= at[j]}
<1>1. 0 \in T
  OBVIOUS
<1>2. ASSUME NEW j \in T PROVE j + 1 \in T
  <2>1. SUFFICES ASSUME j + 1 \in 1 .. N, NEW i \in 1 .. N, i < j + 1
                 PROVE  at[i] + parts[i].size <= at[j + 1]
    OBVIOUS
  <2>2. j \in 1 .. N /\ (j + 1) - 1 = j /\ j + 1 # 1
    BY <2>1
  <2>3. at[j + 1] = Aligned(at[j] + parts[j].size, parts[j + 1].align)
    BY <2>1, <2>2 DEF Placement
  <2>4. at[i] \in Nat /\ at[j] \in Nat /\ parts[i].size \in Nat /\ parts[j].size \in Nat
            /\ parts[j + 1].align \in Aligns
    BY <2>1, <2>2 DEF Placement
  <2>5. at[j] + parts[j].size \in Nat
    BY <2>4
  <2>6. at[j] + parts[j].size <= at[j + 1] /\ at[j + 1] \in Nat
    BY <2>3, <2>4, <2>5, AlignedUp
  <2>7. CASE i = j
    BY <2>6, <2>7
  <2>8. CASE i # j
    <3>1. at[i] + parts[i].size <= at[j]
      BY <2>1, <2>2, <2>8
    <3> QED
      BY <2>4, <2>6, <3>1
  <2> QED
    BY <2>7, <2>8
<1>3. T = Nat
  BY <1>1, <1>2, NumbersByInduction
<1>4. \A j \in 1 .. N : \A i \in 1 .. N : i < j => at[i] + parts[i].size <= at[j]
  BY <1>3
<1>5. ASSUME NEW i \in 1 .. N PROVE at[i] + parts[i].size <= end
  <2>1. end = at[N] + parts[N].size /\ N \in 1 .. N /\ at[N] \in Nat /\ parts[N].size \in Nat
    BY DEF Placement
  <2>2. CASE i = N
    BY <2>1, <2>2
  <2>3. CASE i # N
    <3>1. at[i] + parts[i].size <= at[N] /\ at[i] \in Nat /\ parts[i].size \in Nat
      BY <1>4, <2>1, <2>3 DEF Placement
    <3> QED
      BY <2>1, <3>1
  <2> QED
    BY <2>2, <2>3
<1> QED
  BY <1>4, <1>5

-----------------------------------------------------------------------------
(* Records.                                                               *)

Widest(parts, N, align) ==
    /\ \A i \in 1 .. N : parts[i].align <= align
    /\ align = 1 \/ \E i \in 1 .. N : parts[i].align = align

LEMMA AlignmentIs ==
    ASSUME NEW N \in Nat, NEW parts, Tuple(parts, N), \A i \in 1 .. N : parts[i].align \in Aligns,
           NEW align \in Aligns, Widest(parts, N, align)
    PROVE  Alignment(parts) = align
<1> DEFINE S == {1} \cup {parts[i].align : i \in 1 .. N}
<1>1. DOMAIN parts = 1 .. N
  BY DEF Tuple
<1>2. S \in SUBSET Nat /\ align \in S /\ \A k \in S : k <= align
  BY DEF Widest, Aligns
<1> HIDE DEF S
<1>3. Highest(S) = align
  BY <1>2, HighestIs
<1> QED
  BY <1>1, <1>3 DEF S, Alignment

RecordIs(fields, N, at, end, align) ==
    /\ Record(fields).stored.size = Aligned(end, align)
    /\ Record(fields).stored.align = align
    /\ Record(fields).stored.rows
       = Composite({}, 1 .. N, at, [i \in 1 .. N |-> fields[i].stored.rows])

LEMMA RecordStored ==
    ASSUME NEW N \in Nat, NEW fields, Tuple(fields, N), \A i \in 1 .. N : Stands(fields[i]),
           NEW at, NEW end, Placement(Stored(fields), N, at, end),
           NEW align \in Aligns, Widest(Stored(fields), N, align)
    PROVE  RecordIs(fields, N, at, end, align)
<1> DEFINE parts == [i \in 1 .. N |-> Layout(fields[i].stored.size, fields[i].stored.align,
                                             Under(<<i>>, fields[i].stored.rows))]
<1>1. DOMAIN fields = 1 .. N
  BY DEF Tuple
<1>2. \A i \in 1 .. N : Stored(fields)[i] = fields[i].stored
  BY <1>1 DEF Stored
<1>3. \A i \in 1 .. N : /\ parts[i].size = fields[i].stored.size
                        /\ parts[i].align = fields[i].stored.align
                        /\ parts[i].rows = Under(<<i>>, fields[i].stored.rows)
                        /\ parts[i].size \in Nat /\ parts[i].align \in Aligns
                        /\ fields[i].stored.rows \in SUBSET Rows
  BY DEF Stands, Fits, Layout
<1>4. Record(fields).stored = InTurn(parts)
  <2>1. Record(fields).stored = RecordLayout(Stored(fields))
    BY DEF Record, Type
  <2>2. DOMAIN Stored(fields) = 1 .. N
    BY <1>1 DEF Stored
  <2> QED
    BY <1>2, <2>1, <2>2 DEF RecordLayout
<1>5. Tuple(parts, N) /\ DOMAIN parts = 1 .. N
  BY DEF Tuple
<1> HIDE DEF parts
<1>12. \A i \in 1 .. N : parts[i].size = Stored(fields)[i].size
           /\ parts[i].align = Stored(fields)[i].align
  BY <1>2, <1>3
<1>6. Placement(parts, N, at, end)
  <2>1. ASSUME NEW i \in 1 .. N
        PROVE  at[i] = IF i = 1 THEN 0 ELSE Aligned(at[i - 1] + parts[i - 1].size, parts[i].align)
    <3>1. i # 1 => i - 1 \in 1 .. N
      OBVIOUS
    <3> QED
      BY <1>12, <3>1 DEF Placement
  <2>2. N # 0 => N \in 1 .. N
    OBVIOUS
  <2>3. end = IF N = 0 THEN 0 ELSE at[N] + parts[N].size
    BY <1>12, <2>2 DEF Placement
  <2> QED
    BY <2>1, <2>3 DEF Placement
<1>13. \A i \in 1 .. N : parts[i].size \in Nat /\ parts[i].align \in Aligns
  BY <1>3
<1>7. Widest(parts, N, align)
  BY <1>2, <1>3 DEF Widest
<1>8. Alignment(parts) = align /\ Len(parts) = N
  BY <1>3, <1>5, <1>7, AlignmentIs, LenOf
<1>9. Ends(parts)[N] = end /\ \A i \in 1 .. N : Offset(parts, i) = at[i]
  BY <1>5, <1>6, <1>13, EndsAre
<1>10. ASSUME NEW i \in 1 .. N
       PROVE  Moved(Offset(parts, i), parts[i].rows) = Part(i, at[i], fields[i].stored.rows)
  <2>2. at \in [1 .. N -> Nat]
    BY <1>6 DEF Placement
  <2>3. i \in Nat /\ at[i] \in Nat
    BY <2>2
  <2>1. i \in Nat /\ at[i] \in Nat /\ fields[i].stored.rows \in SUBSET Rows
    BY <1>3, <2>3
  <2> QED
    BY <1>3, <1>9, <2>1, RowsBelow
<1>11. /\ InTurn(parts).size = Aligned(end, align) /\ InTurn(parts).align = align
       /\ InTurn(parts).rows = UNION {Part(i, at[i], fields[i].stored.rows) : i \in 1 .. N}
  BY <1>5, <1>8, <1>9, <1>10 DEF InTurn, Layout
<1> QED
  BY <1>4, <1>11 DEF RecordIs, Composite

LEMMA RecordSpans ==
    ASSUME NEW N \in Nat, NEW fields, Tuple(fields, N), \A i \in 1 .. N : Stands(fields[i]),
           NEW at, NEW end, Placement(Stored(fields), N, at, end),
           NEW align \in Aligns, Widest(Stored(fields), N, align),
           NEW whole, whole = Aligned(end, align)
    PROVE  Spans(Record(fields), whole, align)
<1> DEFINE I == 1 .. N
           rows == [i \in I |-> fields[i].stored.rows]
           sizes == [i \in I |-> fields[i].stored.size]
           values == {Whole("record", 0, fs) :
                         fs \in {gs \in [I -> UNION {fields[i].values : i \in I}] :
                                    \A i \in I : gs[i] \in fields[i].values}}
<1>1. RecordIs(fields, N, at, end, align)
  BY RecordStored
<1>2. DOMAIN fields = I
  BY DEF Tuple
<1>3. \A i \in I : Stored(fields)[i] = fields[i].stored
  BY <1>2 DEF Stored
<1>4. Record(fields).values = values
  BY <1>2 DEF Record, Type
<1>5. /\ Record(fields).stored.size = whole /\ Record(fields).stored.align = align
      /\ Record(fields).stored.rows = Composite({}, I, at, rows)
  BY <1>1 DEF RecordIs
<1>6. \A i \in I : /\ i \in Nat /\ rows[i] = fields[i].stored.rows
          /\ sizes[i] = fields[i].stored.size
                   /\ Fits(rows[i], sizes[i]) /\ sizes[i] \in Nat
                   /\ Stored(fields)[i].size = sizes[i] /\ Stored(fields)[i].align \in Aligns
                   /\ fields[i].values \in SUBSET Values
                   /\ \A v \in fields[i].values : Suits(rows[i], v)
  BY <1>3 DEF Stands
<1>7. at \in [I -> Nat] /\ I \in SUBSET Nat /\ sizes \in [I -> Nat]
  BY <1>6 DEF Placement
<1>8. /\ \A i, j \in I : i < j => at[i] + sizes[i] <= at[j]
      /\ \A i \in I : at[i] + sizes[i] <= end
  <2>1. /\ \A i, j \in 1 .. N : i < j => at[i] + Stored(fields)[i].size <= at[j]
        /\ \A i \in 1 .. N : at[i] + Stored(fields)[i].size <= end
    BY <1>6, PlacedApart
  <2> QED
    BY <1>6, <2>1
<1>9. end \in Nat
  BY <1>6 DEF Placement
<1>10. whole \in Nat /\ end <= whole
  BY <1>9, AlignedUp
<1>11. \A i, j \in I : i # j => at[i] + sizes[i] <= at[j] \/ at[j] + sizes[j] <= at[i]
  BY <1>8
<1>12. "record" \in Kinds /\ 0 \in Nat
  BY DEF Kinds
<1> HIDE DEF I, rows, sizes
<1>13. Fits(Composite({}, I, at, rows), whole)
  <2>1. \A i \in I : at[i] + sizes[i] <= whole /\ Fits(rows[i], sizes[i])
    <3> SUFFICES ASSUME NEW i \in I PROVE at[i] + sizes[i] <= whole
      BY <1>6
    <3>1. at[i] + sizes[i] <= end /\ at[i] \in Nat /\ sizes[i] \in Nat
      BY <1>7, <1>8
    <3> QED
      BY <1>9, <1>10, <3>1
  <2>2. Fits({}, whole)
    BY DEF Fits
  <2> QED
    BY <1>7, <1>10, <2>1, <2>2, CompositeFits
<1>14. ASSUME NEW w \in values
       PROVE  w \in Values /\ Suits(Composite({}, I, at, rows), w)
  <2>1. PICK fs \in [I -> UNION {fields[i].values : i \in I}] :
            (\A i \in I : fs[i] \in fields[i].values) /\ w = Whole("record", 0, fs)
    OBVIOUS
  <2>2. fs \in [I -> Values] /\ \A i \in I : Suits(rows[i], fs[i])
    BY <1>6, <2>1
  <2>3. MadeOf(w, "record", 0, I, fs)
    BY <1>7, <1>12, <2>1, <2>2, WholeParts
  <2>4. Assembles(I, at, sizes, rows, {}, 0, I, 0, fs)
    BY <1>6, <1>7, <1>11, <1>12, <2>2 DEF Assembles
  <2>5. Suits(Composite({}, I, at, rows), w)
    BY <1>12, <2>1, <2>4, PartsSuit
  <2> QED
    BY <2>3, <2>5 DEF MadeOf
<1> QED
  BY <1>4, <1>5, <1>10, <1>13, <1>14 DEF Spans, Stands

-----------------------------------------------------------------------------
(* What the loads of bindings.c are made of reads what the ABI stores.    *)

LEMMA ReadsScalar ==
    ASSUME NEW size \in Aligns, NEW o \in Nat
    PROVE  Reads(Integer(o, size), o, Scalar(size))
<1> DEFINE r == Row(<<>>, "scalar", 0, size, 0)
<1>1. Scalar(size).stored.rows = {r}
  BY DEF Scalar, Type, ScalarLayout, Layout
<1>2. r.path = <<>> /\ r.kind = "scalar" /\ r.off = 0 /\ r.size = size /\ r.cases = 0
  BY DEF Row
<1> HIDE DEF r
<1>3. Moved(o, {r}) = {Row(<<>>, "scalar", 0 + o, size, 0)}
  BY <1>2 DEF Moved
<1>4. 0 + o = o
  OBVIOUS
<1> QED
  BY <1>1, <1>3, <1>4 DEF Reads, Integer

LEMMA ReadsList ==
    ASSUME NEW t, NEW o \in Nat
    PROVE  Reads(Span(o), o, List(t))
<1> DEFINE p == Row(<<>>, "ptr", 0, 4, 0)
           l == Row(<<>>, "len", 4, 4, 0)
<1>1. List(t).stored.rows = {p, l}
  BY DEF List, Type, ListLayout, Layout
<1>2. /\ p.path = <<>> /\ p.kind = "ptr" /\ p.off = 0 /\ p.size = 4 /\ p.cases = 0
      /\ l.path = <<>> /\ l.kind = "len" /\ l.off = 4 /\ l.size = 4 /\ l.cases = 0
  BY DEF Row
<1> HIDE DEF p, l
<1>3. Moved(o, {p, l}) = {Row(<<>>, "ptr", 0 + o, 4, 0), Row(<<>>, "len", 4 + o, 4, 0)}
  BY <1>2 DEF Moved
<1>4. 0 + o = o /\ 4 + o = o + 4
  OBVIOUS
<1> QED
  BY <1>1, <1>3, <1>4 DEF Reads, Span

LEMMA StructComposite ==
    ASSUME NEW N \in Nat, NEW loads, Tuple(loads, N), NEW at \in [1 .. N -> Nat],
           NEW rows, \A i \in 1 .. N : rows[i] \in SUBSET Rows /\ loads[i] = Moved(at[i], rows[i])
    PROVE  Struct(loads) = Composite({}, 1 .. N, at, rows)
<1>1. DOMAIN loads = 1 .. N
  BY DEF Tuple
<1>2. ASSUME NEW i \in 1 .. N PROVE Under(<<i>>, loads[i]) = Part(i, at[i], rows[i])
  <2>1. i \in Nat /\ at[i] \in Nat
    OBVIOUS
  <2>2. rows[i] \in SUBSET Rows /\ loads[i] = Moved(at[i], rows[i])
    OBVIOUS
  <2> QED
    BY <2>1, <2>2, RowsBelow
<1> QED
  BY <1>1, <1>2 DEF Struct, Composite

LEMMA ReadsVariant ==
    ASSUME NEW N \in Nat, NEW cases, Tuple(cases, N), \A i \in 1 .. N : Stands(cases[i]),
           NEW size \in Nat, NEW align \in Aligns, Spacious(cases, size, align),
           NEW loads, Tuple(loads, N), NEW o \in Nat,
           \A i \in 1 .. N : Reads(loads[i], o + align, cases[i])
    PROVE  Reads(Switch(o, loads), o, Variant(cases))
<1> DEFINE at == [i \in 1 .. N |-> align]
           moved == [i \in 1 .. N |-> at[i] + o]
           rows == [i \in 1 .. N |-> cases[i].stored.rows]
           tag == Row(<<>>, "tag", 0, 1, N)
<1>1. VariantIs(cases, N, size, align)
  BY VariantStored
<1>2. Variant(cases).stored.rows = Composite({tag}, 1 .. N, at, rows)
  BY <1>1 DEF VariantIs
<1>3. /\ at \in [1 .. N -> Nat] /\ moved \in [1 .. N -> Nat] /\ 1 .. N \in SUBSET Nat
      /\ \A i \in 1 .. N : at[i] + o = o + align /\ moved[i] = o + align
  BY DEF Aligns
<1>4. \A i \in 1 .. N : rows[i] \in SUBSET Rows
  BY DEF Stands, Fits
<1>5. \A i \in 1 .. N : loads[i] = Moved(moved[i], rows[i])
  BY <1>3 DEF Reads
<1>6. Moved(o, {tag}) = {Row(<<>>, "tag", o, 1, N)}
  BY DEF Moved, Row
<1>7. Len(loads) = N
  BY LenOf
<1> HIDE DEF tag, at, rows
<1>8. Moved(o, Composite({tag}, 1 .. N, at, rows)) = Composite(Moved(o, {tag}), 1 .. N, moved, rows)
  BY <1>3, <1>4, CompositeMoved
<1> HIDE DEF moved
<1>11. moved \in [1 .. N -> Nat]
  BY <1>3
<1>10. \A i \in 1 .. N : rows[i] \in SUBSET Rows /\ loads[i] = Moved(moved[i], rows[i])
  BY <1>4, <1>5
<1>9. Struct(loads) = Composite({}, 1 .. N, moved, rows)
  BY <1>11, <1>10, StructComposite, SMTT(60)
<1> QED
  BY <1>2, <1>6, <1>7, <1>8, <1>9 DEF Reads, Switch, Composite

LEMMA ReadsRecord ==
    ASSUME NEW N \in Nat, NEW fields, Tuple(fields, N), \A i \in 1 .. N : Stands(fields[i]),
           NEW at, NEW end, Placement(Stored(fields), N, at, end),
           NEW align \in Aligns, Widest(Stored(fields), N, align),
           NEW loads, Tuple(loads, N), NEW o \in Nat,
           \A i \in 1 .. N : Reads(loads[i], o + at[i], fields[i])
    PROVE  Reads(Struct(loads), o, Record(fields))
<1> DEFINE moved == [i \in 1 .. N |-> at[i] + o]
           rows == [i \in 1 .. N |-> fields[i].stored.rows]
<1>1. RecordIs(fields, N, at, end, align)
  BY RecordStored
<1>2. Record(fields).stored.rows = Composite({}, 1 .. N, at, rows)
  BY <1>1 DEF RecordIs
<1>3. at \in [1 .. N -> Nat]
  BY DEF Placement
<1>6. /\ moved \in [1 .. N -> Nat] /\ 1 .. N \in SUBSET Nat
      /\ \A i \in 1 .. N : moved[i] = o + at[i]
  BY <1>3
<1>4. \A i \in 1 .. N : rows[i] \in SUBSET Rows
  BY DEF Stands, Fits
<1>5. \A i \in 1 .. N : loads[i] = Moved(moved[i], rows[i])
  BY <1>6 DEF Reads
<1>7. Moved(o, {}) = {}
  BY DEF Moved
<1> HIDE DEF rows
<1>8. Moved(o, Composite({}, 1 .. N, at, rows)) = Composite(Moved(o, {}), 1 .. N, moved, rows)
  <2>1. \A i \in 1 .. N : moved[i] = at[i] + o
    OBVIOUS
  <2> HIDE DEF moved
  <2> QED
    BY <1>3, <1>4, <1>6, <2>1, CompositeMoved, SMTT(60)
<1> HIDE DEF moved
<1>9. Struct(loads) = Composite({}, 1 .. N, moved, rows)
  BY <1>4, <1>5, <1>6, StructComposite
<1> QED
  BY <1>2, <1>7, <1>8, <1>9 DEF Reads

LEMMA VoidSpans == Spans(Void, 0, 1)
<1>1. Tuple(<<>>, 0) /\ Placement(Stored(<<>>), 0, <<>>, 0) /\ Widest(Stored(<<>>), 0, 1)
          /\ 1 \in Aligns
  BY DEF Tuple, Placement, Widest, Aligns
<1>2. 0 = Aligned(0, 1)
  BY DEF Aligned
<1> QED
  BY <1>1, <1>2, RecordSpans DEF Void

LEMMA ReadsVoid ==
    ASSUME NEW o \in Nat
    PROVE  Reads(None, o, Void)
<1>1. Tuple(<<>>, 0) /\ Placement(Stored(<<>>), 0, <<>>, 0) /\ Widest(Stored(<<>>), 0, 1)
          /\ 1 \in Aligns
  BY DEF Tuple, Placement, Widest, Aligns
<1>2. Struct(<<>>) = {}
  BY DEF Struct
<1>3. Reads(Struct(<<>>), o, Record(<<>>))
  BY <1>1, ReadsRecord
<1> QED
  BY <1>2, <1>3 DEF Void, None

-----------------------------------------------------------------------------
(* What control comes to and finds is what there is: a load that is the   *)
(* layout of the answer gives the answer, part by part.                   *)

LEMMA LiftedIsShown ==
    ASSUME NEW rows \in SUBSET Rows, NEW v \in Values, Suits(rows, v)
    PROVE  Lifted(rows, Cells(rows, v)) = Shown(rows, v)
<1> DEFINE area == Cells(rows, v)
<1>1. ASSUME NEW r \in Present(rows, v)
      PROVE  /\ Found(area, r) = Content(r, v)
             /\ r.kind = "tag" => Content(r, v).n = v[r.path].n
  <2> DEFINE read == {c.holds : c \in {d \in area : d.off = r.off /\ d.size = r.size}}
             held == {h \in read : h.kind = r.kind /\ (r.kind = "tag" => h.n < r.cases)}
  <2>1. r \in rows /\ r \in Rows /\ r.path \in DOMAIN v
    BY DEF Present
  <2>2. r.off \in Nat /\ r.size \in Nat /\ r.size > 0
    BY <2>1 DEF Rows
  <2>3. ASSUME NEW s \in Present(rows, v), s.off = r.off, s.size = r.size PROVE s = r
    <3>1. r = s \/ r.off + r.size <= s.off \/ s.off + s.size <= r.off
      BY DEF Suits
    <3> QED
      BY <2>2, <2>3, <3>1
  <2>4. ASSUME NEW h \in read PROVE h = Content(r, v)
    <3>1. PICK s \in Present(rows, v) : s.off = r.off /\ s.size = r.size /\ h = Content(s, v)
      BY DEF Cells
    <3> QED
      BY <2>3, <3>1
  <2>5. Content(r, v) \in read
    <3> DEFINE c == [off |-> r.off, size |-> r.size, holds |-> Content(r, v)]
    <3>1. c \in area
      BY DEF Cells
    <3>2. c.off = r.off /\ c.size = r.size /\ c.holds = Content(r, v)
      OBVIOUS
    <3> QED
      BY <3>1, <3>2
  <2>6. Content(r, v).kind = r.kind
    BY DEF Content, Datum
  <2>7. r.kind = "tag" => Content(r, v).n = v[r.path].n /\ v[r.path].n < r.cases
    BY DEF Content, Datum, Suits
  <2> HIDE DEF read
  <2>8. held = {Content(r, v)}
    BY <2>4, <2>5, <2>6, <2>7
  <2>9. Found(area, r) = IF held = {} THEN Garbage ELSE CHOOSE h \in held : TRUE
    BY DEF Found, read
  <2> HIDE DEF held
  <2> QED
    BY <2>7, <2>8, <2>9
<1>2. ASSUME NEW s \in Present(rows, v), NEW r \in rows, TagAbove(s, r)
      PROVE  Selects(s, r, v) <=> r.path[Len(s.path) + 1] = Found(area, s).n + 1
  <2>1. Found(area, s).n = v[s.path].n
    BY <1>1, <1>2 DEF TagAbove
  <2> QED
    BY <2>1 DEF Selects
<1> HIDE DEF area
<1>3. ASSUME NEW r \in Present(rows, v) PROVE r \in Reached(rows, area)
  <2>1. r \in rows /\ r.path \in DOMAIN v
    BY DEF Present
  <2>2. ASSUME NEW s \in rows, s.kind = "tag", Above(s.path, r.path)
        PROVE  r.path[Len(s.path) + 1] = Found(area, s).n + 1
    <3>1. TagAbove(s, r)
      BY <2>2 DEF TagAbove
    <3>2. s.path \in DOMAIN v /\ Selects(s, r, v)
      BY <2>1, <3>1 DEF Suits
    <3>3. s \in Present(rows, v)
      BY <3>2 DEF Present
    <3> QED
      BY <1>2, <2>1, <3>1, <3>2, <3>3
  <2> QED
    BY <2>1, <2>2 DEF Reached
<1>4. ASSUME NEW r \in Reached(rows, area) PROVE r \in Present(rows, v)
  <2>1. r \in rows
    BY DEF Reached
  <2>2. SUFFICES ASSUME r.path \notin DOMAIN v PROVE FALSE
    BY <2>1 DEF Present
  <2>3. PICK s \in rows : TagAbove(s, r) /\ s.path \in DOMAIN v /\ ~Selects(s, r, v)
    BY <2>1, <2>2 DEF Suits
  <2>4. s \in Present(rows, v)
    BY <2>3 DEF Present
  <2>5. r.path[Len(s.path) + 1] = Found(area, s).n + 1
    BY <2>1, <2>3 DEF Reached, TagAbove
  <2> QED
    BY <1>2, <2>1, <2>3, <2>4, <2>5
<1>5. Reached(rows, area) = Present(rows, v)
  BY <1>3, <1>4
<1>6. Lifted(rows, area) = {[path |-> r.path, holds |-> Content(r, v)] : r \in Present(rows, v)}
  BY <1>1, <1>5 DEF Lifted
<1> QED
  BY <1>6 DEF Shown, area

-----------------------------------------------------------------------------
(* Loads at an offset, with the size and the alignment of their type, which *)
(* are written into the code of an adapter.                               *)

\* The load reads a type at an offset, and the type is so large.
At(load, o, t, size, align) == o \in Nat /\ Spans(t, size, align) /\ Reads(load, o, t)

LEMMA AtFacts ==
    ASSUME NEW load, NEW o, NEW t, NEW size, NEW align, At(load, o, t, size, align)
    PROVE  size \in Nat /\ align \in Aligns /\ align \in Nat /\ Stands(t) /\ o \in Nat
BY DEF At, Spans, Stands, Aligns

LEMMA AtScalar ==
    ASSUME NEW size \in Aligns, NEW o \in Nat
    PROVE  At(Integer(o, size), o, Scalar(size), size, size)
BY ScalarSpans, ReadsScalar DEF At

LEMMA AtVoid ==
    ASSUME NEW o \in Nat
    PROVE  At(None, o, Void, 0, 1)
BY VoidSpans, ReadsVoid DEF At

Valued(t) == t.values \in SUBSET Values

LEMMA AtList ==
    ASSUME NEW t, Valued(t), NEW o \in Nat
    PROVE  At(Span(o), o, List(t), 8, 4)
BY ListSpans, ReadsList, WitAbiAssumption DEF At, Valued

\* A load reads the parts of a type, each a type that stands: in a variant
\* behind the tag, in a record at their offsets.
LEMMA AtVariant ==
    ASSUME NEW o \in Nat, NEW N \in Nat, NEW cases, Tuple(cases, N), NEW loads, Tuple(loads, N),
           NEW size \in Nat, NEW align \in Aligns, Spacious(cases, size, align),
           \A i \in 1 .. N : Stands(cases[i]) /\ Reads(loads[i], o + align, cases[i]),
           NEW whole, whole = Aligned(align + size, align)
    PROVE  At(Switch(o, loads), o, Variant(cases), whole, align)
BY VariantSpans, ReadsVariant DEF At

LEMMA AtRecord ==
    ASSUME NEW o \in Nat, NEW N \in Nat, NEW fields, Tuple(fields, N), NEW loads, Tuple(loads, N),
           NEW at, NEW end, Placement(Stored(fields), N, at, end),
           NEW align \in Aligns, Widest(Stored(fields), N, align),
           \A i \in 1 .. N : Stands(fields[i]) /\ Reads(loads[i], o + at[i], fields[i]),
           NEW whole, whole = Aligned(end, align)
    PROVE  At(Struct(loads), o, Record(fields), whole, align)
BY RecordSpans, ReadsRecord DEF At

LEMMA AtPart ==
    ASSUME NEW load, NEW o, NEW t, NEW size, NEW align, At(load, o, t, size, align)
    PROVE  /\ Stands(t) /\ t.stored.size = size /\ t.stored.align = align /\ Reads(load, o, t)
           /\ size \in Nat /\ align \in Aligns /\ align \in Nat /\ o \in Nat
BY DEF At, Spans, Stands, Aligns

Larger(m, n) == IF m <= n THEN n ELSE m

\* Of two cases, of these sizes and alignments, what they hold is at q, and the whole is so large.
TwoCases(o, q, s, a, z, b, whole, align) ==
    align = Larger(a, b) /\ q = o + align /\ whole = Aligned(align + Larger(s, z), align)

LEMMA AtResult ==
    ASSUME NEW o \in Nat, NEW x, NEW t, NEW s, NEW a, NEW y, NEW u, NEW z, NEW b,
           NEW q, At(x, q, t, s, a), At(y, q, u, z, b),
           NEW align, NEW whole, TwoCases(o, q, s, a, z, b, whole, align)
    PROVE  At(Switch(o, <<x, y>>), o, Variant(<<t, u>>), whole, align)
<1> DEFINE cases == <<t, u>>
           loads == <<x, y>>
           size == Larger(s, z)
<1>0. align = Larger(a, b) /\ q = o + align /\ whole = Aligned(align + Larger(s, z), align)
  BY DEF TwoCases
<1>1. /\ Stands(t) /\ t.stored.size = s /\ t.stored.align = a /\ Reads(x, o + align, t)
      /\ Stands(u) /\ u.stored.size = z /\ u.stored.align = b /\ Reads(y, o + align, u)
      /\ s \in Nat /\ z \in Nat /\ a \in Aligns /\ b \in Aligns /\ a \in Nat /\ b \in Nat
  BY <1>0, AtPart
<1>2. /\ Tuple(cases, 2) /\ Tuple(loads, 2) /\ DOMAIN cases = 1 .. 2
      /\ cases[1] = t /\ cases[2] = u /\ loads[1] = x /\ loads[2] = y
  BY DEF Tuple
<1>3. /\ size \in Nat /\ s <= size /\ z <= size /\ (size = s \/ size = z)
      /\ align \in Aligns /\ a <= align /\ b <= align /\ (align = a \/ align = b)
  BY <1>0, <1>1 DEF Larger
<1> HIDE DEF cases, loads, size
<1>4. \A i \in 1 .. 2 : i = 1 \/ i = 2
  OBVIOUS
<1>5. \A i \in 1 .. 2 : Stands(cases[i]) /\ Reads(loads[i], o + align, cases[i])
  BY <1>1, <1>2, <1>4
<1>6. Spacious(cases, size, align)
  BY <1>1, <1>2, <1>3, <1>4 DEF Spacious
<1>7. At(Switch(o, loads), o, Variant(cases), whole, align)
  BY <1>0, <1>2, <1>3, <1>5, <1>6, AtVariant DEF size
<1> QED
  BY <1>7 DEF cases, loads

\* Of two fields, of these sizes and alignments, the second is at q, and the whole is so large.
TwoFields(o, q, s, a, z, b, whole, align) ==
    align = Larger(a, b) /\ q = o + Aligned(s, b) /\ whole = Aligned(Aligned(s, b) + z, align)

LEMMA AtPair ==
    ASSUME NEW o \in Nat, NEW x, NEW t, NEW s, NEW a, NEW y, NEW u, NEW z, NEW b,
           NEW q, At(x, o, t, s, a), At(y, q, u, z, b),
           NEW align, NEW whole, TwoFields(o, q, s, a, z, b, whole, align)
    PROVE  At(Struct(<<x, y>>), o, Record(<<t, u>>), whole, align)
<1> DEFINE fields == <<t, u>>
           loads == <<x, y>>
           at == <<0, Aligned(s, b)>>
           parts == Stored(fields)
<1>0. align = Larger(a, b) /\ q = o + Aligned(s, b) /\ whole = Aligned(Aligned(s, b) + z, align)
  BY DEF TwoFields
<1>1. /\ Stands(t) /\ t.stored.size = s /\ t.stored.align = a /\ Reads(x, o, t)
      /\ Stands(u) /\ u.stored.size = z /\ u.stored.align = b /\ Reads(y, o + Aligned(s, b), u)
      /\ s \in Nat /\ z \in Nat /\ a \in Aligns /\ b \in Aligns /\ a \in Nat /\ b \in Nat
  BY <1>0, AtPart
<1>2. /\ Tuple(fields, 2) /\ Tuple(loads, 2) /\ DOMAIN fields = 1 .. 2
      /\ fields[1] = t /\ fields[2] = u /\ loads[1] = x /\ loads[2] = y
  BY DEF Tuple
<1>3. align \in Aligns /\ a <= align /\ b <= align /\ (align = a \/ align = b)
  BY <1>0, <1>1 DEF Larger
<1>4. \A i \in 1 .. 2 : i = 1 \/ i = 2
  OBVIOUS
<1>5. Aligned(s, b) \in Nat
  BY <1>1, AlignedUp
<1>6. /\ at \in [1 .. 2 -> Nat] /\ at[1] = 0 /\ at[2] = Aligned(s, b)
  BY <1>4, <1>5
<1>7. /\ parts[1].size = s /\ parts[1].align = a /\ parts[2].size = z /\ parts[2].align = b
  BY <1>1, <1>2 DEF Stored
<1> HIDE DEF fields, loads, at, parts
<1>8. \A i \in 1 .. 2 : Stands(fields[i]) /\ Reads(loads[i], o + at[i], fields[i])
  BY <1>1, <1>2, <1>4, <1>6
<1>9. Placement(parts, 2, at, Aligned(s, b) + z)
  <2>1. 0 + s = s
    BY <1>1
  <2> QED
    BY <1>4, <1>6, <1>7, <2>1 DEF Placement
<1>10. Widest(parts, 2, align)
  BY <1>3, <1>4, <1>7 DEF Widest
<1>11. At(Struct(loads), o, Record(fields), whole, align)
  BY <1>0, <1>2, <1>3, <1>8, <1>9, <1>10, AtRecord DEF parts
<1> QED
  BY <1>11 DEF fields, loads

\* Fields of these sizes and alignments, at these offsets.
InPlace(loads, o, fields, N, sizes, aligns, at, align) ==
    /\ \A i \in 1 .. N :
          /\ At(loads[i], o + at[i], fields[i], sizes[i], aligns[i])
          /\ at[i] = IF i = 1 THEN 0 ELSE Aligned(at[i - 1] + sizes[i - 1], aligns[i])
          /\ aligns[i] <= align
    /\ align = 1 \/ \E i \in 1 .. N : aligns[i] = align

LEMMA AtFields ==
    ASSUME NEW o \in Nat, NEW N \in Nat, NEW fields, Tuple(fields, N), NEW loads, Tuple(loads, N),
           NEW sizes, NEW aligns, NEW at \in [1 .. N -> Nat], NEW align \in Aligns, NEW end,
           InPlace(loads, o, fields, N, sizes, aligns, at, align),
           end = IF N = 0 THEN 0 ELSE at[N] + sizes[N],
           NEW whole, whole = Aligned(end, align)
    PROVE  At(Struct(loads), o, Record(fields), whole, align)
<1> DEFINE parts == Stored(fields)
<1>1. \A i \in 1 .. N : /\ Stands(fields[i]) /\ Reads(loads[i], o + at[i], fields[i])
                        /\ parts[i].size = sizes[i] /\ parts[i].align = aligns[i]
  <2> SUFFICES ASSUME NEW i \in 1 .. N
               PROVE  /\ Stands(fields[i]) /\ Reads(loads[i], o + at[i], fields[i])
                      /\ parts[i].size = sizes[i] /\ parts[i].align = aligns[i]
    OBVIOUS
  <2>1. At(loads[i], o + at[i], fields[i], sizes[i], aligns[i])
    BY DEF InPlace
  <2>2. parts[i] = fields[i].stored
    BY DEF Stored, Tuple
  <2>3. /\ Stands(fields[i]) /\ Reads(loads[i], o + at[i], fields[i])
        /\ fields[i].stored.size = sizes[i] /\ fields[i].stored.align = aligns[i]
    BY <2>1 DEF At, Spans
  <2> QED
    BY <2>2, <2>3
<1> HIDE DEF parts
<1>2. Placement(parts, N, at, end)
  <2>1. ASSUME NEW i \in 1 .. N
        PROVE  at[i] = IF i = 1 THEN 0 ELSE Aligned(at[i - 1] + parts[i - 1].size, parts[i].align)
    <3>1. i # 1 => i - 1 \in 1 .. N
      OBVIOUS
    <3> QED
      BY <1>1, <3>1 DEF InPlace
  <2>2. N # 0 => N \in 1 .. N
    OBVIOUS
  <2>3. end = IF N = 0 THEN 0 ELSE at[N] + parts[N].size
    BY <1>1, <2>2
  <2> QED
    BY <2>1, <2>3 DEF Placement
<1>3. Widest(parts, N, align)
  BY <1>1 DEF Widest, InPlace
<1> QED
  BY <1>1, <1>2, <1>3, AtRecord DEF parts

\* A load reads a type that needs no more room than there is.
Room(load, o, t, size, align) ==
    Stands(t) /\ Reads(load, o, t) /\ t.stored.size <= size /\ t.stored.align <= align

LEMMA AtCases ==
    ASSUME NEW o \in Nat, NEW N \in Nat, NEW cases, Tuple(cases, N), NEW loads, Tuple(loads, N),
           NEW size \in Nat, NEW align \in Aligns, NEW q, q = o + align,
           \A i \in 1 .. N : Room(loads[i], q, cases[i], size, align),
           size = 0 \/ \E i \in 1 .. N : cases[i].stored.size = size,
           align = 1 \/ \E i \in 1 .. N : cases[i].stored.align = align,
           NEW whole, whole = Aligned(align + size, align)
    PROVE  At(Switch(o, loads), o, Variant(cases), whole, align)
<1>1. Spacious(cases, size, align)
  <2>1. DOMAIN cases = 1 .. N
    BY DEF Tuple
  <2> QED
    BY <2>1 DEF Spacious, Room
<1>2. \A i \in 1 .. N : Stands(cases[i]) /\ Reads(loads[i], o + align, cases[i])
  BY DEF Room
<1> QED
  BY <1>1, <1>2, AtVariant

LEMMA RoomFor ==
    ASSUME NEW load, NEW o, NEW t, NEW s, NEW a, At(load, o, t, s, a),
           NEW size \in Nat, NEW align \in Nat, s <= size, a <= align
    PROVE  Room(load, o, t, size, align)
BY AtPart DEF Room

LEMMA AtByte == ASSUME NEW o \in Nat PROVE At(Byte(o), o, Scalar(1), 1, 1)
<1>1. 1 \in Aligns
  BY DEF Aligns
<1> QED
  BY <1>1, AtScalar DEF Byte
LEMMA AtHalf == ASSUME NEW o \in Nat PROVE At(Half(o), o, Scalar(2), 2, 2)
<1>1. 2 \in Aligns
  BY DEF Aligns
<1> QED
  BY <1>1, AtScalar DEF Half
LEMMA AtWord == ASSUME NEW o \in Nat PROVE At(Word(o), o, Scalar(4), 4, 4)
<1>1. 4 \in Aligns
  BY DEF Aligns
<1> QED
  BY <1>1, AtScalar DEF Word
LEMMA AtLong == ASSUME NEW o \in Nat PROVE At(Long(o), o, Scalar(8), 8, 8)
<1>1. 8 \in Aligns
  BY DEF Aligns
<1> QED
  BY <1>1, AtScalar DEF Long

-----------------------------------------------------------------------------
(* Loads that occur in many answers.                                      *)

LEMMA ScalarValued == ASSUME NEW size \in Aligns PROVE Valued(Scalar(size))
BY ScalarSpans DEF Spans, Stands, Valued

LEMMA TextValued == Valued(List(Scalar(1)))
<1>1. Valued(Scalar(1)) /\ 0 \in Nat
  BY ScalarValued DEF Aligns
<1> QED
  BY <1>1, AtList, AtFacts DEF Stands, Valued

LEMMA AtText == ASSUME NEW o \in Nat PROVE At(Span(o), o, List(Scalar(1)), 8, 4)
<1>1. Valued(Scalar(1))
  BY ScalarValued DEF Aligns
<1> QED
  BY <1>1, AtList

\* Of the cases one holds something.
LEMMA AtCase ==
    ASSUME NEW o \in Nat, NEW N \in Nat, NEW cases, Tuple(cases, N), NEW loads, Tuple(loads, N),
           NEW k \in 1 .. N, NEW q, NEW s, NEW a, At(loads[k], q, cases[k], s, a), q = o + a,
           \A i \in 1 .. N : i # k => cases[i] = Void /\ loads[i] = None,
           NEW whole, whole = Aligned(a + s, a)
    PROVE  At(Switch(o, loads), o, Variant(cases), whole, a)
<1>1. /\ s \in Nat /\ a \in Aligns /\ a \in Nat /\ 0 <= s /\ 1 <= a /\ q \in Nat
      /\ cases[k].stored.size = s /\ cases[k].stored.align = a
  BY AtPart DEF Aligns
<1>2. Room(loads[k], q, cases[k], s, a)
  BY <1>1, RoomFor
<1>3. Room(None, q, Void, s, a)
  BY <1>1, AtVoid, RoomFor
<1>4. \A i \in 1 .. N : Room(loads[i], q, cases[i], s, a)
  BY <1>2, <1>3
<1> QED
  BY <1>1, <1>4, AtCases

LEMMA ErrorAt ==
    ASSUME NEW o \in Nat
    PROVE  At(Switch(o, <<None, None, Span(o + 4)>>), o,
           Variant(<<Void, Void, List(Scalar(1))>>), 12, 4)
<1> DEFINE cases == <<Void, Void, List(Scalar(1))>>
           loads == <<None, None, Span(o + 4)>>
<1>1. At(Span(o + 4), o + 4, List(Scalar(1)), 8, 4)
  BY AtText
<1>2. /\ Tuple(cases, 3) /\ Tuple(loads, 3) /\ cases[3] = List(Scalar(1)) /\ loads[3] = Span(o + 4)
      /\ \A i \in 1 .. 3 : i # 3 => cases[i] = Void /\ loads[i] = None
  BY DEF Tuple
<1>3. 12 = Aligned(4 + 8, 4) /\ 3 \in Nat /\ 3 \in 1 .. 3
  BY DEF Aligned
<1> HIDE DEF cases, loads
<1>4. At(Switch(o, loads), o, Variant(cases), 12, 4)
  BY <1>1, <1>2, <1>3, AtCase
<1> QED
  BY <1>4 DEF cases, loads

LEMMA KeyValueErrorAt ==
    ASSUME NEW o \in Nat
    PROVE  At(key_value_error_at(o), o, Variant(<<Void, Void, Void, List(Scalar(1))>>), 12, 4)
<1> DEFINE n == 4
           cases == <<Void, Void, Void, List(Scalar(1))>>
           loads == <<None, None, None, Span(o + 4)>>
<1>1. At(Span(o + 4), o + 4, List(Scalar(1)), 8, 4)
  BY AtText
<1>2. /\ Tuple(cases, n) /\ Tuple(loads, n) /\ cases[n] = List(Scalar(1)) /\ loads[n] = Span(o + 4)
      /\ \A i \in 1 .. n : i # n => cases[i] = Void /\ loads[i] = None
  BY DEF Tuple
<1>3. 12 = Aligned(4 + 8, 4) /\ n \in Nat /\ n \in 1 .. n
  BY DEF Aligned
<1> HIDE DEF cases, loads, n
<1>4. At(Switch(o, loads), o, Variant(cases), 12, 4)
  <2>1. At(loads[n], o + 4, cases[n], 8, 4)
    BY <1>1, <1>2
  <2> QED
    BY <1>2, <1>3, <2>1, AtCase
<1> QED
  BY <1>4 DEF cases, loads, key_value_error_at

LEMMA StreamErrorAt ==
    ASSUME NEW o \in Nat
    PROVE  At(stream_error_at(o), o, Variant(<<Scalar(4), Void>>), 8, 4)
<1>1. At(Word(o + 4), o + 4, Scalar(4), 4, 4) /\ At(None, o + 4, Void, 0, 1)
  BY AtWord, AtVoid
<1>2. TwoCases(o, o + 4, 4, 4, 0, 1, 8, 4)
  BY DEF TwoCases, Larger, Aligned
<1> QED
  BY <1>1, <1>2, AtResult DEF stream_error_at

LEMMA HeaderErrorAt ==
    ASSUME NEW o \in Nat
    PROVE  At(header_error_at(o), o, Variant(<<Void, Void, Void>>), 1, 1)
<1> DEFINE cases == <<Void, Void, Void>>
           loads == <<None, None, None>>
<1>1. At(None, o + 1, Void, 0, 1)
  BY AtVoid
<1>2. /\ Tuple(cases, 3) /\ Tuple(loads, 3) /\ cases[3] = Void /\ loads[3] = None
      /\ \A i \in 1 .. 3 : i # 3 => cases[i] = Void /\ loads[i] = None
  BY DEF Tuple
<1>3. 1 = Aligned(1 + 0, 1) /\ 3 \in Nat /\ 3 \in 1 .. 3
  BY DEF Aligned
<1> HIDE DEF cases, loads
<1>4. At(Switch(o, loads), o, Variant(cases), 1, 1)
  BY <1>1, <1>2, <1>3, AtCase
<1> QED
  BY <1>4 DEF cases, loads, header_error_at

LEMMA MethodAt ==
    ASSUME NEW o \in Nat
    PROVE  At(method_at(o), o,
              Variant(<<Void, Void, Void, Void, Void, Void, Void, Void, Void, List(Scalar(1))>>), 12, 4)
<1> DEFINE n == 10
           cases == <<Void, Void, Void, Void, Void, Void, Void, Void, Void, List(Scalar(1))>>
           loads == [k \in 1 .. 10 |-> IF k - 1 = 9 THEN Span(o + 4) ELSE None]
<1>1. At(Span(o + 4), o + 4, List(Scalar(1)), 8, 4)
  BY AtText
<1>2. /\ Tuple(cases, n) /\ cases[n] = List(Scalar(1))
      /\ \A i \in 1 .. n : i # n => cases[i] = Void
  BY DEF Tuple
<1>3. /\ Tuple(loads, n) /\ loads[n] = Span(o + 4)
      /\ \A i \in 1 .. n : i # n => loads[i] = None
  BY DEF Tuple
<1>4. 12 = Aligned(4 + 8, 4) /\ n \in Nat /\ n \in 1 .. n
  BY DEF Aligned
<1> HIDE DEF cases, loads, n
<1>5. At(Switch(o, loads), o, Variant(cases), 12, 4)
  BY <1>1, <1>2, <1>3, <1>4, AtCase
<1> QED
  BY <1>5 DEF cases, loads, method_at

\* Scalars of one size in turn.
LEMMA AtScalars ==
    ASSUME NEW o \in Nat, NEW N \in Nat \ {0}, NEW size \in Aligns,
           NEW fields, Tuple(fields, N), NEW loads, Tuple(loads, N),
           \A i \in 1 .. N : fields[i] = Scalar(size)
               /\ loads[i] = Integer(o + (i - 1) * size, size)
    PROVE  At(Struct(loads), o, Record(fields), N * size, size)
<1> DEFINE at == [i \in 1 .. N |-> (i - 1) * size]
           sizes == [i \in 1 .. N |-> size]
<1>1. size \in Nat /\ 1 <= size /\ \A m \in Nat : m * size \in Nat
          /\ Aligned(m * size, size) = m * size
  BY DEF Aligns, Aligned
<1>2. at \in [1 .. N -> Nat] /\ \A i \in 1 .. N : at[i] = (i - 1) * size /\ sizes[i] = size
  BY <1>1
<1>3. at[1] = 0 /\ at[N] + sizes[N] = N * size /\ 1 \in 1 .. N
  BY <1>1, <1>2 DEF Aligns
<1> HIDE DEF at, sizes
<1>4. \A i \in 1 .. N : At(loads[i], o + at[i], fields[i], sizes[i], sizes[i])
  BY <1>2, AtScalar
<1>5. ASSUME NEW i \in 1 .. N
      PROVE  at[i] = IF i = 1 THEN 0 ELSE Aligned(at[i - 1] + sizes[i - 1], sizes[i])
  <2>1. CASE i = 1
    BY <2>1, <1>3
  <2>2. CASE i # 1
    <3>1. i - 1 \in 1 .. N /\ i - 1 \in Nat /\ (i - 1 - 1) * size + size = (i - 1) * size
      BY <2>2, <1>1 DEF Aligns
    <3> QED
      BY <1>1, <1>2, <2>2, <3>1
  <2> QED
    BY <2>1, <2>2
<1>6. \A i \in 1 .. N : /\ At(loads[i], o + at[i], fields[i], sizes[i], sizes[i])
                        /\ at[i] = IF i = 1 THEN 0 ELSE Aligned(at[i - 1] + sizes[i - 1], sizes[i])
                        /\ sizes[i] <= size
  <2> SUFFICES ASSUME NEW i \in 1 .. N
               PROVE  /\ At(loads[i], o + at[i], fields[i], sizes[i], sizes[i])
                      /\ at[i] = IF i = 1 THEN 0 ELSE Aligned(at[i - 1] + sizes[i - 1], sizes[i])
                      /\ sizes[i] <= size
    OBVIOUS
  <2>1. At(loads[i], o + at[i], fields[i], sizes[i], sizes[i])
    BY <1>4
  <2>2. at[i] = IF i = 1 THEN 0 ELSE Aligned(at[i - 1] + sizes[i - 1], sizes[i])
    BY <1>5
  <2>3. sizes[i] <= size
    BY <1>1, <1>2
  <2> QED
    BY <2>1, <2>2, <2>3
<1> DEFINE end == N * size
<1>7. end = IF N = 0 THEN 0 ELSE at[N] + sizes[N]
  BY <1>3
<1>8. end = Aligned(end, size) /\ N \in Nat /\ \E i \in 1 .. N : sizes[i] = size
  BY <1>1, <1>2, <1>3
<1> HIDE DEF end
<1>9. InPlace(loads, o, fields, N, sizes, sizes, at, size)
  BY <1>6, <1>8 DEF InPlace
<1>10. At(Struct(loads), o, Record(fields), end, size)
  BY <1>2, <1>7, <1>8, <1>9, AtFields
<1> QED
  BY <1>10 DEF end

Ipv4 == Record(<<Scalar(1), Scalar(1), Scalar(1), Scalar(1)>>)
Ipv6 == Record(<<Scalar(2), Scalar(2), Scalar(2), Scalar(2), Scalar(2), Scalar(2), Scalar(2), Scalar(2)>>)

LEMMA Ipv4At ==
    ASSUME NEW o \in Nat, NEW loads, Tuple(loads, 4), \A i \in 1 .. 4 : loads[i] = Byte(o + (i - 1))
    PROVE  At(Struct(loads), o, Ipv4, 4, 1)
<1> DEFINE fields == <<Scalar(1), Scalar(1), Scalar(1), Scalar(1)>>
           n == 4
<1>1. Tuple(fields, n) /\ \A i \in 1 .. n : fields[i] = Scalar(1)
  BY DEF Tuple
<1>2. \A i \in 1 .. n : loads[i] = Integer(o + (i - 1) * 1, 1)
  BY DEF Byte
<1>3. 1 \in Aligns /\ n \in Nat \ {0} /\ n * 1 = 4
  BY DEF Aligns
<1>4. Tuple(loads, n)
  OBVIOUS
<1> HIDE DEF fields, n
<1>5. At(Struct(loads), o, Record(fields), n * 1, 1)
  BY <1>1, <1>2, <1>3, <1>4, AtScalars
<1> QED
  BY <1>3, <1>5 DEF fields, Ipv4

LEMMA Ipv6At ==
    ASSUME NEW o \in Nat, NEW loads, Tuple(loads, 8), \A i \in 1 .. 8 : loads[i]
           = Half(o + (i - 1) * 2)
    PROVE  At(Struct(loads), o, Ipv6, 16, 2)
<1> DEFINE fields == <<Scalar(2), Scalar(2), Scalar(2), Scalar(2), Scalar(2), Scalar(2), Scalar(2),
                       Scalar(2)>>
           n == 8
<1>1. Tuple(fields, n) /\ \A i \in 1 .. n : fields[i] = Scalar(2)
  BY DEF Tuple
<1>2. \A i \in 1 .. n : loads[i] = Integer(o + (i - 1) * 2, 2)
  BY DEF Half
<1>3. 2 \in Aligns /\ n \in Nat \ {0} /\ n * 2 = 16
  BY DEF Aligns
<1>4. Tuple(loads, n)
  OBVIOUS
<1> HIDE DEF fields, n
<1>5. At(Struct(loads), o, Record(fields), n * 2, 2)
  BY <1>1, <1>2, <1>3, <1>4, AtScalars
<1> QED
  BY <1>3, <1>5 DEF fields, Ipv6

LEMMA TripleAt ==
    At(Struct(<<Word(4), Word(8), Word(12)>>), 4, Record(<<Scalar(4), Scalar(4), Scalar(4)>>),
        12, 4)
<1> DEFINE fields == <<Scalar(4), Scalar(4), Scalar(4)>>
           loads == <<Word(4), Word(8), Word(12)>>
           n == 3
<1>1. /\ Tuple(fields, n) /\ \A i \in 1 .. n : fields[i] = Scalar(4)
      /\ Tuple(loads, n)
  BY DEF Tuple
<1>2. \A i \in 1 .. n : loads[i] = Integer(4 + (i - 1) * 4, 4)
  BY DEF Word
<1>3. 4 \in Aligns /\ n \in Nat \ {0} /\ n * 4 = 12
  BY DEF Aligns
<1> HIDE DEF fields, loads, n
<1>5. At(Struct(loads), 4, Record(fields), n * 4, 4)
  BY <1>1, <1>2, <1>3, AtScalars
<1> QED
  BY <1>3, <1>5 DEF fields, loads

Ipv4Socket == Record(<<Scalar(2), Ipv4>>)
Ipv6Socket == Record(<<Scalar(2), Scalar(4), Ipv6, Scalar(4)>>)

IpSocketAddress == Variant(<<Ipv4Socket, Ipv6Socket>>)

LEMMA IpSocketAddressAt ==
    ASSUME NEW o \in Nat
    PROVE  At(ip_socket_address_at(o), o, IpSocketAddress, 32, 4)
<1> DEFINE p == o + 4
           four == [k \in 1 .. 4 |-> Byte(p + 1 + k)]
           six == [k \in 1 .. 8 |-> Half(p + 6 + 2 * k)]
<1>1. At(Struct(<<Half(p), Struct(four)>>), p, Ipv4Socket, 6, 2)
  <2>1. At(Half(p), p, Scalar(2), 2, 2)
    BY AtHalf
  <2>2. At(Struct(four), p + 2, Ipv4, 4, 1)
    <3>1. Tuple(four, 4) /\ \A i \in 1 .. 4 : four[i] = Byte((p + 2) + (i - 1))
      <4>1. \A i \in 1 .. 4 : p + 1 + i = (p + 2) + (i - 1)
        OBVIOUS
      <4> QED
        BY <4>1 DEF Tuple
    <3>2. p + 2 \in Nat
      OBVIOUS
    <3> HIDE DEF four, p
    <3> QED
      BY <3>1, <3>2, Ipv4At
  <2>3. TwoFields(p, p + 2, 2, 2, 4, 1, 6, 2)
    BY DEF TwoFields, Larger, Aligned
  <2>4. p \in Nat
    OBVIOUS
  <2> HIDE DEF p, four
  <2> QED
    BY <2>1, <2>2, <2>3, <2>4, AtPair DEF Ipv4Socket
<1>2. At(Struct(<<Half(p), Word(p + 4), Struct(six), Word(p + 24)>>), p, Ipv6Socket, 28, 4)
  <2> DEFINE fields == <<Scalar(2), Scalar(4), Ipv6, Scalar(4)>>
             loads == <<Half(p), Word(p + 4), Struct(six), Word(p + 24)>>
             sizes == <<2, 4, 16, 4>>
             aligns == <<2, 4, 2, 4>>
             at == <<0, 4, 8, 24>>
             n == 4
  <2>1. At(Half(p), p + 0, Scalar(2), 2, 2)
    BY AtHalf
  <2>2. At(Word(p + 4), p + 4, Scalar(4), 4, 4) /\ At(Word(p + 24), p + 24, Scalar(4), 4, 4)
    BY AtWord
  <2>3. At(Struct(six), p + 8, Ipv6, 16, 2)
    <3>1. Tuple(six, 8) /\ \A i \in 1 .. 8 : six[i] = Half((p + 8) + (i - 1) * 2)
      <4>1. \A i \in 1 .. 8 : p + 6 + 2 * i = (p + 8) + (i - 1) * 2
        OBVIOUS
      <4> QED
        BY <4>1 DEF Tuple
    <3>2. p + 8 \in Nat
      OBVIOUS
    <3> HIDE DEF six, p
    <3> QED
      BY <3>1, <3>2, Ipv6At
  <2>4. p \in Nat
    OBVIOUS
  <2> HIDE DEF p, six
  <2>5. /\ Tuple(fields, n) /\ Tuple(loads, n) /\ at \in [1 .. n -> Nat]
        /\ n \in Nat /\ 4 \in Aligns /\ 28 = Aligned(28, 4)
    BY DEF Tuple, Aligns, Aligned
  <2>6. /\ 4 = Aligned(0 + 2, 4) /\ 8 = Aligned(4 + 4, 2) /\ 24 = Aligned(8 + 16, 4)
    BY DEF Aligned
  <2>7. /\ At(loads[1], p + at[1], fields[1], sizes[1], aligns[1])
        /\ At(loads[2], p + at[2], fields[2], sizes[2], aligns[2])
        /\ At(loads[3], p + at[3], fields[3], sizes[3], aligns[3])
        /\ At(loads[4], p + at[4], fields[4], sizes[4], aligns[4])
    BY <2>1, <2>2, <2>3
  <2>8. /\ at[1] = 0 /\ at[2] = Aligned(at[1] + sizes[1], aligns[2])
        /\ at[3] = Aligned(at[2] + sizes[2], aligns[3])
           /\ at[4] = Aligned(at[3] + sizes[3], aligns[4])
        /\ 28 = at[4] + sizes[4]
        /\ aligns[1] <= 4 /\ aligns[2] = 4 /\ aligns[3] <= 4 /\ aligns[4] <= 4
    BY <2>6
  <2>9. \A i \in 1 .. 4 : i = 1 \/ i = 2 \/ i = 3 \/ i = 4
    OBVIOUS
  <2> HIDE DEF fields, loads, sizes, aligns, at
  <2>10. InPlace(loads, p, fields, 4, sizes, aligns, at, 4)
    BY <2>7, <2>8, <2>9 DEF InPlace
  <2>11. InPlace(loads, p, fields, n, sizes, aligns, at, 4)
             /\ 28 = IF n = 0 THEN 0 ELSE at[n] + sizes[n]
    BY <2>8, <2>10
  <2> HIDE DEF n
  <2>12. At(Struct(loads), p, Record(fields), 28, 4)
    BY <2>4, <2>5, <2>11, AtFields
  <2> QED
    BY <2>12 DEF fields, loads, Ipv6Socket
<1>3. TwoCases(o, p, 6, 2, 28, 4, 32, 4)
  BY DEF TwoCases, Larger, Aligned
<1> DEFINE x == Struct(<<Half(p), Struct(four)>>)
           y == Struct(<<Half(p), Word(p + 4), Struct(six), Word(p + 24)>>)
<1>4. ip_socket_address_at(o) = Switch(o, <<x, y>>)
  BY DEF ip_socket_address_at
<1> HIDE DEF p, x, y
<1>5. At(Switch(o, <<x, y>>), o, Variant(<<Ipv4Socket, Ipv6Socket>>), 32, 4)
  BY <1>1, <1>2, <1>3, AtResult DEF x, y
<1> QED
  BY <1>4, <1>5 DEF IpSocketAddress

LEMMA AtOption ==
    ASSUME NEW o \in Nat, NEW x, NEW t, NEW s, NEW a, NEW q, At(x, q, t, s, a), q = o + a,
           NEW whole, whole = Aligned(a + s, a)
    PROVE  At(Switch(o, <<None, x>>), o, Variant(<<Void, t>>), whole, a)
<1>1. s \in Nat /\ a \in Nat /\ q \in Nat /\ 1 <= a
  BY AtPart DEF Aligns
<1>2. At(None, q, Void, 0, 1)
  BY <1>1, AtVoid
<1>3. TwoCases(o, q, 0, 1, s, a, whole, a)
  BY <1>1 DEF TwoCases, Larger
<1> QED
  BY <1>2, <1>3, AtResult

\* A text, or a number, that may be missing.
OptionText == Variant(<<Void, List(Scalar(1))>>)
OptionNumber(size) == Variant(<<Void, Scalar(size)>>)
FieldSize == Record(<<OptionText, OptionNumber(4)>>)

LEMMA OptionTextAt ==
    ASSUME NEW o \in Nat, NEW q, q = o + 4
    PROVE  At(Switch(o, <<None, Span(q)>>), o, OptionText, 12, 4)
<1>1. At(Span(q), q, List(Scalar(1)), 8, 4)
  BY AtText
<1>2. 12 = Aligned(4 + 8, 4)
  BY DEF Aligned
<1> QED
  BY <1>1, <1>2, AtOption DEF OptionText

LEMMA OptionByteAt ==
    ASSUME NEW o \in Nat, NEW q, q = o + 1
    PROVE  At(Switch(o, <<None, Byte(q)>>), o, OptionNumber(1), 2, 1)
<1>1. At(Byte(q), q, Scalar(1), 1, 1)
  BY AtByte
<1>2. 2 = Aligned(1 + 1, 1)
  BY DEF Aligned
<1> QED
  BY <1>1, <1>2, AtOption DEF OptionNumber

LEMMA OptionHalfAt ==
    ASSUME NEW o \in Nat, NEW q, q = o + 2
    PROVE  At(Switch(o, <<None, Half(q)>>), o, OptionNumber(2), 4, 2)
<1>1. At(Half(q), q, Scalar(2), 2, 2)
  BY AtHalf
<1>2. 4 = Aligned(2 + 2, 2)
  BY DEF Aligned
<1> QED
  BY <1>1, <1>2, AtOption DEF OptionNumber

LEMMA OptionWordAt ==
    ASSUME NEW o \in Nat, NEW q, q = o + 4
    PROVE  At(Switch(o, <<None, Word(q)>>), o, OptionNumber(4), 8, 4)
<1>1. At(Word(q), q, Scalar(4), 4, 4)
  BY AtWord
<1>2. 8 = Aligned(4 + 4, 4)
  BY DEF Aligned
<1> QED
  BY <1>1, <1>2, AtOption DEF OptionNumber

LEMMA OptionLongAt ==
    ASSUME NEW o \in Nat, NEW q, q = o + 8
    PROVE  At(Switch(o, <<None, Long(q)>>), o, OptionNumber(8), 16, 8)
<1>1. At(Long(q), q, Scalar(8), 8, 8)
  BY AtLong
<1>2. 16 = Aligned(8 + 8, 8)
  BY DEF Aligned
<1> QED
  BY <1>1, <1>2, AtOption DEF OptionNumber

LEMMA FieldSizeAt ==
    ASSUME NEW o \in Nat
    PROVE  At(Struct(<<Switch(o, <<None, Span(o + 4)>>), Switch(o + 12, <<None, Word(o + 16)>>)>>), o,
              FieldSize, 20, 4)
<1>1. /\ At(Switch(o, <<None, Span(o + 4)>>), o, OptionText, 12, 4)
      /\ At(Switch(o + 12, <<None, Word(o + 16)>>), o + 12, OptionNumber(4), 8, 4)
  BY OptionTextAt, OptionWordAt
<1>2. TwoFields(o, o + 12, 12, 4, 8, 4, 20, 4)
  BY DEF TwoFields, Larger, Aligned
<1> QED
  BY <1>1, <1>2, AtPair DEF FieldSize

Dns == Record(<<OptionText, OptionNumber(2)>>)
Tls == Record(<<OptionNumber(1), OptionText>>)

LEMMA DnsAt ==
    ASSUME NEW o \in Nat
    PROVE  At(Struct(<<Switch(o, <<None, Span(o + 4)>>), Switch(o + 12, <<None, Half(o + 14)>>)>>), o,
              Dns, 16, 4)
<1>1. /\ At(Switch(o, <<None, Span(o + 4)>>), o, OptionText, 12, 4)
      /\ At(Switch(o + 12, <<None, Half(o + 14)>>), o + 12, OptionNumber(2), 4, 2)
  BY OptionTextAt, OptionHalfAt
<1>2. TwoFields(o, o + 12, 12, 4, 4, 2, 16, 4)
  BY DEF TwoFields, Larger, Aligned
<1> QED
  BY <1>1, <1>2, AtPair DEF Dns

LEMMA TlsAt ==
    ASSUME NEW o \in Nat
    PROVE  At(Struct(<<Switch(o, <<None, Byte(o + 1)>>), Switch(o + 4, <<None, Span(o + 8)>>)>>), o,
              Tls, 16, 4)
<1>1. /\ At(Switch(o, <<None, Byte(o + 1)>>), o, OptionNumber(1), 2, 1)
      /\ At(Switch(o + 4, <<None, Span(o + 8)>>), o + 4, OptionText, 12, 4)
  BY OptionTextAt, OptionByteAt
<1>2. TwoFields(o, o + 4, 2, 1, 12, 4, 16, 4)
  BY DEF TwoFields, Larger, Aligned
<1> QED
  BY <1>1, <1>2, AtPair DEF Tls

HttpErrorCode ==
    Variant(<<Void, Dns, Void, Void, Void, Void, Void, Void,
              Void, Void, Void, Void, Void, Void, Tls, Void,
              Void, OptionNumber(8), Void, Void, Void, OptionNumber(4),
              Variant(<<Void, FieldSize>>), OptionNumber(4), FieldSize,
              Void, OptionNumber(4), FieldSize, OptionNumber(8), OptionNumber(4),
              FieldSize, OptionText, OptionText, Void, Void, Void, Void,
              Void, OptionText>>)

LEMMA HttpErrorCodeAt ==
    ASSUME NEW o \in Nat
    PROVE  At(http_error_code_at(o), o, HttpErrorCode, 32, 8)
<1> DEFINE p == o + 8
           text == Switch(p, <<None, Span(p + 4)>>)
           word == Switch(p, <<None, Word(p + 4)>>)
           long == Switch(p, <<None, Long(p + 8)>>)
           field_size(q) == Struct(<<Switch(q, <<None, Span(q + 4)>>), Switch(q + 12, <<None, Word(q + 16)>>)>>)
           size == field_size(p)
           option_size == Switch(p, <<None, field_size(p + 4)>>)
           dns == Struct(<<text, Switch(p + 12, <<None, Half(p + 14)>>)>>)
           tls == Struct(<<Switch(p, <<None, Byte(p + 1)>>), Switch(p + 4, <<None, Span(p + 8)>>)>>)
           cases == <<Void, Dns, Void, Void, Void, Void, Void, Void,
                      Void, Void, Void, Void, Void, Void, Tls, Void,
                      Void, OptionNumber(8), Void, Void, Void, OptionNumber(4),
                      Variant(<<Void, FieldSize>>), OptionNumber(4), FieldSize,
                      Void, OptionNumber(4), FieldSize, OptionNumber(8), OptionNumber(4),
                      FieldSize, OptionText, OptionText, Void, Void, Void, Void,
                      Void, OptionText>>
           loads == [n \in 1 .. 39 |->
              CASE n - 1 = 1 -> dns
                [] n - 1 = 14 -> tls
                [] n - 1 \in {17, 28} -> long
                [] n - 1 \in {21, 23, 26, 29} -> word
                [] n - 1 = 22 -> option_size
                [] n - 1 \in {24, 27, 30} -> size
                [] n - 1 \in {31, 32, 38} -> text
                [] OTHER -> None]
<1>1. p \in Nat /\ p + 4 \in Nat /\ 24 \in Nat /\ 8 \in Nat /\ 8 \in Aligns
  BY DEF Aligns
<1>2. http_error_code_at(o) = Switch(o, loads)
  BY DEF http_error_code_at
<1>3. At(text, p, OptionText, 12, 4) /\ Room(text, p, OptionText, 24, 8)
  <2> HIDE DEF p
  <2>1. At(text, p, OptionText, 12, 4)
    BY <1>1, OptionTextAt
  <2> HIDE DEF text
  <2> QED
    BY <1>1, <2>1, RoomFor
<1>4. Room(word, p, OptionNumber(4), 24, 8)
  <2> HIDE DEF p
  <2>1. At(word, p, OptionNumber(4), 8, 4)
    BY <1>1, OptionWordAt
  <2> HIDE DEF word
  <2> QED
    BY <1>1, <2>1, RoomFor
<1>5. Room(long, p, OptionNumber(8), 24, 8) /\ OptionNumber(8).stored.align = 8
  <2> HIDE DEF p
  <2>1. At(long, p, OptionNumber(8), 16, 8)
    BY <1>1, OptionLongAt
  <2> HIDE DEF long
  <2> QED
    BY <1>1, <2>1, RoomFor, AtPart
<1>6. Room(size, p, FieldSize, 24, 8)
  <2> HIDE DEF p
  <2>1. At(size, p, FieldSize, 20, 4)
    BY <1>1, FieldSizeAt
  <2> HIDE DEF size
  <2> QED
    BY <1>1, <2>1, RoomFor
<1>7. Room(option_size, p, Variant(<<Void, FieldSize>>), 24, 8)
          /\ Variant(<<Void, FieldSize>>).stored.size = 24
  <2> HIDE DEF p
  <2>1. At(field_size(p + 4), p + 4, FieldSize, 20, 4)
    BY <1>1, FieldSizeAt
  <2>2. 24 = Aligned(4 + 20, 4)
    BY DEF Aligned
  <2> HIDE DEF field_size
  <2>3. At(option_size, p, Variant(<<Void, FieldSize>>), 24, 4)
    BY <1>1, <2>1, <2>2, AtOption
  <2> HIDE DEF option_size
  <2> QED
    BY <1>1, <2>3, RoomFor, AtPart
<1>8. Room(dns, p, Dns, 24, 8)
  <2> HIDE DEF p
  <2>1. At(dns, p, Dns, 16, 4)
    BY <1>1, DnsAt
  <2> HIDE DEF dns
  <2> QED
    BY <1>1, <2>1, RoomFor
<1>9. Room(tls, p, Tls, 24, 8)
  <2> HIDE DEF p
  <2>1. At(tls, p, Tls, 16, 4)
    BY <1>1, TlsAt
  <2> HIDE DEF tls
  <2> QED
    BY <1>1, <2>1, RoomFor
<1>10. Room(None, p, Void, 24, 8)
  BY <1>1, AtVoid, RoomFor
<1> HIDE DEF p, text, word, long, size, option_size, dns, tls, field_size
<1>11. \A i \in 1 .. 39 : Room(loads[i], p, cases[i], 24, 8)
  <2> SUFFICES ASSUME NEW i \in 1 .. 39 PROVE Room(loads[i], p, cases[i], 24, 8)
    OBVIOUS
  <2>1. CASE i \in {2, 15, 23}
    BY <2>1, <1>7, <1>8, <1>9
  <2>2. CASE i \in {18, 29}
    BY <2>2, <1>5
  <2>3. CASE i \in {22, 24, 27, 30}
    BY <2>3, <1>4
  <2>4. CASE i \in {25, 28, 31}
    BY <2>4, <1>6
  <2>5. CASE i \in {32, 33, 39}
    BY <2>5, <1>3
  <2>6. CASE i \notin {2, 15, 23, 18, 29, 22, 24, 27, 30, 25, 28, 31, 32, 33, 39}
    <3>1. loads[i] = None
      BY <2>6
    <3>2. cases[i] = Void
      <4>1. \/ i \in {1} \/ i \in 3 .. 14 \/ i \in 16 .. 17 \/ i \in 19 .. 21 \/ i \in {26}
            \/ i \in 34 .. 38
        BY <2>6
      <4>2. \A j \in 3 .. 14 : j \in {3, 4, 5, 6, 7, 8, 9, 10, 11, 12, 13, 14}
        OBVIOUS
      <4>3. \A j \in 16 .. 17 : j \in {16, 17}
        OBVIOUS
      <4>4. \A j \in 19 .. 21 : j \in {19, 20, 21}
        OBVIOUS
      <4>5. \A j \in 34 .. 38 : j \in {34, 35, 36, 37, 38}
        OBVIOUS
      <4> QED
        BY <4>1, <4>2, <4>3, <4>4, <4>5
    <3> QED
      BY <3>1, <3>2, <1>10
  <2> QED
    BY <2>1, <2>2, <2>3, <2>4, <2>5, <2>6
<1>12. Tuple(cases, 39) /\ Tuple(loads, 39) /\ 39 \in Nat
  BY DEF Tuple
<1>13. cases[23].stored.size = 24 /\ cases[18].stored.align = 8
  BY <1>5, <1>7
<1>14. p = o + 8 /\ 32 = Aligned(8 + 24, 8)
  BY DEF p, Aligned
<1>15. /\ \E i \in 1 .. 39 : cases[i].stored.size = 24
       /\ \E i \in 1 .. 39 : cases[i].stored.align = 8
  BY <1>13
<1> HIDE DEF cases, loads
<1>16. At(Switch(o, loads), o, Variant(cases), 32, 8)
  BY <1>1, <1>11, <1>12, <1>14, <1>15, AtCases
<1> QED
  BY <1>2, <1>16 DEF cases, HttpErrorCode

-----------------------------------------------------------------------------
(* The answers, by what they are made of.                                 *)

Datetime == Record(<<Scalar(8), Scalar(4)>>)
OptionDatetime == Variant(<<Void, Datetime>>)
Stat == Record(<<Scalar(1), Scalar(8), Scalar(8), OptionDatetime, OptionDatetime, OptionDatetime>>)

LEMMA SecretErrorAt ==
    ASSUME NEW o \in Nat
    PROVE  At(secret_error_at(o), o, Variant(<<Void, Void, List(Scalar(1))>>), 12, 4)
BY ErrorAt DEF secret_error_at

LEMMA CacheErrorAt ==
    ASSUME NEW o \in Nat
    PROVE  At(cache_error_at(o), o, Variant(<<Void, Void, List(Scalar(1))>>), 12, 4)
BY ErrorAt DEF cache_error_at

LEMMA DatetimeAt ==
    ASSUME NEW o \in Nat, NEW q, q = o + 8
    PROVE  At(Struct(<<Long(o), Word(q)>>), o, Datetime, 16, 8)
<1>1. At(Long(o), o, Scalar(8), 8, 8) /\ At(Word(q), q, Scalar(4), 4, 4)
  BY AtLong, AtWord
<1>2. TwoFields(o, q, 8, 8, 4, 4, 16, 8)
  BY DEF TwoFields, Larger, Aligned
<1> QED
  BY <1>1, <1>2, AtPair DEF Datetime

LEMMA OptionDatetimeAt ==
    ASSUME NEW o \in Nat, NEW p, p = o + 8, NEW q, q = p + 8
    PROVE  At(Switch(o, <<None, Struct(<<Long(p), Word(q)>>)>>), o, OptionDatetime, 24, 8)
<1>1. At(Struct(<<Long(p), Word(q)>>), p, Datetime, 16, 8)
  BY DatetimeAt
<1>2. 24 = Aligned(8 + 16, 8)
  BY DEF Aligned
<1> QED
  BY <1>1, <1>2, AtOption DEF OptionDatetime

StatLoad ==
    Struct(<<Byte(8), Long(16), Long(24), Switch(32, <<None, Struct(<<Long(40), Word(48)>>)>>),
             Switch(56, <<None, Struct(<<Long(64), Word(72)>>)>>),
             Switch(80, <<None, Struct(<<Long(88), Word(96)>>)>>)>>)

LEMMA StatAt == At(StatLoad, 8, Stat, 96, 8)
<1> DEFINE x == Switch(32, <<None, Struct(<<Long(40), Word(48)>>)>>)
           y == Switch(56, <<None, Struct(<<Long(64), Word(72)>>)>>)
           z == Switch(80, <<None, Struct(<<Long(88), Word(96)>>)>>)
           fields == <<Scalar(1), Scalar(8), Scalar(8), OptionDatetime, OptionDatetime,
               OptionDatetime>>
           loads == <<Byte(8), Long(16), Long(24), x, y, z>>
           sizes == <<1, 8, 8, 24, 24, 24>>
           aligns == <<1, 8, 8, 8, 8, 8>>
           at == <<0, 8, 16, 24, 48, 72>>
           n == 6
<1>1. At(Byte(8), 8, Scalar(1), 1, 1) /\ At(Long(16), 16, Scalar(8), 8, 8)
          /\ At(Long(24), 24, Scalar(8), 8, 8)
  BY AtByte, AtLong
<1>2. At(x, 32, OptionDatetime, 24, 8) /\ At(y, 56, OptionDatetime, 24, 8)
          /\ At(z, 80, OptionDatetime, 24, 8)
  BY OptionDatetimeAt
<1> HIDE DEF x, y, z
<1>3. /\ Tuple(fields, n) /\ Tuple(loads, n) /\ at \in [1 .. n -> Nat]
      /\ n \in Nat /\ 8 \in Aligns /\ 8 \in Nat /\ 96 = Aligned(96, 8)
  BY DEF Tuple, Aligns, Aligned
<1>4. 8 = Aligned(0 + 1, 8) /\ 16 = Aligned(8 + 8, 8) /\ 24 = Aligned(16 + 8, 8)
          /\ 48 = Aligned(24 + 24, 8)
      /\ 72 = Aligned(48 + 24, 8)
  BY DEF Aligned
<1>5. /\ At(loads[1], 8 + at[1], fields[1], sizes[1], aligns[1])
      /\ At(loads[2], 8 + at[2], fields[2], sizes[2], aligns[2])
      /\ At(loads[3], 8 + at[3], fields[3], sizes[3], aligns[3])
      /\ At(loads[4], 8 + at[4], fields[4], sizes[4], aligns[4])
      /\ At(loads[5], 8 + at[5], fields[5], sizes[5], aligns[5])
      /\ At(loads[6], 8 + at[6], fields[6], sizes[6], aligns[6])
  BY <1>1, <1>2
<1>6. /\ at[1] = 0 /\ at[2] = Aligned(at[1] + sizes[1], aligns[2])
      /\ at[3] = Aligned(at[2] + sizes[2], aligns[3])
         /\ at[4] = Aligned(at[3] + sizes[3], aligns[4])
      /\ at[5] = Aligned(at[4] + sizes[4], aligns[5])
         /\ at[6] = Aligned(at[5] + sizes[5], aligns[6])
      /\ 96 = at[6] + sizes[6]
      /\ aligns[1] <= 8 /\ aligns[2] = 8 /\ aligns[3] <= 8 /\ aligns[4] <= 8 /\ aligns[5] <= 8
         /\ aligns[6] <= 8
  BY <1>4
<1>7. \A i \in 1 .. 6 : i = 1 \/ i = 2 \/ i = 3 \/ i = 4 \/ i = 5 \/ i = 6
  OBVIOUS
<1> HIDE DEF fields, loads, sizes, aligns, at
<1>8. InPlace(loads, 8, fields, 6, sizes, aligns, at, 8)
  BY <1>5, <1>6, <1>7 DEF InPlace
<1>9. InPlace(loads, 8, fields, n, sizes, aligns, at, 8)
          /\ 96 = IF n = 0 THEN 0 ELSE at[n] + sizes[n]
  BY <1>6, <1>8
<1> HIDE DEF n
<1>10. At(Struct(loads), 8, Record(fields), 96, 8)
  BY <1>3, <1>9, AtFields
<1> QED
  BY <1>10 DEF fields, loads, x, y, z, Stat, StatLoad

LEMMA TextAndLongValued == Valued(Record(<<List(Scalar(1)), Scalar(8)>>))
<1>1. At(Span(0), 0, List(Scalar(1)), 8, 4)
  BY AtText
<1>2. At(Long(8), 8, Scalar(8), 8, 8)
  BY AtLong
<1>3. TwoFields(0, 8, 8, 4, 8, 8, 16, 8)
  BY DEF TwoFields, Larger, Aligned
<1>4. At(Struct(<<Span(0), Long(8)>>), 0, Record(<<List(Scalar(1)), Scalar(8)>>), 16, 8)
  BY <1>1, <1>2, <1>3, AtPair
<1> QED
  BY <1>4, AtFacts DEF Stands, Valued

LEMMA TextsValued == Valued(Record(<<List(Scalar(1)), List(Scalar(1))>>))
<1>1. At(Span(0), 0, List(Scalar(1)), 8, 4)
  BY AtText
<1>2. At(Span(8), 8, List(Scalar(1)), 8, 4)
  BY AtText
<1>3. TwoFields(0, 8, 8, 4, 8, 4, 16, 4)
  BY DEF TwoFields, Larger, Aligned
<1>4. At(Struct(<<Span(0), Span(8)>>), 0, Record(<<List(Scalar(1)), List(Scalar(1))>>), 16, 4)
  BY <1>1, <1>2, <1>3, AtPair
<1> QED
  BY <1>4, AtFacts DEF Stands, Valued

LEMMA NumberValued == Valued(Scalar(4))
<1>1. 4 \in Aligns
  BY DEF Aligns
<1> QED
  BY <1>1, ScalarValued

LEMMA WordAndTextValued == Valued(Record(<<Scalar(4), List(Scalar(1))>>))
<1>1. At(Word(0), 0, Scalar(4), 4, 4)
  BY AtWord
<1>2. At(Span(4), 4, List(Scalar(1)), 8, 4)
  BY AtText
<1>3. TwoFields(0, 4, 4, 4, 8, 4, 12, 4)
  BY DEF TwoFields, Larger, Aligned
<1>4. At(Struct(<<Word(0), Span(4)>>), 0, Record(<<Scalar(4), List(Scalar(1))>>), 12, 4)
  BY <1>1, <1>2, <1>3, AtPair
<1> QED
  BY <1>4, AtFacts DEF Stands, Valued

LEMMA DatagramValued == Valued(Record(<<List(Scalar(1)), IpSocketAddress>>))
<1>1. At(Span(0), 0, List(Scalar(1)), 8, 4)
  BY AtText
<1>2. At(ip_socket_address_at(8), 8, IpSocketAddress, 32, 4)
  BY IpSocketAddressAt
<1>3. TwoFields(0, 8, 8, 4, 32, 4, 40, 4)
  BY DEF TwoFields, Larger, Aligned
<1>4. At(Struct(<<Span(0), ip_socket_address_at(8)>>), 0,
          Record(<<List(Scalar(1)), IpSocketAddress>>), 40, 4)
  BY <1>1, <1>2, <1>3, AtPair
<1> QED
  BY <1>4, AtFacts DEF Stands, Valued

\* The answer of dictionary_get, and of 5 others.
LEMMA DictionaryGetAnswer ==
    At(Switch(0, <<None, Span(4)>>), 0, Variant(<<Void, List(Scalar(1))>>), 12, 4)
BY OptionTextAt DEF OptionText

\* The answer of secret_get, and of 1 other.
LEMMA SecretGetAnswer ==
    At(Switch(0, <<Switch(4, <<None, Span(8)>>), secret_error_at(4)>>), 0,
        Variant(<<Variant(<<Void, List(Scalar(1))>>), Variant(<<Void, Void, List(Scalar(1))>>)>>), 16, 4)
<1>1. At(Switch(4, <<None, Span(8)>>), 4, OptionText, 12, 4)
  BY OptionTextAt
<1>2. At(secret_error_at(4), 4, Variant(<<Void, Void, List(Scalar(1))>>), 12, 4)
  BY SecretErrorAt
<1>3. TwoCases(0, 4, 12, 4, 12, 4, 16, 4)
  BY DEF TwoCases, Larger, Aligned
<1> QED
  BY <1>1, <1>2, <1>3, AtResult DEF OptionText

\* The answer of key_value_static_store_open.
LEMMA KeyValueStaticStoreOpenAnswer ==
    At(Switch(0, <<Word(4), key_value_error_at(4)>>), 0,
        Variant(<<Scalar(4), Variant(<<Void, Void, Void, List(Scalar(1))>>)>>), 16, 4)
<1>1. At(Word(4), 4, Scalar(4), 4, 4)
  BY AtWord
<1>2. At(key_value_error_at(4), 4, Variant(<<Void, Void, Void, List(Scalar(1))>>), 12, 4)
  BY KeyValueErrorAt
<1>3. TwoCases(0, 4, 4, 4, 12, 4, 16, 4)
  BY DEF TwoCases, Larger, Aligned
<1> QED
  BY <1>1, <1>2, <1>3, AtResult

\* The answer of key_value_method_store_get.
LEMMA KeyValueMethodStoreGetAnswer ==
    At(Switch(0, <<Switch(4, <<None, Span(8)>>), key_value_error_at(4)>>), 0,
        Variant(<<Variant(<<Void, List(Scalar(1))>>), Variant(<<Void, Void, Void, List(Scalar(1))>>)>>), 16, 4)
<1>1. At(Switch(4, <<None, Span(8)>>), 4, OptionText, 12, 4)
  BY OptionTextAt
<1>2. At(key_value_error_at(4), 4, Variant(<<Void, Void, Void, List(Scalar(1))>>), 12, 4)
  BY KeyValueErrorAt
<1>3. TwoCases(0, 4, 12, 4, 12, 4, 16, 4)
  BY DEF TwoCases, Larger, Aligned
<1> QED
  BY <1>1, <1>2, <1>3, AtResult DEF OptionText

\* The answer of key_value_method_store_scan.
LEMMA KeyValueMethodStoreScanAnswer ==
    At(Switch(0, <<Span(4), key_value_error_at(4)>>), 0,
        Variant(<<List(List(Scalar(1))), Variant(<<Void, Void, Void, List(Scalar(1))>>)>>), 16, 4)
<1>1. At(Span(4), 4, List(List(Scalar(1))), 8, 4)
  BY TextValued, AtList
<1>2. At(key_value_error_at(4), 4, Variant(<<Void, Void, Void, List(Scalar(1))>>), 12, 4)
  BY KeyValueErrorAt
<1>3. TwoCases(0, 4, 8, 4, 12, 4, 16, 4)
  BY DEF TwoCases, Larger, Aligned
<1> QED
  BY <1>1, <1>2, <1>3, AtResult

\* The answer of key_value_method_store_zrange_by_score, and of 1 other.
LEMMA KeyValueMethodStoreZrangeByScoreAnswer ==
    At(Switch(0, <<Span(4), key_value_error_at(4)>>), 0,
        Variant(<<List(Record(<<List(Scalar(1)), Scalar(8)>>)),
        Variant(<<Void, Void, Void, List(Scalar(1))>>)>>), 16, 4)
<1>1. At(Span(4), 4, List(Record(<<List(Scalar(1)), Scalar(8)>>)), 8, 4)
  BY TextAndLongValued, AtList
<1>2. At(key_value_error_at(4), 4, Variant(<<Void, Void, Void, List(Scalar(1))>>), 12, 4)
  BY KeyValueErrorAt
<1>3. TwoCases(0, 4, 8, 4, 12, 4, 16, 4)
  BY DEF TwoCases, Larger, Aligned
<1> QED
  BY <1>1, <1>2, <1>3, AtResult

\* The answer of key_value_method_store_bf_exists.
LEMMA KeyValueMethodStoreBfExistsAnswer ==
    At(Switch(0, <<Byte(4), key_value_error_at(4)>>), 0,
        Variant(<<Scalar(1), Variant(<<Void, Void, Void, List(Scalar(1))>>)>>), 16, 4)
<1>1. At(Byte(4), 4, Scalar(1), 1, 1)
  BY AtByte
<1>2. At(key_value_error_at(4), 4, Variant(<<Void, Void, Void, List(Scalar(1))>>), 12, 4)
  BY KeyValueErrorAt
<1>3. TwoCases(0, 4, 1, 1, 12, 4, 16, 4)
  BY DEF TwoCases, Larger, Aligned
<1> QED
  BY <1>1, <1>2, <1>3, AtResult

\* The answer of cache_sync_get.
LEMMA CacheSyncGetAnswer ==
    At(Switch(0, <<Switch(4, <<None, Span(8)>>), cache_error_at(4)>>), 0,
        Variant(<<Variant(<<Void, List(Scalar(1))>>), Variant(<<Void, Void, List(Scalar(1))>>)>>), 16, 4)
<1>1. At(Switch(4, <<None, Span(8)>>), 4, OptionText, 12, 4)
  BY OptionTextAt
<1>2. At(cache_error_at(4), 4, Variant(<<Void, Void, List(Scalar(1))>>), 12, 4)
  BY CacheErrorAt
<1>3. TwoCases(0, 4, 12, 4, 12, 4, 16, 4)
  BY DEF TwoCases, Larger, Aligned
<1> QED
  BY <1>1, <1>2, <1>3, AtResult DEF OptionText

\* The answer of cache_sync_set, and of 1 other.
LEMMA CacheSyncSetAnswer ==
    At(Switch(0, <<None, cache_error_at(4)>>), 0,
        Variant(<<Void, Variant(<<Void, Void, List(Scalar(1))>>)>>), 16, 4)
<1>1. At(None, 4, Void, 0, 1)
  BY AtVoid
<1>2. At(cache_error_at(4), 4, Variant(<<Void, Void, List(Scalar(1))>>), 12, 4)
  BY CacheErrorAt
<1>3. TwoCases(0, 4, 0, 1, 12, 4, 16, 4)
  BY DEF TwoCases, Larger, Aligned
<1> QED
  BY <1>1, <1>2, <1>3, AtResult

\* The answer of cache_sync_exists, and of 1 other.
LEMMA CacheSyncExistsAnswer ==
    At(Switch(0, <<Byte(4), cache_error_at(4)>>), 0,
        Variant(<<Scalar(1), Variant(<<Void, Void, List(Scalar(1))>>)>>), 16, 4)
<1>1. At(Byte(4), 4, Scalar(1), 1, 1)
  BY AtByte
<1>2. At(cache_error_at(4), 4, Variant(<<Void, Void, List(Scalar(1))>>), 12, 4)
  BY CacheErrorAt
<1>3. TwoCases(0, 4, 1, 1, 12, 4, 16, 4)
  BY DEF TwoCases, Larger, Aligned
<1> QED
  BY <1>1, <1>2, <1>3, AtResult

\* The answer of cache_sync_incr, and of 2 others.
LEMMA CacheSyncIncrAnswer ==
    At(Switch(0, <<Long(8), cache_error_at(8)>>), 0,
        Variant(<<Scalar(8), Variant(<<Void, Void, List(Scalar(1))>>)>>), 24, 8)
<1>1. At(Long(8), 8, Scalar(8), 8, 8)
  BY AtLong
<1>2. At(cache_error_at(8), 8, Variant(<<Void, Void, List(Scalar(1))>>), 12, 4)
  BY CacheErrorAt
<1>3. TwoCases(0, 8, 8, 8, 12, 4, 24, 8)
  BY DEF TwoCases, Larger, Aligned
<1> QED
  BY <1>1, <1>2, <1>3, AtResult

\* The answer of utils_set_user_diag.
LEMMA UtilsSetUserDiagAnswer ==
    At(None, 0, Void, 0, 1)
BY AtVoid

\* The answer of cli_environment_get_environment, and of 1 other.
LEMMA CliEnvironmentGetEnvironmentAnswer ==
    At(Span(0), 0, List(Record(<<List(Scalar(1)), List(Scalar(1))>>)), 8, 4)
BY TextsValued, AtList

\* The answer of cli_environment_get_arguments, and of 1 other.
LEMMA CliEnvironmentGetArgumentsAnswer ==
    At(Span(0), 0, List(List(Scalar(1))), 8, 4)
BY TextValued, AtList

\* The answer of io_error_method_error_to_debug_string, and of 2 others.
LEMMA IoErrorMethodErrorToDebugStringAnswer ==
    At(Span(0), 0, List(Scalar(1)), 8, 4)
BY AtText

\* The answer of io_poll_poll.
LEMMA IoPollPollAnswer ==
    At(Span(0), 0, List(Scalar(4)), 8, 4)
BY NumberValued, AtList

\* The answer of io_streams_method_input_stream_read, and of 1 other.
LEMMA IoStreamsMethodInputStreamReadAnswer ==
    At(Switch(0, <<Span(4), stream_error_at(4)>>), 0,
        Variant(<<List(Scalar(1)), Variant(<<Scalar(4), Void>>)>>), 12, 4)
<1>1. At(Span(4), 4, List(Scalar(1)), 8, 4)
  BY AtText
<1>2. At(stream_error_at(4), 4, Variant(<<Scalar(4), Void>>), 8, 4)
  BY StreamErrorAt
<1>3. TwoCases(0, 4, 8, 4, 8, 4, 12, 4)
  BY DEF TwoCases, Larger, Aligned
<1> QED
  BY <1>1, <1>2, <1>3, AtResult

\* The answer of io_streams_method_input_stream_skip, and of 4 others.
LEMMA IoStreamsMethodInputStreamSkipAnswer ==
    At(Switch(0, <<Long(8), stream_error_at(8)>>), 0,
        Variant(<<Scalar(8), Variant(<<Scalar(4), Void>>)>>), 16, 8)
<1>1. At(Long(8), 8, Scalar(8), 8, 8)
  BY AtLong
<1>2. At(stream_error_at(8), 8, Variant(<<Scalar(4), Void>>), 8, 4)
  BY StreamErrorAt
<1>3. TwoCases(0, 8, 8, 8, 8, 4, 16, 8)
  BY DEF TwoCases, Larger, Aligned
<1> QED
  BY <1>1, <1>2, <1>3, AtResult

\* The answer of io_streams_method_output_stream_write, and of 5 others.
LEMMA IoStreamsMethodOutputStreamWriteAnswer ==
    At(Switch(0, <<None, stream_error_at(4)>>), 0,
        Variant(<<Void, Variant(<<Scalar(4), Void>>)>>), 12, 4)
<1>1. At(None, 4, Void, 0, 1)
  BY AtVoid
<1>2. At(stream_error_at(4), 4, Variant(<<Scalar(4), Void>>), 8, 4)
  BY StreamErrorAt
<1>3. TwoCases(0, 4, 0, 1, 8, 4, 12, 4)
  BY DEF TwoCases, Larger, Aligned
<1> QED
  BY <1>1, <1>2, <1>3, AtResult

\* The answer of cli_terminal_stdin_get_terminal_stdin, and of 2 others.
LEMMA CliTerminalStdinGetTerminalStdinAnswer ==
    At(Switch(0, <<None, Word(4)>>), 0, Variant(<<Void, Scalar(4)>>), 8, 4)
<1>1. At(None, 4, Void, 0, 1)
  BY AtVoid
<1>2. At(Word(4), 4, Scalar(4), 4, 4)
  BY AtWord
<1>3. TwoCases(0, 4, 0, 1, 4, 4, 8, 4)
  BY DEF TwoCases, Larger, Aligned
<1> QED
  BY <1>1, <1>2, <1>3, AtResult

\* The answer of clocks_wall_clock_now, and of 1 other.
LEMMA ClocksWallClockNowAnswer ==
    At(Struct(<<Long(0), Word(8)>>), 0, Record(<<Scalar(8), Scalar(4)>>), 16, 8)
<1>1. At(Long(0), 0, Scalar(8), 8, 8)
  BY AtLong
<1>2. At(Word(8), 8, Scalar(4), 4, 4)
  BY AtWord
<1>3. TwoFields(0, 8, 8, 8, 4, 4, 16, 8)
  BY DEF TwoFields, Larger, Aligned
<1> QED
  BY <1>1, <1>2, <1>3, AtPair

\* The answer of filesystem_types_method_descriptor_read_via_stream, and of 8 others.
LEMMA FilesystemTypesMethodDescriptorReadViaStreamAnswer ==
    At(Switch(0, <<Word(4), Byte(4)>>), 0, Variant(<<Scalar(4), Scalar(1)>>), 8, 4)
<1>1. At(Word(4), 4, Scalar(4), 4, 4)
  BY AtWord
<1>2. At(Byte(4), 4, Scalar(1), 1, 1)
  BY AtByte
<1>3. TwoCases(0, 4, 4, 4, 1, 1, 8, 4)
  BY DEF TwoCases, Larger, Aligned
<1> QED
  BY <1>1, <1>2, <1>3, AtResult

\* The answer of filesystem_types_method_descriptor_advise, and of 31 others.
LEMMA FilesystemTypesMethodDescriptorAdviseAnswer ==
    At(Switch(0, <<None, Byte(1)>>), 0, Variant(<<Void, Scalar(1)>>), 2, 1)
<1>1. At(None, 1, Void, 0, 1)
  BY AtVoid
<1>2. At(Byte(1), 1, Scalar(1), 1, 1)
  BY AtByte
<1>3. TwoCases(0, 1, 0, 1, 1, 1, 2, 1)
  BY DEF TwoCases, Larger, Aligned
<1> QED
  BY <1>1, <1>2, <1>3, AtResult

\* The answer of filesystem_types_method_descriptor_get_flags, and of 4 others.
LEMMA FilesystemTypesMethodDescriptorGetFlagsAnswer ==
    At(Switch(0, <<Byte(1), Byte(1)>>), 0, Variant(<<Scalar(1), Scalar(1)>>), 2, 1)
<1>1. At(Byte(1), 1, Scalar(1), 1, 1)
  BY AtByte
<1>2. TwoCases(0, 1, 1, 1, 1, 1, 2, 1)
  BY DEF TwoCases, Larger, Aligned
<1> QED
  BY <1>1, <1>2, AtResult

\* The answer of filesystem_types_method_descriptor_read.
LEMMA FilesystemTypesMethodDescriptorReadAnswer ==
    At(Switch(0, <<Struct(<<Span(4), Byte(12)>>), Byte(4)>>), 0,
        Variant(<<Record(<<List(Scalar(1)), Scalar(1)>>), Scalar(1)>>), 16, 4)
<1>1. At(Span(4), 4, List(Scalar(1)), 8, 4)
  BY AtText
<1>2. At(Byte(12), 12, Scalar(1), 1, 1)
  BY AtByte
<1>3. TwoFields(4, 12, 8, 4, 1, 1, 12, 4)
  BY DEF TwoFields, Larger, Aligned
<1>4. At(Struct(<<Span(4), Byte(12)>>), 4, Record(<<List(Scalar(1)), Scalar(1)>>), 12, 4)
  BY <1>1, <1>2, <1>3, AtPair
<1>5. At(Byte(4), 4, Scalar(1), 1, 1)
  BY AtByte
<1>6. TwoCases(0, 4, 12, 4, 1, 1, 16, 4)
  BY DEF TwoCases, Larger, Aligned
<1> QED
  BY <1>4, <1>5, <1>6, AtResult

\* The answer of filesystem_types_method_descriptor_write, and of 8 others.
LEMMA FilesystemTypesMethodDescriptorWriteAnswer ==
    At(Switch(0, <<Long(8), Byte(8)>>), 0, Variant(<<Scalar(8), Scalar(1)>>), 16, 8)
<1>1. At(Long(8), 8, Scalar(8), 8, 8)
  BY AtLong
<1>2. At(Byte(8), 8, Scalar(1), 1, 1)
  BY AtByte
<1>3. TwoCases(0, 8, 8, 8, 1, 1, 16, 8)
  BY DEF TwoCases, Larger, Aligned
<1> QED
  BY <1>1, <1>2, <1>3, AtResult

\* The answer of filesystem_types_method_descriptor_stat, and of 1 other.
LEMMA FilesystemTypesMethodDescriptorStatAnswer ==
    At(Switch(0, <<StatLoad, Byte(8)>>), 0, Variant(<<Stat, Scalar(1)>>), 104, 8)
<1>1. At(StatLoad, 8, Stat, 96, 8)
  BY StatAt
<1>2. At(Byte(8), 8, Scalar(1), 1, 1)
  BY AtByte
<1>3. TwoCases(0, 8, 96, 8, 1, 1, 104, 8)
  BY DEF TwoCases, Larger, Aligned
<1> QED
  BY <1>1, <1>2, <1>3, AtResult

\* The answer of filesystem_types_method_descriptor_readlink_at.
LEMMA FilesystemTypesMethodDescriptorReadlinkAtAnswer ==
    At(Switch(0, <<Span(4), Byte(4)>>), 0, Variant(<<List(Scalar(1)), Scalar(1)>>), 12, 4)
<1>1. At(Span(4), 4, List(Scalar(1)), 8, 4)
  BY AtText
<1>2. At(Byte(4), 4, Scalar(1), 1, 1)
  BY AtByte
<1>3. TwoCases(0, 4, 8, 4, 1, 1, 12, 4)
  BY DEF TwoCases, Larger, Aligned
<1> QED
  BY <1>1, <1>2, <1>3, AtResult

\* The answer of filesystem_types_method_descriptor_metadata_hash, and of 1 other.
LEMMA FilesystemTypesMethodDescriptorMetadataHashAnswer ==
    At(Switch(0, <<Struct(<<Long(8), Long(16)>>), Byte(8)>>), 0,
        Variant(<<Record(<<Scalar(8), Scalar(8)>>), Scalar(1)>>), 24, 8)
<1>1. At(Long(8), 8, Scalar(8), 8, 8)
  BY AtLong
<1>2. At(Long(16), 16, Scalar(8), 8, 8)
  BY AtLong
<1>3. TwoFields(8, 16, 8, 8, 8, 8, 16, 8)
  BY DEF TwoFields, Larger, Aligned
<1>4. At(Struct(<<Long(8), Long(16)>>), 8, Record(<<Scalar(8), Scalar(8)>>), 16, 8)
  BY <1>1, <1>2, <1>3, AtPair
<1>5. At(Byte(8), 8, Scalar(1), 1, 1)
  BY AtByte
<1>6. TwoCases(0, 8, 16, 8, 1, 1, 24, 8)
  BY DEF TwoCases, Larger, Aligned
<1> QED
  BY <1>4, <1>5, <1>6, AtResult

\* The answer of filesystem_types_method_directory_entry_stream_read_directory_entry.
LEMMA FilesystemTypesMethodDirectoryEntryStreamReadDirectoryEntryAnswer ==
    At(Switch(0, <<Switch(4, <<None, Struct(<<Byte(8), Span(12)>>)>>), Byte(4)>>), 0,
        Variant(<<Variant(<<Void, Record(<<Scalar(1), List(Scalar(1))>>)>>), Scalar(1)>>), 20, 4)
<1>1. At(None, 8, Void, 0, 1)
  BY AtVoid
<1>2. At(Byte(8), 8, Scalar(1), 1, 1)
  BY AtByte
<1>3. At(Span(12), 12, List(Scalar(1)), 8, 4)
  BY AtText
<1>4. TwoFields(8, 12, 1, 1, 8, 4, 12, 4)
  BY DEF TwoFields, Larger, Aligned
<1>5. At(Struct(<<Byte(8), Span(12)>>), 8, Record(<<Scalar(1), List(Scalar(1))>>), 12, 4)
  BY <1>2, <1>3, <1>4, AtPair
<1>6. TwoCases(4, 8, 0, 1, 12, 4, 16, 4)
  BY DEF TwoCases, Larger, Aligned
<1>7. At(Switch(4, <<None, Struct(<<Byte(8), Span(12)>>)>>), 4,
          Variant(<<Void, Record(<<Scalar(1), List(Scalar(1))>>)>>), 16, 4)
  BY <1>1, <1>5, <1>6, AtResult
<1>8. At(Byte(4), 4, Scalar(1), 1, 1)
  BY AtByte
<1>9. TwoCases(0, 4, 16, 4, 1, 1, 20, 4)
  BY DEF TwoCases, Larger, Aligned
<1> QED
  BY <1>7, <1>8, <1>9, AtResult

\* The answer of filesystem_preopens_get_directories.
LEMMA FilesystemPreopensGetDirectoriesAnswer ==
    At(Span(0), 0, List(Record(<<Scalar(4), List(Scalar(1))>>)), 8, 4)
BY WordAndTextValued, AtList

\* The answer of sockets_udp_method_udp_socket_stream, and of 1 other.
LEMMA SocketsUdpMethodUdpSocketStreamAnswer ==
    At(Switch(0, <<Struct(<<Word(4), Word(8)>>), Byte(4)>>), 0,
        Variant(<<Record(<<Scalar(4), Scalar(4)>>), Scalar(1)>>), 12, 4)
<1>1. At(Word(4), 4, Scalar(4), 4, 4)
  BY AtWord
<1>2. At(Word(8), 8, Scalar(4), 4, 4)
  BY AtWord
<1>3. TwoFields(4, 8, 4, 4, 4, 4, 8, 4)
  BY DEF TwoFields, Larger, Aligned
<1>4. At(Struct(<<Word(4), Word(8)>>), 4, Record(<<Scalar(4), Scalar(4)>>), 8, 4)
  BY <1>1, <1>2, <1>3, AtPair
<1>5. At(Byte(4), 4, Scalar(1), 1, 1)
  BY AtByte
<1>6. TwoCases(0, 4, 8, 4, 1, 1, 12, 4)
  BY DEF TwoCases, Larger, Aligned
<1> QED
  BY <1>4, <1>5, <1>6, AtResult

\* The answer of sockets_udp_method_udp_socket_local_address, and of 3 others.
LEMMA SocketsUdpMethodUdpSocketLocalAddressAnswer ==
    At(Switch(0, <<ip_socket_address_at(4), Byte(4)>>), 0,
        Variant(<<IpSocketAddress, Scalar(1)>>), 36, 4)
<1>1. At(ip_socket_address_at(4), 4, IpSocketAddress, 32, 4)
  BY IpSocketAddressAt
<1>2. At(Byte(4), 4, Scalar(1), 1, 1)
  BY AtByte
<1>3. TwoCases(0, 4, 32, 4, 1, 1, 36, 4)
  BY DEF TwoCases, Larger, Aligned
<1> QED
  BY <1>1, <1>2, <1>3, AtResult

\* The answer of sockets_udp_method_incoming_datagram_stream_receive.
LEMMA SocketsUdpMethodIncomingDatagramStreamReceiveAnswer ==
    At(Switch(0, <<Span(4), Byte(4)>>), 0,
        Variant(<<List(Record(<<List(Scalar(1)), IpSocketAddress>>)), Scalar(1)>>), 12, 4)
<1>1. At(Span(4), 4, List(Record(<<List(Scalar(1)), IpSocketAddress>>)), 8, 4)
  BY DatagramValued, AtList
<1>2. At(Byte(4), 4, Scalar(1), 1, 1)
  BY AtByte
<1>3. TwoCases(0, 4, 8, 4, 1, 1, 12, 4)
  BY DEF TwoCases, Larger, Aligned
<1> QED
  BY <1>1, <1>2, <1>3, AtResult

\* The answer of sockets_tcp_method_tcp_socket_accept.
LEMMA SocketsTcpMethodTcpSocketAcceptAnswer ==
    At(Switch(0, <<Struct(<<Word(4), Word(8), Word(12)>>), Byte(4)>>), 0,
        Variant(<<Record(<<Scalar(4), Scalar(4), Scalar(4)>>), Scalar(1)>>), 16, 4)
<1>1. At(Struct(<<Word(4), Word(8), Word(12)>>), 4,
          Record(<<Scalar(4), Scalar(4), Scalar(4)>>), 12, 4)
  BY TripleAt
<1>2. At(Byte(4), 4, Scalar(1), 1, 1)
  BY AtByte
<1>3. TwoCases(0, 4, 12, 4, 1, 1, 16, 4)
  BY DEF TwoCases, Larger, Aligned
<1> QED
  BY <1>1, <1>2, <1>3, AtResult

\* The answer of sockets_ip_name_lookup_method_resolve_address_stream_resolve_next_address.
LEMMA SocketsIpNameLookupMethodResolveAddressStreamResolveNextAddressAnswer ==
    At(Switch(0, <<Switch(2,
        <<None, Switch(4, <<Struct(<<Byte(6), Byte(7), Byte(8), Byte(9)>>),
        Struct(<<Half(6), Half(8), Half(10), Half(12), Half(14), Half(16), Half(18),
        Half(20)>>)>>)>>), Byte(2)>>), 0,
        Variant(<<Variant(<<Void, Variant(<<Ipv4, Ipv6>>)>>), Scalar(1)>>), 22, 2)
<1>1. At(None, 4, Void, 0, 1)
  BY AtVoid
<1>2. Tuple(<<Byte(6), Byte(7), Byte(8), Byte(9)>>, 4)
  BY DEF Tuple
<1>3. At(Struct(<<Byte(6), Byte(7), Byte(8), Byte(9)>>), 6, Ipv4, 4, 1)
  BY <1>2, Ipv4At
<1>4. Tuple(<<Half(6), Half(8), Half(10), Half(12), Half(14), Half(16), Half(18), Half(20)>>, 8)
  BY DEF Tuple
<1>5. At(Struct(<<Half(6), Half(8), Half(10), Half(12), Half(14), Half(16), Half(18), Half(20)>>), 6, Ipv6, 16, 2)
  BY <1>4, Ipv6At
<1>6. TwoCases(4, 6, 4, 1, 16, 2, 18, 2)
  BY DEF TwoCases, Larger, Aligned
<1>7. At(Switch(4, <<Struct(<<Byte(6), Byte(7), Byte(8), Byte(9)>>),
          Struct(<<Half(6), Half(8), Half(10), Half(12), Half(14), Half(16), Half(18),
          Half(20)>>)>>), 4, Variant(<<Ipv4, Ipv6>>), 18, 2)
  BY <1>3, <1>5, <1>6, AtResult
<1>8. TwoCases(2, 4, 0, 1, 18, 2, 20, 2)
  BY DEF TwoCases, Larger, Aligned
<1>9. At(Switch(2, <<None,
          Switch(4, <<Struct(<<Byte(6), Byte(7), Byte(8), Byte(9)>>),
          Struct(<<Half(6), Half(8), Half(10), Half(12), Half(14), Half(16), Half(18),
          Half(20)>>)>>)>>), 2, Variant(<<Void, Variant(<<Ipv4, Ipv6>>)>>), 20, 2)
  BY <1>1, <1>7, <1>8, AtResult
<1>10. At(Byte(2), 2, Scalar(1), 1, 1)
  BY AtByte
<1>11. TwoCases(0, 2, 20, 2, 1, 1, 22, 2)
  BY DEF TwoCases, Larger, Aligned
<1> QED
  BY <1>9, <1>10, <1>11, AtResult

\* The answer of random_insecure_seed_insecure_seed.
LEMMA RandomInsecureSeedInsecureSeedAnswer ==
    At(Struct(<<Long(0), Long(8)>>), 0, Record(<<Scalar(8), Scalar(8)>>), 16, 8)
<1>1. At(Long(0), 0, Scalar(8), 8, 8)
  BY AtLong
<1>2. At(Long(8), 8, Scalar(8), 8, 8)
  BY AtLong
<1>3. TwoFields(0, 8, 8, 8, 8, 8, 16, 8)
  BY DEF TwoFields, Larger, Aligned
<1> QED
  BY <1>1, <1>2, <1>3, AtPair

\* The answer of http_types_static_fields_from_list.
LEMMA HttpTypesStaticFieldsFromListAnswer ==
    At(Switch(0, <<Word(4), header_error_at(4)>>), 0,
        Variant(<<Scalar(4), Variant(<<Void, Void, Void>>)>>), 8, 4)
<1>1. At(Word(4), 4, Scalar(4), 4, 4)
  BY AtWord
<1>2. At(header_error_at(4), 4, Variant(<<Void, Void, Void>>), 1, 1)
  BY HeaderErrorAt
<1>3. TwoCases(0, 4, 4, 4, 1, 1, 8, 4)
  BY DEF TwoCases, Larger, Aligned
<1> QED
  BY <1>1, <1>2, <1>3, AtResult

\* The answer of http_types_method_fields_set, and of 2 others.
LEMMA HttpTypesMethodFieldsSetAnswer ==
    At(Switch(0, <<None, header_error_at(1)>>), 0,
        Variant(<<Void, Variant(<<Void, Void, Void>>)>>), 2, 1)
<1>1. At(None, 1, Void, 0, 1)
  BY AtVoid
<1>2. At(header_error_at(1), 1, Variant(<<Void, Void, Void>>), 1, 1)
  BY HeaderErrorAt
<1>3. TwoCases(0, 1, 0, 1, 1, 1, 2, 1)
  BY DEF TwoCases, Larger, Aligned
<1> QED
  BY <1>1, <1>2, <1>3, AtResult

\* The answer of http_types_method_incoming_request_method, and of 1 other.
LEMMA HttpTypesMethodIncomingRequestMethodAnswer ==
    At(method_at(0), 0, Variant(<<Void, Void, Void, Void, Void, Void, Void, Void, Void, List(Scalar(1))>>), 12, 4)
BY MethodAt

\* The answer of http_types_method_incoming_request_scheme, and of 1 other.
LEMMA HttpTypesMethodIncomingRequestSchemeAnswer ==
    At(Switch(0, <<None, Switch(4, <<None, None, Span(8)>>)>>), 0,
        Variant(<<Void, Variant(<<Void, Void, List(Scalar(1))>>)>>), 16, 4)
<1>1. At(None, 4, Void, 0, 1)
  BY AtVoid
<1>2. At(Switch(4, <<None, None, Span(8)>>), 4, Variant(<<Void, Void, List(Scalar(1))>>), 12, 4)
  BY ErrorAt
<1>3. TwoCases(0, 4, 0, 1, 12, 4, 16, 4)
  BY DEF TwoCases, Larger, Aligned
<1> QED
  BY <1>1, <1>2, <1>3, AtResult

\* The answer of http_types_method_incoming_request_consume, and of 5 others.
LEMMA HttpTypesMethodIncomingRequestConsumeAnswer ==
    At(stream_error_at(0), 0, Variant(<<Scalar(4), Void>>), 8, 4)
BY StreamErrorAt

\* The answer of http_types_method_request_options_connect_timeout, and of 2 others.
LEMMA HttpTypesMethodRequestOptionsConnectTimeoutAnswer ==
    At(Switch(0, <<None, Long(8)>>), 0, Variant(<<Void, Scalar(8)>>), 16, 8)
<1>1. At(None, 8, Void, 0, 1)
  BY AtVoid
<1>2. At(Long(8), 8, Scalar(8), 8, 8)
  BY AtLong
<1>3. TwoCases(0, 8, 0, 1, 8, 8, 16, 8)
  BY DEF TwoCases, Larger, Aligned
<1> QED
  BY <1>1, <1>2, <1>3, AtResult

\* The answer of http_types_method_future_trailers_get.
LEMMA HttpTypesMethodFutureTrailersGetAnswer ==
    At(Switch(0, <<None,
        Switch(8, <<Switch(16, <<Switch(24, <<None, Word(28)>>), http_error_code_at(24)>>),
        None>>)>>), 0, Variant(<<Void,
        Variant(<<Variant(<<Variant(<<Void, Scalar(4)>>), HttpErrorCode>>), Void>>)>>), 56, 8)
<1>1. At(None, 8, Void, 0, 1)
  BY AtVoid
<1>2. At(None, 28, Void, 0, 1)
  BY AtVoid
<1>3. At(Word(28), 28, Scalar(4), 4, 4)
  BY AtWord
<1>4. TwoCases(24, 28, 0, 1, 4, 4, 8, 4)
  BY DEF TwoCases, Larger, Aligned
<1>5. At(Switch(24, <<None, Word(28)>>), 24, Variant(<<Void, Scalar(4)>>), 8, 4)
  BY <1>2, <1>3, <1>4, AtResult
<1>6. At(http_error_code_at(24), 24, HttpErrorCode, 32, 8)
  BY HttpErrorCodeAt
<1>7. TwoCases(16, 24, 8, 4, 32, 8, 40, 8)
  BY DEF TwoCases, Larger, Aligned
<1>8. At(Switch(16, <<Switch(24, <<None, Word(28)>>), http_error_code_at(24)>>), 16,
          Variant(<<Variant(<<Void, Scalar(4)>>), HttpErrorCode>>), 40, 8)
  BY <1>5, <1>6, <1>7, AtResult
<1>9. At(None, 16, Void, 0, 1)
  BY AtVoid
<1>10. TwoCases(8, 16, 40, 8, 0, 1, 48, 8)
  BY DEF TwoCases, Larger, Aligned
<1>11. At(Switch(8, <<Switch(16, <<Switch(24, <<None, Word(28)>>), http_error_code_at(24)>>),
           None>>), 8, Variant(<<Variant(<<Variant(<<Void, Scalar(4)>>), HttpErrorCode>>),
           Void>>), 48, 8)
  BY <1>8, <1>9, <1>10, AtResult
<1>12. TwoCases(0, 8, 0, 1, 48, 8, 56, 8)
  BY DEF TwoCases, Larger, Aligned
<1> QED
  BY <1>1, <1>11, <1>12, AtResult

\* The answer of http_types_static_outgoing_body_finish, and of 1 other.
LEMMA HttpTypesStaticOutgoingBodyFinishAnswer ==
    At(Switch(0, <<None, http_error_code_at(8)>>), 0, Variant(<<Void, HttpErrorCode>>), 40, 8)
<1>1. At(None, 8, Void, 0, 1)
  BY AtVoid
<1>2. At(http_error_code_at(8), 8, HttpErrorCode, 32, 8)
  BY HttpErrorCodeAt
<1>3. TwoCases(0, 8, 0, 1, 32, 8, 40, 8)
  BY DEF TwoCases, Larger, Aligned
<1> QED
  BY <1>1, <1>2, <1>3, AtResult

\* The answer of http_types_method_future_incoming_response_get.
LEMMA HttpTypesMethodFutureIncomingResponseGetAnswer ==
    At(Switch(0, <<None,
        Switch(8, <<Switch(16, <<Word(24), http_error_code_at(24)>>), None>>)>>), 0,
        Variant(<<Void, Variant(<<Variant(<<Scalar(4), HttpErrorCode>>), Void>>)>>), 56, 8)
<1>1. At(None, 8, Void, 0, 1)
  BY AtVoid
<1>2. At(Word(24), 24, Scalar(4), 4, 4)
  BY AtWord
<1>3. At(http_error_code_at(24), 24, HttpErrorCode, 32, 8)
  BY HttpErrorCodeAt
<1>4. TwoCases(16, 24, 4, 4, 32, 8, 40, 8)
  BY DEF TwoCases, Larger, Aligned
<1>5. At(Switch(16, <<Word(24), http_error_code_at(24)>>), 16,
          Variant(<<Scalar(4), HttpErrorCode>>), 40, 8)
  BY <1>2, <1>3, <1>4, AtResult
<1>6. At(None, 16, Void, 0, 1)
  BY AtVoid
<1>7. TwoCases(8, 16, 40, 8, 0, 1, 48, 8)
  BY DEF TwoCases, Larger, Aligned
<1>8. At(Switch(8, <<Switch(16, <<Word(24), http_error_code_at(24)>>), None>>), 8,
          Variant(<<Variant(<<Scalar(4), HttpErrorCode>>), Void>>), 48, 8)
  BY <1>5, <1>6, <1>7, AtResult
<1>9. TwoCases(0, 8, 0, 1, 48, 8, 56, 8)
  BY DEF TwoCases, Larger, Aligned
<1> QED
  BY <1>1, <1>8, <1>9, AtResult

\* The answer of http_outgoing_handler_handle.
LEMMA HttpOutgoingHandlerHandleAnswer ==
    At(Switch(0, <<Word(8), http_error_code_at(8)>>), 0, Variant(<<Scalar(4), HttpErrorCode>>),
        40, 8)
<1>1. At(Word(8), 8, Scalar(4), 4, 4)
  BY AtWord
<1>2. At(http_error_code_at(8), 8, HttpErrorCode, 32, 8)
  BY HttpErrorCodeAt
<1>3. TwoCases(0, 8, 4, 4, 32, 8, 40, 8)
  BY DEF TwoCases, Larger, Aligned
<1> QED
  BY <1>1, <1>2, <1>3, AtResult

-----------------------------------------------------------------------------
(* Adapters, by their answers.                                            *)

LEMMA AddressTypes ==
    /\ sockets_network_ipv4_address = Ipv4
    /\ sockets_network_ipv6_address = Ipv6
    /\ sockets_network_ip_socket_address = IpSocketAddress
BY DEF sockets_network_ipv4_address, sockets_network_ipv6_address,
   sockets_network_ip_socket_address,
       sockets_network_ipv4_socket_address, sockets_network_ipv6_socket_address, Ipv4, Ipv6,
       Ipv4Socket, Ipv6Socket, IpSocketAddress

LEMMA StatType == filesystem_types_descriptor_stat = Stat
BY DEF filesystem_types_descriptor_stat, filesystem_types_descriptor_type, Enum,
       filesystem_types_option_datetime, clocks_wall_clock_datetime, Option, Stat,
           OptionDatetime, Datetime

LEMMA HttpErrorCodeType == http_types_error_code = HttpErrorCode
BY DEF http_types_error_code, http_types_dns_error_payload, http_types_tls_alert_received_payload,
       http_types_option_field_size_payload, http_types_field_size_payload, option_u64, option_u32,
       option_u16, option_u8, option_string, Option, String, HttpErrorCode, Dns, Tls, FieldSize,
       OptionText, OptionNumber

\* An adapter reads what its import answers, in an area of the size and the alignment of the answer.
Answers(c) == At(c.load, 0, c.result, c.size, c.align)

LEMMA CallAnswers ==
    ASSUME NEW params, NEW sends, NEW t, NEW size, NEW align, NEW load, At(load, 0, t, size, align)
    PROVE  Answers(Call(params, sends, t, size, align, load))
BY DEF Answers, Call

-----------------------------------------------------------------------------
(* Arguments *)

\* Layouts of arguments, and one after the other.
Packed(x) == x.align = 1 /\ x.size \in Nat /\ x.rows \in SUBSET Rows
    /\ x = Layout(x.size, x.align, x.rows)
After(x, y) == Layout(x.size + y.size, 1, x.rows \cup Moved(x.size, y.rows))

\* x is a sequence of N arguments.
Turned(parts, N, x) ==
    /\ N \in Nat /\ Tuple(parts, N) /\ \A i \in 1 .. N : Packed(parts[i])
    /\ \E at, end : Placement(parts, N, at, end)
    /\ x = InTurn(parts) /\ Packed(x)

LEMMA RowsMoved ==
    ASSUME NEW rows \in SUBSET Rows, NEW m \in Nat
    PROVE  Moved(m, rows) \in SUBSET Rows
<1>1. ASSUME NEW r \in rows PROVE Row(r.path, r.kind, r.off + m, r.size, r.cases) \in Rows
  <2>1. r \in Rows
    OBVIOUS
  <2>2. r.path \in Paths /\ r.kind \in Kinds /\ r.off \in Nat /\ r.size \in Nat \ {0}
            /\ r.cases \in Nat
    BY <2>1 DEF Rows
  <2> QED
    BY <2>2 DEF Row, Rows
<1> QED
  BY <1>1 DEF Moved

LEMMA PackedLayout ==
    ASSUME NEW size \in Nat, NEW rows \in SUBSET Rows
    PROVE  Packed(Layout(size, 1, rows))
BY DEF Packed, Layout

LEMMA PackedAfter ==
    ASSUME NEW x, NEW y, Packed(x), Packed(y)
    PROVE  Packed(After(x, y))
<1>1. Moved(x.size, y.rows) \in SUBSET Rows
  BY RowsMoved DEF Packed
<1>2. x.size + y.size \in Nat /\ x.rows \cup Moved(x.size, y.rows) \in SUBSET Rows
  BY <1>1 DEF Packed
<1> QED
  BY <1>2, PackedLayout DEF After

LEMMA AfterNothing ==
    ASSUME NEW y, Packed(y)
    PROVE  After(Layout(0, 1, {}), y) = y
<1>1. Moved(0, y.rows) = y.rows
  BY MovedRows DEF Packed
<1>2. y = Layout(y.size, 1, y.rows) /\ y.size \in Nat
  BY DEF Packed
<1>3. After(Layout(0, 1, {}), y) = Layout(0 + y.size, 1, {} \cup y.rows)
  BY <1>1 DEF After, Layout
<1>4. 0 + y.size = y.size
  BY <1>2
<1> QED
  BY <1>2, <1>3, <1>4

LEMMA MovedMoved ==
    ASSUME NEW m \in Nat, NEW n \in Nat, NEW rows \in SUBSET Rows
    PROVE  Moved(m, Moved(n, rows)) = Moved(m + n, rows)
<1>1. ASSUME NEW r \in rows
      PROVE  LET s == Row(r.path, r.kind, r.off + n, r.size, r.cases)
             IN Row(s.path, s.kind, s.off + m, s.size, s.cases) =
                   Row(r.path, r.kind, r.off + (m + n), r.size, r.cases)
  <2>1. r \in Rows
    OBVIOUS
  <2>2. r.off \in Nat
    BY <2>1 DEF Rows
  <2>3. (r.off + n) + m = r.off + (m + n)
    BY <2>2
  <2> QED
    BY <2>3 DEF Row
<1> QED
  BY <1>1 DEF Moved

LEMMA AfterAfter ==
    ASSUME NEW x, NEW y, NEW z, Packed(x), Packed(y), Packed(z)
    PROVE  After(After(x, y), z) = After(x, After(y, z))
<1>1. x.size \in Nat /\ y.size \in Nat /\ z.size \in Nat
  BY DEF Packed
<1>3. Moved(x.size, Moved(y.size, z.rows)) = Moved(x.size + y.size, z.rows)
  BY <1>1, MovedMoved DEF Packed
<1>4. Moved(x.size, y.rows \cup Moved(y.size, z.rows)) =
          Moved(x.size, y.rows) \cup Moved(x.size, Moved(y.size, z.rows))
  BY DEF Moved
<1>5. (x.size + y.size) + z.size = x.size + (y.size + z.size)
  BY <1>1
<1>6. After(After(x, y), z) =
          Layout((x.size + y.size) + z.size, 1,
                 (x.rows \cup Moved(x.size, y.rows)) \cup Moved(x.size + y.size, z.rows))
  BY DEF After, Layout
<1>7. After(x, After(y, z)) =
          Layout(x.size + (y.size + z.size), 1,
                 x.rows \cup Moved(x.size, y.rows \cup Moved(y.size, z.rows)))
  BY DEF After, Layout
<1>8. x.rows \cup (Moved(x.size, y.rows) \cup Moved(x.size + y.size, z.rows))
         = (x.rows \cup Moved(x.size, y.rows)) \cup Moved(x.size + y.size, z.rows)
  OBVIOUS
<1> QED
  BY <1>3, <1>4, <1>5, <1>6, <1>7, <1>8

RowsAt(at, parts, N) == UNION {Moved(at[i], parts[i].rows) : i \in 1 .. N}

\* So many parts, and one more.
Longer(longer, M, parts, N, y) ==
    M = N + 1 /\ Tuple(longer, M) /\ longer[M] = y /\ \A i \in 1 .. N : longer[i] = parts[i]

LEMMA TurnedIs ==
    ASSUME NEW N \in Nat, NEW parts, Tuple(parts, N), \A i \in 1 .. N : Packed(parts[i]),
           NEW at, NEW end, Placement(parts, N, at, end)
    PROVE  /\ InTurn(parts) = Layout(end, 1, RowsAt(at, parts, N))
           /\ Packed(InTurn(parts)) /\ end \in Nat
<1>1. \A i \in 1 .. N : parts[i].size \in Nat /\ parts[i].align \in Aligns /\ parts[i].align = 1
  BY DEF Packed, Aligns
<1>2. Ends(parts)[N] = end /\ end \in Nat /\ \A i \in 1 .. N : Offset(parts, i) = at[i]
  BY <1>1, EndsAre
<1>3. Widest(parts, N, 1) /\ 1 \in Aligns
  BY <1>1 DEF Widest, Aligns
<1>4. Alignment(parts) = 1
  BY <1>1, <1>3, AlignmentIs
<1>5. DOMAIN parts = 1 .. N /\ Len(parts) = N
  BY LenOf DEF Tuple
<1>6. Aligned(end, 1) = end
  BY <1>2 DEF Aligned
<1>7. InTurn(parts) = Layout(end, 1, RowsAt(at, parts, N))
  BY <1>2, <1>4, <1>5, <1>6 DEF InTurn, RowsAt
<1>8. ASSUME NEW i \in 1 .. N PROVE Moved(at[i], parts[i].rows) \in SUBSET Rows
  <2>1. at[i] \in Nat /\ parts[i].rows \in SUBSET Rows
    BY DEF Placement, Packed
  <2> QED
    BY <2>1, RowsMoved
<1>9. RowsAt(at, parts, N) \in SUBSET Rows
  BY <1>8 DEF RowsAt
<1> QED
  BY <1>2, <1>7, <1>9, PackedLayout

LEMMA TurnedEmpty == Turned(<<>>, 0, Layout(0, 1, {}))
<1> DEFINE at == [i \in 1 .. 0 |-> 0]
           empty == <<>>
<1>1. Tuple(empty, 0) /\ \A i \in 1 .. 0 : Packed(empty[i])
  BY DEF Tuple
<1>2. Placement(empty, 0, at, 0)
  BY DEF Placement
<1> HIDE DEF at, empty
<1>3. /\ InTurn(empty) = Layout(0, 1, RowsAt(at, empty, 0))
      /\ Packed(InTurn(empty))
  BY <1>1, <1>2, TurnedIs
<1>4. InTurn(empty) = Layout(0, 1, {})
  BY <1>3 DEF RowsAt
<1>5. Turned(empty, 0, Layout(0, 1, {}))
  BY <1>1, <1>2, <1>3, <1>4 DEF Turned
<1> QED
  BY <1>5 DEF empty

LEMMA TurnedAppend ==
    ASSUME NEW parts, NEW N, NEW x, Turned(parts, N, x), NEW y, Packed(y),
           NEW longer, NEW M, Longer(longer, M, parts, N, y)
    PROVE  Turned(longer, M, After(x, y))
<1>1. /\ N \in Nat /\ M \in Nat /\ Tuple(parts, N) /\ \A i \in 1 .. N : Packed(parts[i])
      /\ x = InTurn(parts) /\ Packed(x) /\ M = N + 1
  BY DEF Turned, Longer
<1>2. PICK at, end : Placement(parts, N, at, end)
  BY DEF Turned
<1>4. InTurn(parts) = Layout(end, 1, RowsAt(at, parts, N)) /\ end \in Nat
  BY <1>1, <1>2, TurnedIs
<1>6. Tuple(longer, M) /\ longer[M] = y /\ \A i \in 1 .. N : longer[i] = parts[i]
  BY DEF Longer
<1>7. \A i \in 1 .. M : i = M \/ i \in 1 .. N
  BY <1>1
<1>8. \A i \in 1 .. M : Packed(longer[i])
  BY <1>1, <1>6, <1>7
<1> DEFINE ats == [i \in 1 .. M |-> IF i = M THEN end ELSE at[i]]
<1>9. ats \in [1 .. M -> Nat] /\ ats[M] = end /\ \A i \in 1 .. N : ats[i] = at[i]
  <2>1. \A i \in 1 .. N : at[i] \in Nat /\ i # M
    BY <1>1, <1>2 DEF Placement
  <2> QED
    BY <1>1, <1>4, <1>7, <2>1
<1>10. y.size \in Nat /\ y.align = 1
  BY DEF Packed
<1> HIDE DEF ats
<1>11. Placement(longer, M, ats, end + y.size)
  <2>1. ASSUME NEW i \in 1 .. M
        PROVE  ats[i] = IF i
               = 1 THEN 0 ELSE Aligned(ats[i - 1] + longer[i - 1].size, longer[i].align)
    <3>1. CASE i \in 1 .. N
      <4>1. i # 1 => i - 1 \in 1 .. N
        BY <1>1
      <4>2. at[i] = IF i = 1 THEN 0 ELSE Aligned(at[i - 1] + parts[i - 1].size, parts[i].align)
        BY <1>2, <3>1 DEF Placement
      <4> QED
        BY <1>6, <1>9, <3>1, <4>1, <4>2
    <3>2. CASE i = M
      <4>1. CASE N = 0
        <5>1. end = 0
          BY <1>2, <4>1 DEF Placement
        <5> QED
          BY <1>1, <1>9, <3>2, <4>1, <5>1
      <4>2. CASE N # 0
        <5>1. N \in 1 .. N /\ end = at[N] + parts[N].size /\ i - 1 = N /\ i # 1
          BY <1>1, <1>2, <3>2, <4>2 DEF Placement
        <5>2. Aligned(end, 1) = end
          BY <1>4 DEF Aligned
        <5> QED
          BY <1>6, <1>9, <1>10, <3>2, <5>1, <5>2
      <4> QED
        BY <4>1, <4>2
    <3> QED
      BY <1>7, <3>1, <3>2
  <2>2. M # 0 /\ ats[M] + longer[M].size = end + y.size
    BY <1>1, <1>6, <1>9
  <2> QED
    BY <1>9, <2>1, <2>2 DEF Placement
<1>12. /\ InTurn(longer) = Layout(end + y.size, 1, RowsAt(ats, longer, M))
       /\ Packed(InTurn(longer))
  BY <1>1, <1>6, <1>8, <1>11, TurnedIs
<1>13. RowsAt(ats, longer, M) = RowsAt(at, parts, N) \cup Moved(end, y.rows)
  <2>1. \A i \in 1 .. N : Moved(ats[i], longer[i].rows) = Moved(at[i], parts[i].rows)
    BY <1>6, <1>9
  <2>2. Moved(ats[M], longer[M].rows) = Moved(end, y.rows)
    BY <1>6, <1>9
  <2>3. \A r : r \in RowsAt(ats, longer, M) <=> \E i \in 1 .. M : r \in Moved(ats[i],
            longer[i].rows)
    BY DEF RowsAt
  <2>4. \A r : r \in RowsAt(at, parts, N) <=> \E i \in 1 .. N : r \in Moved(at[i], parts[i].rows)
    BY DEF RowsAt
  <2>5. ASSUME NEW r
        PROVE  r \in RowsAt(ats, longer, M) <=> r \in RowsAt(at, parts, N) \/ r \in Moved(end,
               y.rows)
    <3>1. M \in 1 .. M /\ \A i \in 1 .. N : i \in 1 .. M
      BY <1>1
    <3> QED
      BY <1>7, <2>1, <2>2, <2>3, <2>4, <3>1
  <2> QED
    BY <2>5
<1>14. x.size = end /\ x.rows = RowsAt(at, parts, N)
  BY <1>1, <1>4 DEF Layout
<1>15. InTurn(longer) = After(x, y)
  BY <1>12, <1>13, <1>14 DEF After
<1> QED
  BY <1>1, <1>6, <1>8, <1>11, <1>12, <1>15 DEF Turned

-----------------------------------------------------------------------------
(* Parameters: each passes what it has inside of its number.              *)

Inside(i, x) == Layout(x.size, x.align, Under(<<i>>, x.rows))
Within(fields) == [i \in DOMAIN fields |-> Inside(i, fields[i].passed)]

\* N parameters are passed by M arguments as the canonical ABI passes them.
Agree(fields, N, sends, M) ==
    Tuple(fields, N) /\ \E x : Turned(Within(fields), N, x) /\ Turned(sends, M, x)

LEMMA AgreeIs ==
    ASSUME NEW fields, NEW N, NEW sends, NEW M, Agree(fields, N, sends, M)
    PROVE  Record(fields).passed = InTurn(sends)
<1>1. InTurn(Within(fields)) = InTurn(sends)
  BY DEF Agree, Turned
<1>2. DOMAIN Passed(fields) = DOMAIN fields
          /\ \A i \in DOMAIN fields : Passed(fields)[i] = fields[i].passed
  BY DEF Passed
<1>3. [i \in DOMAIN Passed(fields) |->
          Layout(Passed(fields)[i].size, Passed(fields)[i].align,
              Under(<<i>>, Passed(fields)[i].rows))]
         = Within(fields)
  BY <1>2 DEF Within, Inside
<1>4. Record(fields).passed = RecordLayout(Passed(fields))
  BY DEF Record, Type
<1> QED
  BY <1>1, <1>3, <1>4 DEF RecordLayout

LEMMA RowsUnder ==
    ASSUME NEW rows \in SUBSET Rows, NEW path \in Paths
    PROVE  Under(path, rows) \in SUBSET Rows
<1>1. ASSUME NEW r \in rows PROVE Row(path \o r.path, r.kind, r.off, r.size, r.cases) \in Rows
  <2>1. r \in Rows
    OBVIOUS
  <2>2. r.path \in Paths /\ r.kind \in Kinds /\ r.off \in Nat /\ r.size \in Nat \ {0}
            /\ r.cases \in Nat
    BY <2>1 DEF Rows
  <2>3. path \o r.path \in Paths
    BY <2>2 DEF Paths
  <2> QED
    BY <2>2, <2>3 DEF Row, Rows
<1> QED
  BY <1>1 DEF Under

LEMMA PackedInside ==
    ASSUME NEW x, Packed(x), NEW i \in Nat
    PROVE  Packed(Inside(i, x))
<1>1. <<i>> \in Paths
  BY DEF Paths
<1>2. Under(<<i>>, x.rows) \in SUBSET Rows
  BY <1>1, RowsUnder DEF Packed
<1> QED
  BY <1>2, PackedLayout DEF Packed, Inside

LEMMA AgreeEmpty == Agree(<<>>, 0, <<>>, 0)
<1>1. Within(<<>>) = <<>>
  BY DEF Within
<1>2. Tuple(<<>>, 0)
  BY DEF Tuple
<1> QED
  BY <1>1, <1>2, TurnedEmpty DEF Agree

LEMMA WithinLonger ==
    ASSUME NEW fields, NEW N \in Nat, Tuple(fields, N), NEW t, NEW more, NEW K,
           Longer(more, K, fields, N, t)
    PROVE  Longer(Within(more), K, Within(fields), N, Inside(K, t.passed))
<1>1. DOMAIN fields = 1 .. N /\ DOMAIN more = 1 .. K /\ K = N + 1 /\ more[K] = t
      /\ \A i \in 1 .. N : more[i] = fields[i]
  BY DEF Longer, Tuple
<1>2. /\ Within(fields) = [i \in 1 .. N |-> Inside(i, fields[i].passed)]
      /\ Within(more) = [i \in 1 .. K |-> Inside(i, more[i].passed)]
  BY <1>1 DEF Within
<1>3. K \in 1 .. K /\ \A i \in 1 .. N : i \in 1 .. K
  BY <1>1
<1>4. Tuple(Within(more), K)
  BY <1>2 DEF Tuple
<1>5. Within(more)[K] = Inside(K, t.passed)
  BY <1>1, <1>2, <1>3
<1>6. \A i \in 1 .. N : Within(more)[i] = Within(fields)[i]
  BY <1>1, <1>2, <1>3
<1> QED
  BY <1>1, <1>4, <1>5, <1>6 DEF Longer

LEMMA AgreeOne ==
    ASSUME NEW fields, NEW N, NEW sends, NEW M, Agree(fields, N, sends, M),
           NEW t, Packed(t.passed), NEW more, NEW K, Longer(more, K, fields, N, t),
           NEW y, y = Inside(K, t.passed), NEW ys, NEW Y, Longer(ys, Y, sends, M, y)
    PROVE  Agree(more, K, ys, Y)
<1>1. PICK x : Turned(Within(fields), N, x) /\ Turned(sends, M, x)
  BY DEF Agree
<1>2. N \in Nat /\ K \in Nat /\ Tuple(fields, N) /\ Tuple(more, K)
  BY <1>1 DEF Agree, Turned, Longer
<1>3. Packed(y)
  BY <1>2, PackedInside
<1>4. Longer(Within(more), K, Within(fields), N, y)
  BY <1>2, WithinLonger
<1>5. Turned(Within(more), K, After(x, y))
  BY <1>1, <1>3, <1>4, TurnedAppend
<1>6. Turned(ys, Y, After(x, y))
  BY <1>1, <1>3, TurnedAppend
<1> QED
  BY <1>2, <1>5, <1>6 DEF Agree

LEMMA AgreeTwo ==
    ASSUME NEW fields, NEW N, NEW sends, NEW M, Agree(fields, N, sends, M),
           NEW t, Packed(t.passed), NEW more, NEW K, Longer(more, K, fields, N, t),
           NEW y, Packed(y), NEW ys, NEW Y, Longer(ys, Y, sends, M, y),
           NEW z, Packed(z), NEW zs, NEW Z, Longer(zs, Z, ys, Y, z), After(y, z)
               = Inside(K, t.passed)
    PROVE  Agree(more, K, zs, Z)
<1>1. PICK x : Turned(Within(fields), N, x) /\ Turned(sends, M, x)
  BY DEF Agree
<1>2. N \in Nat /\ K \in Nat /\ Tuple(fields, N) /\ Tuple(more, K) /\ Packed(x)
  BY <1>1 DEF Agree, Turned, Longer
<1>3. Packed(After(y, z))
  BY PackedAfter
<1>4. Longer(Within(more), K, Within(fields), N, After(y, z))
  BY <1>2, WithinLonger
<1>5. Turned(Within(more), K, After(x, After(y, z)))
  BY <1>1, <1>3, <1>4, TurnedAppend
<1>6. Turned(ys, Y, After(x, y))
  BY <1>1, TurnedAppend
<1>7. Turned(zs, Z, After(After(x, y), z))
  BY <1>6, TurnedAppend
<1>8. After(After(x, y), z) = After(x, After(y, z))
  BY <1>2, AfterAfter
<1> QED
  BY <1>2, <1>5, <1>7, <1>8 DEF Agree

LEMMA PackedSend ==
    ASSUME NEW path \in Paths, NEW kind \in Kinds
    PROVE  Packed(Send(path, kind))
<1>1. {Row(path, kind, 0, 1, 0)} \in SUBSET Rows
  BY DEF Row, Rows
<1> QED
  BY <1>1, PackedLayout DEF Send

LEMMA RowUnder ==
    ASSUME NEW i \in Nat, NEW kind, NEW off, NEW size, NEW cases
    PROVE  Under(<<i>>, {Row(<<>>, kind, off, size, cases)}) = {Row(<<i>>, kind, off, size, cases)}
<1> DEFINE r == Row(<<>>, kind, off, size, cases)
<1>1. <<i>> \o <<>> = <<i>>
  OBVIOUS
<1>2. r.path = <<>> /\ r.kind = kind /\ r.off = off /\ r.size = size /\ r.cases = cases
  BY DEF Row
<1> HIDE DEF r
<1>3. Row(<<i>> \o r.path, r.kind, r.off, r.size, r.cases) = Row(<<i>>, kind, off, size, cases)
  BY <1>1, <1>2
<1>4. Under(<<i>>, {r}) = {Row(<<i>>, kind, off, size, cases)}
  BY <1>3 DEF Under
<1> QED
  BY <1>4 DEF r

\* What is sent for a path, as a layout.
LEMMA SendIs ==
    ASSUME NEW path, NEW kind
    PROVE  /\ Send(path, kind).size = 1 /\ Send(path, kind).align = 1
           /\ Send(path, kind).rows = {Row(path, kind, 0, 1, 0)}
BY DEF Send, Layout

LEMMA PointerAndLength ==
    ASSUME NEW path
    PROVE  /\ After(Send(path, "ptr"), Send(path, "len")).size = 2
           /\ After(Send(path, "ptr"), Send(path, "len")).align = 1
           /\ After(Send(path, "ptr"), Send(path, "len")).rows =
                  {Row(path, "ptr", 0, 1, 0), Row(path, "len", 1, 1, 0)}
           /\ After(Send(path, "ptr"), Send(path, "len")) =
                  Layout(2, 1, {Row(path, "ptr", 0, 1, 0), Row(path, "len", 1, 1, 0)})
<1>1. Moved(1, {Row(path, "len", 0, 1, 0)}) = {Row(path, "len", 1, 1, 0)}
  BY DEF Moved, Row
<1>2. After(Send(path, "ptr"), Send(path, "len")) =
         Layout(1 + 1, 1, {Row(path, "ptr", 0, 1, 0)} \cup {Row(path, "len", 1, 1, 0)})
  BY <1>1, SendIs DEF After
<1>3. {Row(path, "ptr", 0, 1, 0)} \cup {Row(path, "len", 1, 1, 0)} =
         {Row(path, "ptr", 0, 1, 0), Row(path, "len", 1, 1, 0)} /\ 1 + 1 = 2
  OBVIOUS
<1> QED
  BY <1>2, <1>3 DEF Layout

LEMMA AgreeIt ==
    ASSUME NEW fields, NEW N, NEW sends, NEW M, Agree(fields, N, sends, M),
           NEW size, NEW more, NEW K, Longer(more, K, fields, N, Scalar(size)),
           NEW ys, NEW Y, Longer(ys, Y, sends, M, It(K))
    PROVE  Agree(more, K, ys, Y)
<1>1. K \in Nat /\ <<>> \in Paths
  BY DEF Agree, Turned, Longer, Paths
<1>2. Scalar(size).passed = Send(<<>>, "scalar")
  BY DEF Scalar, ScalarLayout, Type, Send
<1>3. "scalar" \in Kinds
  BY DEF Kinds
<1>4. Packed(Scalar(size).passed)
  BY <1>1, <1>2, <1>3, PackedSend
<1>5. It(K) = Inside(K, Scalar(size).passed)
  <2>1. Inside(K, Send(<<>>, "scalar")) = Layout(1, 1, {Row(<<K>>, "scalar", 0, 1, 0)})
    <3>1. Under(<<K>>, {Row(<<>>, "scalar", 0, 1, 0)}) = {Row(<<K>>, "scalar", 0, 1, 0)}
      BY <1>1, RowUnder
    <3> QED
      BY <3>1, SendIs DEF Inside
  <2> QED
    BY <1>2, <2>1 DEF It, ItAt, Send
<1> QED
  BY <1>4, <1>5, AgreeOne

LEMMA AgreeList ==
    ASSUME NEW fields, NEW N, NEW sends, NEW M, Agree(fields, N, sends, M),
           NEW t, NEW more, NEW K, Longer(more, K, fields, N, List(t)),
           NEW ys, NEW Y, Longer(ys, Y, sends, M, Ptr(K)), NEW zs, NEW Z,
               Longer(zs, Z, ys, Y, Count(K))
    PROVE  Agree(more, K, zs, Z)
<1>1. K \in Nat /\ <<>> \in Paths /\ <<K>> \in Paths
  BY DEF Agree, Turned, Longer, Paths
<1>2. List(t).passed = After(Send(<<>>, "ptr"), Send(<<>>, "len"))
  <2>1. List(t).passed = Layout(2, 1, {Row(<<>>, "ptr", 0, 1, 0), Row(<<>>, "len", 1, 1, 0)})
    BY DEF List, ListLayout, Type
  <2> QED
    BY <2>1, PointerAndLength
<1>3. "ptr" \in Kinds /\ "len" \in Kinds
  BY DEF Kinds
<1>4. Packed(Send(<<>>, "ptr")) /\ Packed(Send(<<>>, "len")) /\ Packed(Ptr(K)) /\ Packed(Count(K))
  BY <1>1, <1>3, PackedSend DEF Ptr, Count
<1>5. Packed(List(t).passed)
  BY <1>2, <1>4, PackedAfter
<1>6. After(Ptr(K), Count(K)) = Inside(K, List(t).passed)
  <2>1. After(Ptr(K), Count(K))
            = Layout(2, 1, {Row(<<K>>, "ptr", 0, 1, 0), Row(<<K>>, "len", 1, 1, 0)})
    BY PointerAndLength DEF Ptr, Count
  <2>3. Under(<<K>>, {Row(<<>>, "ptr", 0, 1, 0), Row(<<>>, "len", 1, 1, 0)}) =
           {Row(<<K>>, "ptr", 0, 1, 0), Row(<<K>>, "len", 1, 1, 0)}
    <3>1. /\ Under(<<K>>, {Row(<<>>, "ptr", 0, 1, 0)}) = {Row(<<K>>, "ptr", 0, 1, 0)}
          /\ Under(<<K>>, {Row(<<>>, "len", 1, 1, 0)}) = {Row(<<K>>, "len", 1, 1, 0)}
      BY <1>1, RowUnder
    <3>2. Under(<<K>>, {Row(<<>>, "ptr", 0, 1, 0), Row(<<>>, "len", 1, 1, 0)}) =
             Under(<<K>>, {Row(<<>>, "ptr", 0, 1, 0)}) \cup Under(<<K>>,
                 {Row(<<>>, "len", 1, 1, 0)})
      BY DEF Under
    <3> QED
      BY <3>1, <3>2
  <2> QED
    BY <1>2, <2>1, <2>3, PointerAndLength DEF Inside
<1> QED
  BY <1>4, <1>5, <1>6, AgreeTwo

\* One sequence and then another.
Joins(all, M, xs, N, ys, K) ==
    /\ M = N + K /\ Tuple(all, M)
    /\ \A i \in 1 .. N : all[i] = xs[i]
    /\ \A j \in 1 .. K : all[N + j] = ys[j]

LEMMA TurnedJoin ==
    ASSUME NEW xs, NEW N, NEW x, Turned(xs, N, x), NEW ys, NEW K, NEW y, Turned(ys, K, y),
           NEW all, NEW M, Joins(all, M, xs, N, ys, K)
    PROVE  Turned(all, M, After(x, y))
<1>1. /\ N \in Nat /\ Tuple(xs, N) /\ (\A i \in 1 .. N : Packed(xs[i])) /\ x = InTurn(xs)
      /\ K \in Nat /\ Tuple(ys, K) /\ (\A i \in 1 .. K : Packed(ys[i])) /\ y = InTurn(ys)
      /\ Packed(x) /\ Packed(y)
  BY DEF Turned
<1>2. /\ M = N + K /\ M \in Nat /\ Tuple(all, M)
      /\ \A i \in 1 .. N : all[i] = xs[i]
      /\ \A j \in 1 .. K : all[N + j] = ys[j]
  BY <1>1 DEF Joins
<1>3. PICK at, end : Placement(xs, N, at, end)
  BY DEF Turned
<1>4. PICK by, to : Placement(ys, K, by, to)
  BY DEF Turned
<1>5. InTurn(xs) = Layout(end, 1, RowsAt(at, xs, N)) /\ end \in Nat
  BY <1>1, <1>3, TurnedIs
<1>6. InTurn(ys) = Layout(to, 1, RowsAt(by, ys, K)) /\ to \in Nat
  BY <1>1, <1>4, TurnedIs
<1> DEFINE ats == [i \in 1 .. M |-> IF i <= N THEN at[i] ELSE end + by[i - N]]
<1>7. \A i \in 1 .. N : i \in 1 .. M /\ at[i] \in Nat
  BY <1>1, <1>2, <1>3 DEF Placement
<1>8. \A j \in 1 .. K : N + j \in 1 .. M /\ ~(N + j <= N) /\ (N + j) - N = j /\ by[j] \in Nat
  BY <1>1, <1>2, <1>4 DEF Placement
<1>9. \A i \in 1 .. M : i \in 1 .. N \/ \E j \in 1 .. K : i = N + j
  <2> SUFFICES ASSUME NEW i \in 1 .. M, i \notin 1 .. N PROVE \E j \in 1 .. K : i = N + j
    OBVIOUS
  <2>1. i - N \in 1 .. K /\ i = N + (i - N)
    BY <1>1, <1>2
  <2> QED
    BY <2>1
<1>10. /\ \A i \in 1 .. N : ats[i] = at[i]
       /\ \A j \in 1 .. K : ats[N + j] = end + by[j]
  BY <1>1, <1>7, <1>8
<1>11. ats \in [1 .. M -> Nat]
  <2>1. \A i \in 1 .. M : ats[i] \in Nat
    BY <1>5, <1>7, <1>8, <1>9, <1>10
  <2> QED
    BY <2>1
<1> HIDE DEF ats
<1>12. \A i \in 1 .. M : Packed(all[i])
  BY <1>1, <1>2, <1>9
<1>13. \A j \in 1 .. K : ys[j].size \in Nat /\ ys[j].align = 1
  BY <1>1 DEF Packed
<1>14. \A j \in 1 .. N : xs[j].size \in Nat /\ xs[j].align = 1
  BY <1>1 DEF Packed
<1>15. \A n \in Nat : Aligned(n, 1) = n
  BY DEF Aligned
<1>16. N # 0 => N \in 1 .. N /\ end = at[N] + xs[N].size
  BY <1>1, <1>3 DEF Placement
<1>17. K # 0 => K \in 1 .. K /\ to = by[K] + ys[K].size
  BY <1>1, <1>4 DEF Placement
<1>18. ASSUME NEW i \in 1 .. M
       PROVE  ats[i] = IF i = 1 THEN 0 ELSE Aligned(ats[i - 1] + all[i - 1].size, all[i].align)
  <2>1. CASE i \in 1 .. N
    <3>1. i # 1 => i - 1 \in 1 .. N
      BY <1>1, <2>1
    <3>2. at[i] = IF i = 1 THEN 0 ELSE Aligned(at[i - 1] + xs[i - 1].size, xs[i].align)
      BY <1>3, <2>1 DEF Placement
    <3> QED
      BY <1>2, <1>10, <2>1, <3>1, <3>2
  <2>2. ASSUME NEW j \in 1 .. K, i = N + j
        PROVE  ats[i] = IF i = 1 THEN 0 ELSE Aligned(ats[i - 1] + all[i - 1].size, all[i].align)
    <3>1. ats[i] = end + by[j] /\ all[i] = ys[j]
      BY <1>2, <1>10, <2>2
    <3>2. CASE j = 1
      <4>1. by[j] = 0
        BY <1>4, <3>2 DEF Placement
      <4>2. CASE N = 0
        <5>1. end = 0 /\ i = 1
          BY <1>3, <2>2, <3>2, <4>2 DEF Placement
        <5> QED
          BY <3>1, <4>1, <5>1
      <4>3. CASE N # 0
        <5>1. i - 1 = N /\ i # 1 /\ N \in 1 .. N
          BY <1>1, <2>2, <3>2, <4>3
        <5>2. ats[N] = at[N] /\ all[N] = xs[N] /\ end = at[N] + xs[N].size
          BY <1>2, <1>10, <1>16, <4>3, <5>1
        <5>3. ats[i] = end
          BY <1>5, <3>1, <4>1
        <5> QED
          BY <1>5, <1>13, <1>15, <3>1, <5>1, <5>2, <5>3
      <4> QED
        BY <4>2, <4>3
    <3>3. CASE j # 1
      <4>1. j - 1 \in 1 .. K /\ i - 1 = N + (j - 1) /\ i # 1
        BY <1>1, <2>2, <3>3
      <4>2. ats[i - 1] = end + by[j - 1] /\ all[i - 1] = ys[j - 1]
        BY <1>2, <1>10, <4>1
      <4>3. by[j] = Aligned(by[j - 1] + ys[j - 1].size, ys[j].align)
        BY <1>4, <3>3 DEF Placement
      <4>4. by[j - 1] \in Nat /\ ys[j - 1].size \in Nat
        BY <1>8, <1>13, <4>1
      <4>5. by[j] = by[j - 1] + ys[j - 1].size
        BY <1>13, <1>15, <4>3, <4>4
      <4>6. ats[i - 1] + all[i - 1].size = ats[i] /\ ats[i] \in Nat
        BY <1>5, <1>11, <3>1, <4>2, <4>4, <4>5
      <4> QED
        BY <1>13, <1>15, <3>1, <4>1, <4>6
    <3> QED
      BY <3>2, <3>3
  <2> QED
    BY <1>9, <2>1, <2>2
<1>19. Placement(all, M, ats, end + to)
  <2>1. end + to = IF M = 0 THEN 0 ELSE ats[M] + all[M].size
    <3>1. CASE K = 0
      <4>1. to = 0 /\ M = N
        BY <1>1, <1>2, <1>4, <3>1 DEF Placement
      <4>2. CASE N = 0
        BY <1>3, <4>1, <4>2 DEF Placement
      <4>3. CASE N # 0
        BY <1>2, <1>5, <1>10, <1>16, <4>1, <4>3
      <4> QED
        BY <4>2, <4>3
    <3>2. CASE K # 0
      <4>1. M = N + K /\ M # 0 /\ K \in 1 .. K
        BY <1>1, <1>2, <3>2
      <4>2. ats[M] = end + by[K] /\ all[M] = ys[K] /\ to = by[K] + ys[K].size
        BY <1>2, <1>10, <1>17, <3>2, <4>1
      <4>3. by[K] \in Nat /\ ys[K].size \in Nat
        BY <1>8, <1>13, <4>1
      <4> QED
        BY <1>5, <4>1, <4>2, <4>3
    <3> QED
      BY <3>1, <3>2
  <2> QED
    BY <1>11, <1>18, <2>1 DEF Placement
<1>20. InTurn(all) = Layout(end + to, 1, RowsAt(ats, all, M)) /\ Packed(InTurn(all))
  BY <1>2, <1>12, <1>19, TurnedIs
<1>21. RowsAt(ats, all, M) = RowsAt(at, xs, N) \cup Moved(end, RowsAt(by, ys, K))
  <2>1. \A r : r \in RowsAt(ats, all, M) <=> \E i \in 1 .. M : r \in Moved(ats[i], all[i].rows)
    BY DEF RowsAt
  <2>2. \A r : r \in RowsAt(at, xs, N) <=> \E i \in 1 .. N : r \in Moved(ats[i], all[i].rows)
    BY <1>2, <1>10 DEF RowsAt
  <2>3. ASSUME NEW j \in 1 .. K
        PROVE  Moved(end, Moved(by[j], ys[j].rows)) = Moved(ats[N + j], all[N + j].rows)
    <3>1. by[j] \in Nat /\ ys[j].rows \in SUBSET Rows
      BY <1>1, <1>8 DEF Packed
    <3>2. Moved(end, Moved(by[j], ys[j].rows)) = Moved(end + by[j], ys[j].rows)
      BY <1>5, <3>1, MovedMoved
    <3> QED
      BY <1>2, <1>10, <3>2
  <2>4. \A r : r \in Moved(end, RowsAt(by, ys, K)) <=>
               \E j \in 1 .. K : r \in Moved(end, Moved(by[j], ys[j].rows))
    BY DEF Moved, RowsAt
  <2>5. ASSUME NEW r
        PROVE  r \in RowsAt(ats, all, M) <=> r \in RowsAt(at, xs, N) \/ r \in Moved(end,
               RowsAt(by, ys, K))
    BY <1>7, <1>8, <1>9, <2>1, <2>2, <2>3, <2>4
  <2> QED
    BY <2>5
<1>22. x.size = end /\ x.rows = RowsAt(at, xs, N) /\ y.size = to /\ y.rows = RowsAt(by, ys, K)
  BY <1>1, <1>5, <1>6 DEF Layout
<1>23. InTurn(all) = After(x, y)
  BY <1>20, <1>21, <1>22 DEF After
<1> QED
  BY <1>2, <1>12, <1>19, <1>20, <1>23 DEF Turned

Insides(ys, N, i, xs) == Tuple(ys, N) /\ \A k \in 1 .. N : ys[k] = Inside(i, xs[k])

LEMMA MovedUnder ==
    ASSUME NEW path, NEW m, NEW rows
    PROVE  Moved(m, Under(path, rows)) = Under(path, Moved(m, rows))
<1>1. \A r, a, b, c, d, e : Row(a, b, c, d, e)
          = [path |-> a, kind |-> b, off |-> c, size |-> d, cases |-> e]
  BY DEF Row
<1>2. \A z : z \in Moved(m, Under(path, rows)) <=>
                \E r \in rows : z = Row(path \o r.path, r.kind, r.off + m, r.size, r.cases)
  <2>1. \A z : z \in Moved(m, Under(path, rows)) <=>
                  \E s \in Under(path, rows) : z = Row(s.path, s.kind, s.off + m, s.size, s.cases)
    BY DEF Moved
  <2>2. \A s : s \in Under(path, rows) <=>
                  \E r \in rows : s = Row(path \o r.path, r.kind, r.off, r.size, r.cases)
    BY DEF Under
  <2> QED
    BY <1>1, <2>1, <2>2
<1>3. \A z : z \in Under(path, Moved(m, rows)) <=>
                \E r \in rows : z = Row(path \o r.path, r.kind, r.off + m, r.size, r.cases)
  <2>1. \A z : z \in Under(path, Moved(m, rows)) <=>
                  \E s \in Moved(m, rows) : z = Row(path \o s.path, s.kind, s.off, s.size, s.cases)
    BY DEF Under
  <2>2. \A s : s \in Moved(m, rows) <=>
                  \E r \in rows : s = Row(r.path, r.kind, r.off + m, r.size, r.cases)
    BY DEF Moved
  <2> QED
    BY <1>1, <2>1, <2>2
<1> QED
  BY <1>2, <1>3

LEMMA TurnedInside ==
    ASSUME NEW i \in Nat, NEW xs, NEW N, NEW x, Turned(xs, N, x), NEW ys, Insides(ys, N, i, xs)
    PROVE  Turned(ys, N, Inside(i, x))
<1>1. /\ N \in Nat /\ Tuple(xs, N) /\ (\A k \in 1 .. N : Packed(xs[k])) /\ x = InTurn(xs)
      /\ Packed(x)
  BY DEF Turned
<1>2. PICK at, end : Placement(xs, N, at, end)
  BY DEF Turned
<1>3. Tuple(ys, N) /\ \A k \in 1 .. N : ys[k] = Inside(i, xs[k])
  BY DEF Insides
<1>4. \A k \in 1 .. N : /\ ys[k].size = xs[k].size /\ ys[k].align = xs[k].align
                        /\ ys[k].rows = Under(<<i>>, xs[k].rows)
  <2> SUFFICES ASSUME NEW k \in 1 .. N
               PROVE  /\ ys[k].size = xs[k].size /\ ys[k].align = xs[k].align
                      /\ ys[k].rows = Under(<<i>>, xs[k].rows)
    OBVIOUS
  <2>1. ys[k] = Inside(i, xs[k])
    BY <1>3
  <2> QED
    BY <2>1 DEF Inside, Layout
<1>5. \A k \in 1 .. N : Packed(ys[k])
  BY <1>1, <1>3, PackedInside
<1>6. \A k \in 1 .. N : k # 1 => k - 1 \in 1 .. N
  BY <1>1
<1>7. N # 0 => N \in 1 .. N
  BY <1>1
<1>8. Placement(ys, N, at, end)
  BY <1>2, <1>4, <1>6, <1>7 DEF Placement
<1>9. InTurn(xs) = Layout(end, 1, RowsAt(at, xs, N))
  BY <1>1, <1>2, TurnedIs
<1>10. InTurn(ys) = Layout(end, 1, RowsAt(at, ys, N))
  BY <1>1, <1>3, <1>5, <1>8, TurnedIs
<1>11. RowsAt(at, ys, N) = Under(<<i>>, RowsAt(at, xs, N))
  <2>1. \A r : r \in RowsAt(at, ys, N) <=> \E k \in 1 .. N : r \in Moved(at[k], ys[k].rows)
    BY DEF RowsAt
  <2>2. \A k \in 1 .. N : Moved(at[k], ys[k].rows) = Under(<<i>>, Moved(at[k], xs[k].rows))
    BY <1>4, MovedUnder
  <2>3. \A r : r \in Under(<<i>>, RowsAt(at, xs, N)) <=>
                  \E k \in 1 .. N : r \in Under(<<i>>, Moved(at[k], xs[k].rows))
    BY DEF Under, RowsAt
  <2> QED
    BY <2>1, <2>2, <2>3
<1>12. Inside(i, x) = Layout(end, 1, Under(<<i>>, RowsAt(at, xs, N)))
  BY <1>1, <1>9 DEF Inside, Layout
<1> QED
  BY <1>1, <1>3, <1>5, <1>8, <1>10, <1>11, <1>12, PackedInside DEF Turned

LEMMA AgreeMany ==
    ASSUME NEW fields, NEW N, NEW sends, NEW M, Agree(fields, N, sends, M),
           NEW t, NEW more, NEW K, Longer(more, K, fields, N, t),
           NEW ps, NEW P, Turned(ps, P, t.passed), NEW qs, Insides(qs, P, K, ps),
           NEW all, NEW Y, Joins(all, Y, sends, M, qs, P)
    PROVE  Agree(more, K, all, Y)
<1>1. PICK x : Turned(Within(fields), N, x) /\ Turned(sends, M, x)
  BY DEF Agree
<1>2. N \in Nat /\ K \in Nat /\ Tuple(fields, N) /\ Tuple(more, K) /\ Packed(x)
  BY <1>1 DEF Agree, Turned, Longer
<1>3. Turned(qs, P, Inside(K, t.passed))
  BY <1>2, TurnedInside
<1>4. Packed(Inside(K, t.passed))
  BY <1>3 DEF Turned
<1>5. Longer(Within(more), K, Within(fields), N, Inside(K, t.passed))
  BY <1>2, WithinLonger
<1>6. Turned(Within(more), K, After(x, Inside(K, t.passed)))
  BY <1>1, <1>4, <1>5, TurnedAppend
<1>7. Turned(all, Y, After(x, Inside(K, t.passed)))
  BY <1>1, <1>3, TurnedJoin
<1> QED
  BY <1>2, <1>6, <1>7 DEF Agree

LEMMA AgreeTurned ==
    ASSUME NEW fields, NEW N, NEW sends, NEW M, Agree(fields, N, sends, M)
    PROVE  Turned(sends, M, Record(fields).passed)
<1>1. PICK x : Turned(sends, M, x)
  BY DEF Agree
<1>2. x = InTurn(sends)
  BY <1>1 DEF Turned
<1> QED
  BY <1>1, <1>2, AgreeIs

LEMMA TurnedOne ==
    ASSUME NEW y, Packed(y)
    PROVE  Turned(<<y>>, 1, y)
<1>1. Longer(<<y>>, 1, <<>>, 0, y)
  BY DEF Longer, Tuple
<1>2. Turned(<<y>>, 1, After(Layout(0, 1, {}), y))
  BY <1>1, TurnedEmpty, TurnedAppend
<1> QED
  BY <1>2, AfterNothing

-----------------------------------------------------------------------------
\* By case, what each case sends, up to so many more arguments.
Chosen(types, sends, N, widest) ==
    /\ N \in Nat /\ Tuple(types, N) /\ Tuple(sends, N) /\ widest \in Nat
    /\ \A i \in 1 .. N : /\ Packed(types[i].passed) /\ types[i].passed = InTurn(sends[i])
                         /\ types[i].passed.size <= widest
    /\ widest = 0 \/ \E i \in 1 .. N : types[i].passed.size = widest

LEMMA ByCaseIs ==
    ASSUME NEW types, NEW sends, NEW N, NEW widest, Chosen(types, sends, N, widest),
           NEW width, width = 1 + widest
    PROVE  Variant(types).passed = ByCase(<<>>, width, sends) /\ Packed(ByCase(<<>>, width, sends))
<1>1. /\ N \in Nat /\ Tuple(types, N) /\ Tuple(sends, N) /\ widest \in Nat
      /\ \A i \in 1 .. N : /\ Packed(types[i].passed) /\ types[i].passed = InTurn(sends[i])
                           /\ types[i].passed.size <= widest
      /\ widest = 0 \/ \E i \in 1 .. N : types[i].passed.size = widest
  BY DEF Chosen
<1> DEFINE cases == Passed(types)
<1>2. /\ Tuple(cases, N) /\ DOMAIN cases = 1 .. N
      /\ \A i \in 1 .. N : cases[i] = types[i].passed /\ cases[i].align = 1 /\ cases[i].size \in Nat
  BY <1>1 DEF Passed, Tuple, Packed
<1>3. Variant(types).passed = VariantLayout(cases)
  BY DEF Variant, Type
<1> HIDE DEF cases
<1>4. Alignment(cases) = 1
  <2>1. Widest(cases, N, 1) /\ 1 \in Aligns /\ \A i \in 1 .. N : cases[i].align \in Aligns
    BY <1>2 DEF Widest, Aligns
  <2> QED
    BY <1>1, <1>2, <2>1, AlignmentIs
<1>5. PayloadOffset(cases) = 1
  BY <1>4 DEF PayloadOffset, Aligned
<1>6. Highest({0} \cup {cases[i].size : i \in DOMAIN cases}) = widest
  <2>1. {0} \cup {cases[i].size : i \in DOMAIN cases} \in SUBSET Nat
    BY <1>2
  <2>2. widest \in {0} \cup {cases[i].size : i \in DOMAIN cases}
    BY <1>1, <1>2
  <2>3. \A n \in {0} \cup {cases[i].size : i \in DOMAIN cases} : n <= widest
    BY <1>1, <1>2
  <2> QED
    BY <2>1, <2>2, <2>3, HighestIs
<1>7. Aligned(1 + widest, 1) = width
  BY <1>1 DEF Aligned
<1>8. Len(cases) = N /\ Len(sends) = N /\ DOMAIN sends = 1 .. N
  BY <1>1, <1>2, LenOf DEF Tuple
<1> DEFINE below == UNION {Under(<<i>>, Moved(1, cases[i].rows)) : i \in 1 .. N}
           tag == {Row(<<>>, "tag", 0, 1, N)}
<1>9. VariantLayout(cases) = Layout(width, 1, tag \cup below)
  BY <1>2, <1>4, <1>5, <1>6, <1>7, <1>8 DEF VariantLayout
<1>10. \A i \in 1 .. N : Append(<<>>, i) = <<i>>
  OBVIOUS
<1>11. below = UNION {Under(Append(<<>>, i), Moved(1, InTurn(sends[i]).rows)) : i \in 1 .. N}
  <2>1. ASSUME NEW i \in 1 .. N
        PROVE  Under(<<i>>, Moved(1, cases[i].rows))
               = Under(Append(<<>>, i), Moved(1, InTurn(sends[i]).rows))
    <3>1. cases[i] = InTurn(sends[i])
      BY <1>1, <1>2
    <3>2. Append(<<>>, i) = <<i>>
      BY <1>10
    <3> QED
      BY <3>1, <3>2
  <2> QED
    BY <2>1
<1>12. ByCase(<<>>, width, sends) = Layout(width, 1, tag \cup below)
  <2>1. DOMAIN sends = 1 .. N /\ Len(sends) = N
    BY <1>8
  <2> HIDE DEF below
  <2> QED
    BY <2>1, <1>11, SMTT(60) DEF ByCase
<1>13. \A i \in 1 .. N : Under(<<i>>, Moved(1, cases[i].rows)) \in SUBSET Rows
  <2> SUFFICES ASSUME NEW i \in 1 .. N PROVE Under(<<i>>, Moved(1, cases[i].rows)) \in SUBSET Rows
    OBVIOUS
  <2>1. cases[i].rows \in SUBSET Rows
    BY <1>1, <1>2 DEF Packed
  <2>2. Moved(1, cases[i].rows) \in SUBSET Rows
    BY <2>1, RowsMoved
  <2>3. <<i>> \in Paths
    BY DEF Paths
  <2> QED
    BY <2>2, <2>3, RowsUnder
<1>14. below \in SUBSET Rows
  BY <1>13
<1>15. tag \in SUBSET Rows
  BY <1>1, RootPath DEF Row, Rows, Kinds
<1>16. width \in Nat
  BY <1>1
<1> HIDE DEF below, tag
<1>17. tag \cup below \in SUBSET Rows
  BY <1>14, <1>15
<1> QED
  BY <1>3, <1>9, <1>12, <1>16, <1>17, PackedLayout

LEMMA ByCaseInside ==
    ASSUME NEW types, NEW sends, NEW N, NEW widest, Chosen(types, sends, N, widest),
           NEW width, NEW n \in Nat
    PROVE  ByCase(<<n>>, width, sends) = Inside(n, ByCase(<<>>, width, sends))
<1>1. /\ N \in Nat /\ Tuple(sends, N) /\ \A i \in 1 .. N : InTurn(sends[i]).rows \in SUBSET Rows
  BY DEF Chosen, Packed
<1>2. DOMAIN sends = 1 .. N /\ Len(sends) = N
  BY <1>1, LenOf DEF Tuple
<1> DEFINE below == UNION {Under(Append(<<>>, i), Moved(1, InTurn(sends[i]).rows)) : i \in 1 .. N}
           lower == UNION {Under(Append(<<n>>, i), Moved(1, InTurn(sends[i]).rows)) : i \in 1 .. N}
           tag == {Row(<<>>, "tag", 0, 1, N)}
<1>3. ByCase(<<>>, width, sends) = Layout(width, 1, tag \cup below)
  BY <1>2 DEF ByCase
<1>4. ByCase(<<n>>, width, sends) = Layout(width, 1, {Row(<<n>>, "tag", 0, 1, N)} \cup lower)
  BY <1>2 DEF ByCase
<1>5. Under(<<n>>, tag) = {Row(<<n>>, "tag", 0, 1, N)}
  BY RowUnder
<1>6. ASSUME NEW i \in 1 .. N
      PROVE  Under(<<n>>, Under(Append(<<>>, i), Moved(1, InTurn(sends[i]).rows)))
                = Under(Append(<<n>>, i), Moved(1, InTurn(sends[i]).rows))
  <2> DEFINE rows == Moved(1, InTurn(sends[i]).rows)
  <2>1. rows \in SUBSET Rows
    BY <1>1, RowsMoved
  <2>2. \A r \in rows : r.path \in Paths
    BY <2>1 DEF Rows
  <2>3. \A p \in Paths : <<n>> \o (Append(<<>>, i) \o p) = Append(<<n>>, i) \o p
    <3> SUFFICES ASSUME NEW p \in Paths PROVE <<n>> \o (Append(<<>>, i) \o p)
            = Append(<<n>>, i) \o p
      OBVIOUS
    <3>1. Append(<<>>, i) = <<i>> /\ Append(<<n>>, i) = <<n>> \o <<i>>
      OBVIOUS
    <3>2. <<n>> \in Seq(Nat) /\ <<i>> \in Seq(Nat) /\ p \in Seq(Nat)
      BY <1>1 DEF Paths
    <3>3. <<n>> \o (<<i>> \o p) = (<<n>> \o <<i>>) \o p
      BY <3>2, ConcatAssociative
    <3> QED
      BY <3>1, <3>3
  <2> HIDE DEF rows
  <2>4. ASSUME NEW r \in rows
        PROVE  LET s == Row(Append(<<>>, i) \o r.path, r.kind, r.off, r.size, r.cases)
               IN Row(<<n>> \o s.path, s.kind, s.off, s.size, s.cases)
                     = Row(Append(<<n>>, i) \o r.path, r.kind, r.off, r.size, r.cases)
    BY <2>2, <2>3 DEF Row
  <2>5. Under(<<n>>, Under(Append(<<>>, i), rows)) = Under(Append(<<n>>, i), rows)
    BY <2>4 DEF Under
  <2> QED
    BY <2>5 DEF rows
<1>7. Under(<<n>>, below) = lower
  <2>1. \A r : r \in Under(<<n>>, below) <=>
                 \E i \in 1 .. N : r \in Under(<<n>>,
                     Under(Append(<<>>, i), Moved(1, InTurn(sends[i]).rows)))
    <3> DEFINE X(i) == Under(Append(<<>>, i), Moved(1, InTurn(sends[i]).rows))
    <3>1. \A r : r \in Under(<<n>>, below) <=>
                   \E s \in below : r = Row(<<n>> \o s.path, s.kind, s.off, s.size, s.cases)
      BY DEF Under
    <3>3. \A s : s \in below <=> \E i \in 1 .. N : s \in X(i)
      OBVIOUS
    <3> HIDE DEF below, X
    <3>2. \A i, r : r \in Under(<<n>>, X(i)) <=>
             \E s \in X(i) : r = Row(<<n>> \o s.path, s.kind, s.off, s.size, s.cases)
      BY DEF Under
    <3>4. ASSUME NEW r PROVE r \in Under(<<n>>, below) <=> \E i \in 1 .. N : r \in Under(<<n>>,
              X(i))
      BY <3>1, <3>2, <3>3
    <3>5. \A r : r \in Under(<<n>>, below) <=> \E i \in 1 .. N : r \in Under(<<n>>, X(i))
      BY <3>4
    <3> QED
      BY <3>5 DEF X
  <2>2. \A r : r \in lower <=> \E i \in 1 .. N : r \in Under(Append(<<n>>, i),
            Moved(1, InTurn(sends[i]).rows))
    OBVIOUS
  <2> QED
    BY <1>6, <2>1, <2>2
<1>8. Under(<<n>>, tag \cup below) = Under(<<n>>, tag) \cup Under(<<n>>, below)
  BY DEF Under
<1> HIDE DEF below, lower, tag
<1>9. Inside(n, Layout(width, 1, tag \cup below)) = Layout(width, 1, Under(<<n>>, tag \cup below))
  BY DEF Inside, Layout
<1> QED
  BY <1>3, <1>4, <1>5, <1>7, <1>8, <1>9

-----------------------------------------------------------------------------
(* Parameters of several arguments: numbers in turn, and by case.         *)

\* Each of them takes the place of one argument.
Singly(sends, M) == \A i \in 1 .. M : sends[i].size = 1

LEMMA TurnedSize ==
    ASSUME NEW sends, NEW M, NEW x, Turned(sends, M, x), Singly(sends, M)
    PROVE  x.size = M
<1>1. /\ M \in Nat /\ Tuple(sends, M) /\ (\A i \in 1 .. M : Packed(sends[i])) /\ x = InTurn(sends)
      /\ \A i \in 1 .. M : sends[i].size = 1 /\ sends[i].align = 1
  BY DEF Turned, Singly, Packed
<1>2. PICK at, end : Placement(sends, M, at, end)
  BY DEF Turned
<1>3. InTurn(sends) = Layout(end, 1, RowsAt(at, sends, M)) /\ end \in Nat
  BY <1>1, <1>2, TurnedIs
<1> DEFINE T == {k \in Nat : k + 1 \in 1 .. M => at[k + 1] = k}
<1>4. 0 \in T
  BY <1>2 DEF Placement
<1>5. ASSUME NEW k \in T PROVE k + 1 \in T
  <2> SUFFICES ASSUME (k + 1) + 1 \in 1 .. M PROVE at[(k + 1) + 1] = k + 1
    OBVIOUS
  <2>1. k + 1 \in 1 .. M /\ ((k + 1) + 1) - 1 = k + 1 /\ (k + 1) + 1 # 1 /\ k \in Nat
    BY <1>1
  <2>2. at[k + 1] = k
    BY <2>1
  <2>3. at[(k + 1) + 1] = Aligned(at[k + 1] + sends[k + 1].size, sends[(k + 1) + 1].align)
    BY <1>2, <2>1 DEF Placement
  <2> QED
    BY <1>1, <2>1, <2>2, <2>3 DEF Aligned
<1>6. T = Nat
  BY <1>4, <1>5, NumbersByInduction
<1>7. CASE M = 0
  BY <1>1, <1>2, <1>3, <1>7 DEF Placement, Layout
<1>8. CASE M # 0
  <2>1. M - 1 \in Nat /\ (M - 1) + 1 = M /\ M \in 1 .. M
    BY <1>1, <1>8
  <2>2. M - 1 \in T
    BY <1>6, <2>1
  <2>3. at[M] = M - 1
    BY <2>1, <2>2
  <2>4. end = M
    BY <1>1, <1>2, <1>8, <2>1, <2>3 DEF Placement
  <2> QED
    BY <1>1, <1>3, <2>4 DEF Layout
<1> QED
  BY <1>7, <1>8

LEMMA Scalars1 ==
    ASSUME NEW a
    PROVE  Agree(<<Scalar(a)>>, 1, <<It(1)>>, 1)
<1>1. /\ Longer(<<Scalar(a)>>, 1, <<>>, 0, Scalar(a))
      /\ Longer(<<It(1)>>, 1, <<>>, 0, It(1))
  BY DEF Longer, Tuple
<1>2. Agree(<<Scalar(a)>>, 1, <<It(1)>>, 1)
  BY AgreeEmpty, <1>1, AgreeIt
<1> QED
  BY <1>2

LEMMA Scalars2 ==
    ASSUME NEW a, NEW b
    PROVE  Agree(<<Scalar(a), Scalar(b)>>, 2, <<It(1), It(2)>>, 2)
<1>1. /\ Longer(<<Scalar(a), Scalar(b)>>, 2, <<Scalar(a)>>, 1, Scalar(b))
      /\ Longer(<<It(1), It(2)>>, 2, <<It(1)>>, 1, It(2))
  BY DEF Longer, Tuple
<1>2. Agree(<<Scalar(a), Scalar(b)>>, 2, <<It(1), It(2)>>, 2)
  BY Scalars1, <1>1, AgreeIt
<1> QED
  BY <1>2

LEMMA Scalars3 ==
    ASSUME NEW a, NEW b, NEW c
    PROVE  Agree(<<Scalar(a), Scalar(b), Scalar(c)>>, 3, <<It(1), It(2), It(3)>>, 3)
<1>1. /\ Longer(<<Scalar(a), Scalar(b), Scalar(c)>>, 3, <<Scalar(a), Scalar(b)>>, 2, Scalar(c))
      /\ Longer(<<It(1), It(2), It(3)>>, 3, <<It(1), It(2)>>, 2, It(3))
  BY DEF Longer, Tuple
<1>2. Agree(<<Scalar(a), Scalar(b), Scalar(c)>>, 3, <<It(1), It(2), It(3)>>, 3)
  BY Scalars2, <1>1, AgreeIt
<1> QED
  BY <1>2

LEMMA Scalars4 ==
    ASSUME NEW a, NEW b, NEW c, NEW d
    PROVE  Agree(<<Scalar(a), Scalar(b), Scalar(c), Scalar(d)>>, 4,
           <<It(1), It(2), It(3), It(4)>>, 4)
<1>1. /\ Longer(<<Scalar(a), Scalar(b), Scalar(c), Scalar(d)>>, 4,
          <<Scalar(a), Scalar(b), Scalar(c)>>, 3, Scalar(d))
      /\ Longer(<<It(1), It(2), It(3), It(4)>>, 4, <<It(1), It(2), It(3)>>, 3, It(4))
  BY DEF Longer, Tuple
<1>2. Agree(<<Scalar(a), Scalar(b), Scalar(c), Scalar(d)>>, 4, <<It(1), It(2), It(3), It(4)>>, 4)
  BY Scalars3, <1>1, AgreeIt
<1> QED
  BY <1>2

LEMMA Scalars5 ==
    ASSUME NEW a, NEW b, NEW c, NEW d, NEW e
    PROVE  Agree(<<Scalar(a), Scalar(b), Scalar(c), Scalar(d), Scalar(e)>>, 5,
           <<It(1), It(2), It(3), It(4), It(5)>>, 5)
<1>1. /\ Longer(<<Scalar(a), Scalar(b), Scalar(c), Scalar(d), Scalar(e)>>, 5,
          <<Scalar(a), Scalar(b), Scalar(c), Scalar(d)>>, 4, Scalar(e))
      /\ Longer(<<It(1), It(2), It(3), It(4), It(5)>>, 5, <<It(1), It(2), It(3), It(4)>>, 4, It(5))
  BY DEF Longer, Tuple
<1>2. Agree(<<Scalar(a), Scalar(b), Scalar(c), Scalar(d), Scalar(e)>>, 5,
          <<It(1), It(2), It(3), It(4), It(5)>>, 5)
  BY Scalars4, <1>1, AgreeIt
<1> QED
  BY <1>2

LEMMA Scalars6 ==
    ASSUME NEW a, NEW b, NEW c, NEW d, NEW e, NEW f
    PROVE  Agree(<<Scalar(a), Scalar(b), Scalar(c), Scalar(d), Scalar(e), Scalar(f)>>, 6,
           <<It(1), It(2), It(3), It(4), It(5), It(6)>>, 6)
<1>1. /\ Longer(<<Scalar(a), Scalar(b), Scalar(c), Scalar(d), Scalar(e), Scalar(f)>>, 6,
          <<Scalar(a), Scalar(b), Scalar(c), Scalar(d), Scalar(e)>>, 5, Scalar(f))
      /\ Longer(<<It(1), It(2), It(3), It(4), It(5), It(6)>>, 6,
         <<It(1), It(2), It(3), It(4), It(5)>>, 5, It(6))
  BY DEF Longer, Tuple
<1>2. Agree(<<Scalar(a), Scalar(b), Scalar(c), Scalar(d), Scalar(e), Scalar(f)>>, 6,
          <<It(1), It(2), It(3), It(4), It(5), It(6)>>, 6)
  BY Scalars5, <1>1, AgreeIt
<1> QED
  BY <1>2

LEMMA Scalars7 ==
    ASSUME NEW a, NEW b, NEW c, NEW d, NEW e, NEW f, NEW g
    PROVE  Agree(<<Scalar(a), Scalar(b), Scalar(c), Scalar(d), Scalar(e), Scalar(f),
           Scalar(g)>>, 7, <<It(1), It(2), It(3), It(4), It(5), It(6), It(7)>>, 7)
<1>1. /\ Longer(<<Scalar(a), Scalar(b), Scalar(c), Scalar(d), Scalar(e), Scalar(f),
          Scalar(g)>>, 7, <<Scalar(a), Scalar(b), Scalar(c), Scalar(d), Scalar(e), Scalar(f)>>,
          6, Scalar(g))
      /\ Longer(<<It(1), It(2), It(3), It(4), It(5), It(6), It(7)>>, 7,
         <<It(1), It(2), It(3), It(4), It(5), It(6)>>, 6, It(7))
  BY DEF Longer, Tuple
<1>2. Agree(<<Scalar(a), Scalar(b), Scalar(c), Scalar(d), Scalar(e), Scalar(f), Scalar(g)>>, 7,
          <<It(1), It(2), It(3), It(4), It(5), It(6), It(7)>>, 7)
  BY Scalars6, <1>1, AgreeIt
<1> QED
  BY <1>2

LEMMA Scalars8 ==
    ASSUME NEW a, NEW b, NEW c, NEW d, NEW e, NEW f, NEW g, NEW h
    PROVE  Agree(<<Scalar(a), Scalar(b), Scalar(c), Scalar(d), Scalar(e), Scalar(f), Scalar(g),
           Scalar(h)>>, 8, <<It(1), It(2), It(3), It(4), It(5), It(6), It(7), It(8)>>, 8)
<1>1. /\ Longer(<<Scalar(a), Scalar(b), Scalar(c), Scalar(d), Scalar(e), Scalar(f), Scalar(g),
          Scalar(h)>>, 8, <<Scalar(a), Scalar(b), Scalar(c), Scalar(d), Scalar(e), Scalar(f),
          Scalar(g)>>, 7, Scalar(h))
      /\ Longer(<<It(1), It(2), It(3), It(4), It(5), It(6), It(7), It(8)>>, 8,
         <<It(1), It(2), It(3), It(4), It(5), It(6), It(7)>>, 7, It(8))
  BY DEF Longer, Tuple
<1>2. Agree(<<Scalar(a), Scalar(b), Scalar(c), Scalar(d), Scalar(e), Scalar(f), Scalar(g),
          Scalar(h)>>, 8, <<It(1), It(2), It(3), It(4), It(5), It(6), It(7), It(8)>>, 8)
  BY Scalars7, <1>1, AgreeIt
<1> QED
  BY <1>2

LEMMA VoidPassed == /\ Void.passed = InTurn(<<>>) /\ Packed(Void.passed) /\ Void.passed.size = 0
<1>1. Turned(<<>>, 0, Record(<<>>).passed)
  BY AgreeEmpty, AgreeTurned
<1>2. InTurn(<<>>) = Layout(0, 1, {}) /\ Packed(InTurn(<<>>))
  BY TurnedEmpty DEF Turned
<1>3. Layout(0, 1, {}).size = 0
  BY DEF Layout
<1> QED
  BY <1>1, <1>2, <1>3 DEF Turned, Void

LEMMA ScalarPassed ==
    ASSUME NEW size
    PROVE  /\ Scalar(size).passed = InTurn(<<ItAt(<<>>)>>) /\ Packed(Scalar(size).passed)
           /\ Scalar(size).passed.size = 1
<1>1. Scalar(size).passed = Send(<<>>, "scalar")
  BY DEF Scalar, ScalarLayout, Type, Send
<1>2. "scalar" \in Kinds
  BY DEF Kinds
<1>3. Packed(Send(<<>>, "scalar"))
  BY <1>2, RootPath, PackedSend
<1>4. Turned(<<Send(<<>>, "scalar")>>, 1, Send(<<>>, "scalar"))
  BY <1>3, TurnedOne
<1> QED
  BY <1>1, <1>3, <1>4, SendIs DEF Turned, ItAt

LEMMA OptionalIs ==
    ASSUME NEW n \in Nat, NEW size
    PROVE  /\ Packed(Variant(<<Void, Scalar(size)>>).passed)
           /\ Optional(n) = Inside(n, Variant(<<Void, Scalar(size)>>).passed)
<1> DEFINE types == <<Void, Scalar(size)>>
           sends == <<<<>>, <<ItAt(<<>>)>>>>
<1>1. /\ Tuple(types, 2) /\ types[1] = Void /\ types[2] = Scalar(size)
      /\ Tuple(sends, 2) /\ sends[1] = <<>> /\ sends[2] = <<ItAt(<<>>)>>
      /\ \A i \in 1 .. 2 : i = 1 \/ i = 2
  BY DEF Tuple
<1> HIDE DEF types, sends
<1>2. Chosen(types, sends, 2, 1)
  BY <1>1, VoidPassed, ScalarPassed DEF Chosen
<1>3. Optional(n) = ByCase(<<n>>, 2, sends) /\ 2 = 1 + 1
  BY DEF Optional, sends
<1> QED
  BY <1>2, <1>3, ByCaseIs, ByCaseInside DEF types

TimestampType == Variant(<<Void, Void, Record(<<Scalar(8), Scalar(4)>>)>>)

LEMMA TimestampIs ==
    ASSUME NEW n \in Nat
    PROVE  Packed(TimestampType.passed) /\ Timestamp(n) = Inside(n, TimestampType.passed)
<1> DEFINE datetime == Record(<<Scalar(8), Scalar(4)>>)
           types == <<Void, Void, datetime>>
           both == <<ItAt(<<1>>), ItAt(<<2>>)>>
           sends == <<<<>>, <<>>, both>>
<1>0. both = <<It(1), It(2)>>
  BY DEF It
<1>1. Turned(both, 2, datetime.passed)
  BY <1>0, Scalars2, AgreeTurned
<1>2. /\ Tuple(types, 3) /\ types[1] = Void /\ types[2] = Void /\ types[3] = datetime
      /\ Tuple(sends, 3) /\ sends[1] = <<>> /\ sends[2] = <<>> /\ sends[3] = both
      /\ \A i \in 1 .. 3 : i = 1 \/ i = 2 \/ i = 3
  BY DEF Tuple
<1> HIDE DEF types, sends, both, datetime
<1>3. datetime.passed = InTurn(both) /\ Packed(datetime.passed)
  BY <1>1 DEF Turned
<1>4. datetime.passed.size = 2
  BY <1>0, <1>1, SendIs, TurnedSize DEF Singly, It, ItAt
<1>5. Chosen(types, sends, 3, 2)
  BY <1>2, <1>3, <1>4, VoidPassed DEF Chosen
<1>6. Timestamp(n) = ByCase(<<n>>, 3, sends) /\ 3 = 1 + 2
  BY DEF Timestamp, sends, both
<1> QED
  BY <1>5, <1>6, ByCaseIs, ByCaseInside DEF types, datetime, TimestampType

LEMMA InsideIt ==
    ASSUME NEW i \in Nat, NEW k \in Nat
    PROVE  ItAt(<<i, k>>) = Inside(i, It(k))
<1>1. <<i>> \o <<k>> = <<i, k>>
  <2> DEFINE s == <<i>> \o <<k>>
             t == <<i, k>>
  <2>1. <<i>> \in Seq(Nat) /\ <<k>> \in Seq(Nat) /\ Len(<<i>>) = 1 /\ Len(<<k>>) = 1
    OBVIOUS
  <2>2. s \in Seq(Nat) /\ Len(s) = 2
    BY <2>1
  <2>3. s[1] = i /\ s[2] = k
    BY <2>1
  <2>4. t \in Seq(Nat) /\ Len(t) = 2
    OBVIOUS
  <2>5. t[1] = i /\ t[2] = k
    OBVIOUS
  <2> HIDE DEF s, t
  <2>6. \A j \in 1 .. Len(s) : s[j] = t[j]
    BY <2>2, <2>3, <2>5
  <2>7. s = t
    BY <2>2, <2>4, <2>6, SeqEqual
  <2> QED
    BY <2>7 DEF s, t
<1>2. It(k).size = 1 /\ It(k).align = 1 /\ It(k).rows = {Row(<<k>>, "scalar", 0, 1, 0)}
  BY SendIs DEF It, ItAt
<1>3. Under(<<i>>, {Row(<<k>>, "scalar", 0, 1, 0)}) = {Row(<<i, k>>, "scalar", 0, 1, 0)}
  <2> DEFINE r == Row(<<k>>, "scalar", 0, 1, 0)
  <2>1. r.path = <<k>> /\ r.kind = "scalar" /\ r.off = 0 /\ r.size = 1 /\ r.cases = 0
    BY DEF Row
  <2> HIDE DEF r
  <2>2. Under(<<i>>, {r}) = {Row(<<i, k>>, "scalar", 0, 1, 0)}
    BY <1>1, <2>1 DEF Under
  <2> QED
    BY <2>2 DEF r
<1> QED
  BY <1>2, <1>3 DEF Inside, ItAt, Send

LEMMA Address4Is ==
    /\ Turned(address_rows[1], 5, Ipv4Socket.passed)
    /\ Ipv4Socket.passed.size = 5
<1> DEFINE sends == <<ItAt(<<1>>), ItAt(<<2, 1>>), ItAt(<<2, 2>>), ItAt(<<2, 3>>), ItAt(<<2, 4>>)>>
           ps == <<It(1), It(2), It(3), It(4)>>
           qs == <<ItAt(<<2, 1>>), ItAt(<<2, 2>>), ItAt(<<2, 3>>), ItAt(<<2, 4>>)>>
<1>1. Turned(ps, 4, Ipv4.passed)
  BY Scalars4, AgreeTurned DEF Ipv4
<1>2. Insides(qs, 4, 2, ps)
  <2>1. /\ Tuple(qs, 4) /\ qs[1] = ItAt(<<2, 1>>) /\ qs[2] = ItAt(<<2, 2>>)
            /\ qs[3] = ItAt(<<2, 3>>)
        /\ qs[4] = ItAt(<<2, 4>>) /\ ps[1] = It(1) /\ ps[2] = It(2) /\ ps[3] = It(3)
           /\ ps[4] = It(4)
        /\ \A k \in 1 .. 4 : k = 1 \/ k = 2 \/ k = 3 \/ k = 4
    BY DEF Tuple
  <2> HIDE DEF qs, ps
  <2>2. \A k \in 1 .. 4 : qs[k] = ItAt(<<2, k>>) /\ ps[k] = It(k)
    BY <2>1
  <2>3. \A k \in 1 .. 4 : qs[k] = Inside(2, ps[k])
    BY <2>2, InsideIt
  <2> QED
    BY <2>1, <2>3 DEF Insides
<1>3. Agree(<<Scalar(2)>>, 1, <<ItAt(<<1>>)>>, 1)
  BY Scalars1 DEF It
<1>4. Longer(<<Scalar(2), Ipv4>>, 2, <<Scalar(2)>>, 1, Ipv4)
  BY DEF Longer, Tuple
<1>5. Joins(sends, 5, <<ItAt(<<1>>)>>, 1, qs, 4)
  BY DEF Joins, Tuple
<1>6. Singly(sends, 5)
  <2>1. /\ sends[1] = ItAt(<<1>>) /\ sends[2] = ItAt(<<2, 1>>) /\ sends[3] = ItAt(<<2, 2>>)
        /\ sends[4] = ItAt(<<2, 3>>) /\ sends[5] = ItAt(<<2, 4>>)
        /\ \A k \in 1 .. 5 : k = 1 \/ k = 2 \/ k = 3 \/ k = 4 \/ k = 5
    OBVIOUS
  <2> HIDE DEF sends
  <2> QED
    BY <2>1, SendIs DEF Singly, ItAt
<1>7. sends = address_rows[1]
  BY DEF address_rows
<1> HIDE DEF ps, qs, sends
<1>8. Agree(<<Scalar(2), Ipv4>>, 2, sends, 5)
  BY <1>1, <1>2, <1>3, <1>4, <1>5, AgreeMany
<1>9. Turned(sends, 5, Ipv4Socket.passed)
  BY <1>8, AgreeTurned DEF Ipv4Socket
<1> QED
  BY <1>6, <1>7, <1>9, TurnedSize

LEMMA Address6Is ==
    /\ Turned(address_rows[2], 11, Ipv6Socket.passed)
    /\ Ipv6Socket.passed.size = 11
<1> DEFINE first == <<ItAt(<<1>>), ItAt(<<2>>)>>
           some == <<ItAt(<<1>>), ItAt(<<2>>), ItAt(<<3, 1>>), ItAt(<<3, 2>>), ItAt(<<3, 3>>),
               ItAt(<<3, 4>>),
                     ItAt(<<3, 5>>), ItAt(<<3, 6>>), ItAt(<<3, 7>>), ItAt(<<3, 8>>)>>
           sends == <<ItAt(<<1>>), ItAt(<<2>>), ItAt(<<3, 1>>), ItAt(<<3, 2>>), ItAt(<<3, 3>>),
               ItAt(<<3, 4>>),
                      ItAt(<<3, 5>>), ItAt(<<3, 6>>), ItAt(<<3, 7>>), ItAt(<<3, 8>>), ItAt(<<4>>)>>
           ps == <<It(1), It(2), It(3), It(4), It(5), It(6), It(7), It(8)>>
           qs == <<ItAt(<<3, 1>>), ItAt(<<3, 2>>), ItAt(<<3, 3>>), ItAt(<<3, 4>>), ItAt(<<3, 5>>),
                   ItAt(<<3, 6>>), ItAt(<<3, 7>>), ItAt(<<3, 8>>)>>
<1>1. Turned(ps, 8, Ipv6.passed)
  BY Scalars8, AgreeTurned DEF Ipv6
<1>2. Insides(qs, 8, 3, ps)
  <2>1. /\ Tuple(qs, 8) /\ qs[1] = ItAt(<<3, 1>>) /\ qs[2] = ItAt(<<3, 2>>)
            /\ qs[3] = ItAt(<<3, 3>>)
        /\ qs[4] = ItAt(<<3, 4>>) /\ qs[5] = ItAt(<<3, 5>>) /\ qs[6] = ItAt(<<3, 6>>)
        /\ qs[7] = ItAt(<<3, 7>>) /\ qs[8] = ItAt(<<3, 8>>)
    BY DEF Tuple
  <2>2. /\ ps[1] = It(1) /\ ps[2] = It(2) /\ ps[3] = It(3) /\ ps[4] = It(4)
        /\ ps[5] = It(5) /\ ps[6] = It(6) /\ ps[7] = It(7) /\ ps[8] = It(8)
    OBVIOUS
  <2>3. \A k \in 1 .. 8 : k = 1 \/ k = 2 \/ k = 3 \/ k = 4 \/ k = 5 \/ k = 6 \/ k = 7 \/ k = 8
    OBVIOUS
  <2> HIDE DEF qs, ps
  <2>4. \A k \in 1 .. 8 : qs[k] = ItAt(<<3, k>>) /\ ps[k] = It(k)
    BY <2>1, <2>2, <2>3
  <2>5. \A k \in 1 .. 8 : qs[k] = Inside(3, ps[k])
    BY <2>4, InsideIt
  <2> QED
    BY <2>1, <2>5 DEF Insides
<1>3. Agree(<<Scalar(2), Scalar(4)>>, 2, first, 2)
  BY Scalars2 DEF It
<1>4. /\ Longer(<<Scalar(2), Scalar(4), Ipv6>>, 3, <<Scalar(2), Scalar(4)>>, 2, Ipv6)
      /\ Longer(<<Scalar(2), Scalar(4), Ipv6, Scalar(4)>>, 4, <<Scalar(2), Scalar(4), Ipv6>>,
         3, Scalar(4))
  BY DEF Longer, Tuple
<1>5. Joins(some, 10, first, 2, qs, 8)
  <2>1. Tuple(some, 10) /\ \A k \in 1 .. 2 : some[k] = first[k]
    BY DEF Tuple
  <2>2. \A k \in 1 .. 8 : some[2 + k] = qs[k]
    OBVIOUS
  <2> QED
    BY <2>1, <2>2 DEF Joins
<1>6. Longer(sends, 11, some, 10, It(4))
  <2>1. Tuple(sends, 11) /\ sends[11] = It(4)
    BY DEF Tuple, It
  <2>2. \A k \in 1 .. 10 : sends[k] = some[k]
    OBVIOUS
  <2> QED
    BY <2>1, <2>2 DEF Longer
<1>7. Singly(sends, 11)
  <2>1. /\ sends[1] = ItAt(<<1>>) /\ sends[2] = ItAt(<<2>>) /\ sends[3] = ItAt(<<3, 1>>)
        /\ sends[4] = ItAt(<<3, 2>>) /\ sends[5] = ItAt(<<3, 3>>) /\ sends[6] = ItAt(<<3, 4>>)
        /\ sends[7] = ItAt(<<3, 5>>) /\ sends[8] = ItAt(<<3, 6>>) /\ sends[9] = ItAt(<<3, 7>>)
        /\ sends[10] = ItAt(<<3, 8>>) /\ sends[11] = ItAt(<<4>>)
    OBVIOUS
  <2>2. \A k \in 1 .. 11 : k = 1 \/ k = 2 \/ k = 3 \/ k = 4 \/ k = 5 \/ k = 6 \/ k = 7 \/ k = 8
                           \/ k = 9 \/ k = 10 \/ k = 11
    OBVIOUS
  <2>3. \A path : ItAt(path).size = 1
    BY SendIs DEF ItAt
  <2> HIDE DEF sends
  <2>4. /\ sends[1].size = 1 /\ sends[2].size = 1 /\ sends[3].size = 1 /\ sends[4].size = 1
        /\ sends[5].size = 1 /\ sends[6].size = 1 /\ sends[7].size = 1 /\ sends[8].size = 1
        /\ sends[9].size = 1 /\ sends[10].size = 1 /\ sends[11].size = 1
    BY <2>1, <2>3
  <2> QED
    BY <2>2, <2>4 DEF Singly
<1>8. sends = address_rows[2]
  BY DEF address_rows
<1> HIDE DEF ps, qs, sends, some, first
<1>9. Agree(<<Scalar(2), Scalar(4), Ipv6>>, 3, some, 10)
  BY <1>1, <1>2, <1>3, <1>4, <1>5, AgreeMany
<1>10. Agree(<<Scalar(2), Scalar(4), Ipv6, Scalar(4)>>, 4, sends, 11)
  BY <1>4, <1>6, <1>9, AgreeIt
<1>11. Turned(sends, 11, Ipv6Socket.passed)
  BY <1>10, AgreeTurned DEF Ipv6Socket
<1> QED
  BY <1>7, <1>8, <1>11, TurnedSize

LEMMA AddressIs ==
    ASSUME NEW n \in Nat
    PROVE  /\ Packed(IpSocketAddress.passed) /\ Address(n) = Inside(n, IpSocketAddress.passed)
           /\ IpSocketAddress.passed = ByCase(<<>>, 12, address_rows)
              /\ IpSocketAddress.passed.size = 12
<1> DEFINE types == <<Ipv4Socket, Ipv6Socket>>
<1>1. Tuple(types, 2) /\ types[1] = Ipv4Socket /\ types[2] = Ipv6Socket
      /\ \A i \in 1 .. 2 : i = 1 \/ i = 2
  BY DEF Tuple
<1>2. Tuple(address_rows, 2)
  BY DEF Tuple, address_rows
<1> HIDE DEF types
<1>3. Chosen(types, address_rows, 2, 11)
  BY <1>1, <1>2, Address4Is, Address6Is DEF Chosen, Turned
<1>4. Address(n) = ByCase(<<n>>, 12, address_rows) /\ 12 = 1 + 11
  BY DEF Address
<1>5. ByCase(<<>>, 12, address_rows).size = 12
  BY DEF ByCase, Layout
<1> QED
  BY <1>3, <1>4, <1>5, ByCaseIs, ByCaseInside DEF types, IpSocketAddress

LEMMA OptionalAddressIs ==
    ASSUME NEW n \in Nat
    PROVE  /\ Packed(Variant(<<Void, IpSocketAddress>>).passed)
           /\ OptionalAddress(n) = Inside(n, Variant(<<Void, IpSocketAddress>>).passed)
<1> DEFINE types == <<Void, IpSocketAddress>>
           one == <<ByCase(<<>>, 12, address_rows)>>
           sends == <<<<>>, one>>
<1>1. /\ Tuple(types, 2) /\ types[1] = Void /\ types[2] = IpSocketAddress
      /\ Tuple(sends, 2) /\ sends[1] = <<>> /\ sends[2] = one
      /\ \A i \in 1 .. 2 : i = 1 \/ i = 2
  BY DEF Tuple
<1>2. OptionalAddress(n) = ByCase(<<n>>, 13, sends) /\ 13 = 1 + 12
  BY DEF OptionalAddress
<1>3. 0 \in Nat
  OBVIOUS
<1>4. /\ IpSocketAddress.passed = ByCase(<<>>, 12, address_rows) /\ IpSocketAddress.passed.size = 12
      /\ Packed(IpSocketAddress.passed)
  BY <1>3, AddressIs
<1>5. Turned(one, 1, IpSocketAddress.passed)
  BY <1>4, TurnedOne
<1> HIDE DEF types, sends, one
<1>6. IpSocketAddress.passed = InTurn(one)
  BY <1>5 DEF Turned
<1>7. Chosen(types, sends, 2, 12)
  BY <1>1, <1>4, <1>6, VoidPassed DEF Chosen
<1> QED
  BY <1>2, <1>7, ByCaseIs, ByCaseInside DEF types

-----------------------------------------------------------------------------
(* Adapters, by what they pass on.  A name says what the parameters are: L a *)
(* list, S a scalar, O one that may be missing, A an address, B one that may *)
(* be missing, T a time stamp.                                            *)

\* An adapter passes its arguments on as the canonical ABI passes them.
Sends(c) == c.params.passed = c.sends
CallSends(params, sends) == \A t, size, align,
    load : Sends(Call(params, sends, t, size, align, load))

LEMMA CallsSend ==
    ASSUME NEW params, NEW N, NEW sends, NEW M, Agree(params, N, sends, M)
    PROVE  CallSends(params, sends)
<1>1. Record(params).passed = InTurn(sends)
  BY AgreeIs
<1> QED
  BY <1>1 DEF CallSends, Sends, Call

LEMMA NewTimestampType == filesystem_types_new_timestamp = TimestampType
BY DEF filesystem_types_new_timestamp, clocks_wall_clock_datetime, TimestampType

LEMMA PassedL ==
    ASSUME NEW a
    PROVE  Agree(<<List(a)>>, 1, <<Ptr(1), Count(1)>>, 2)
<1>1. /\ Longer(<<List(a)>>, 1, <<>>, 0, List(a))
      /\ Longer(<<Ptr(1)>>, 1, <<>>, 0, Ptr(1))
      /\ Longer(<<Ptr(1), Count(1)>>, 2, <<Ptr(1)>>, 1, Count(1))
  BY DEF Longer, Tuple
<1>2. Agree(<<List(a)>>, 1, <<Ptr(1), Count(1)>>, 2)
  BY AgreeEmpty, <1>1, AgreeList
<1> QED
  BY <1>2

LEMMA PassedLS ==
    ASSUME NEW a, NEW b
    PROVE  Agree(<<List(a), Scalar(b)>>, 2, <<Ptr(1), Count(1), It(2)>>, 3)
<1>1. /\ Longer(<<List(a), Scalar(b)>>, 2, <<List(a)>>, 1, Scalar(b))
      /\ Longer(<<Ptr(1), Count(1), It(2)>>, 3, <<Ptr(1), Count(1)>>, 2, It(2))
  BY DEF Longer, Tuple
<1>2. Agree(<<List(a), Scalar(b)>>, 2, <<Ptr(1), Count(1), It(2)>>, 3)
  BY PassedL, <1>1, AgreeIt
<1> QED
  BY <1>2

LEMMA PassedSB ==
    ASSUME NEW a
    PROVE  Agree(<<Scalar(a), Variant(<<Void, IpSocketAddress>>)>>, 2,
           <<It(1), OptionalAddress(2)>>, 2)
<1>1. /\ Longer(<<Scalar(a), Variant(<<Void, IpSocketAddress>>)>>, 2, <<Scalar(a)>>, 1,
          Variant(<<Void, IpSocketAddress>>))
      /\ Longer(<<It(1), OptionalAddress(2)>>, 2, <<It(1)>>, 1, OptionalAddress(2))
  BY DEF Longer, Tuple
<1>1a. Packed(Variant(<<Void, IpSocketAddress>>).passed)
           /\ OptionalAddress(2) = Inside(2, Variant(<<Void, IpSocketAddress>>).passed)
  BY OptionalAddressIs
<1>2. Agree(<<Scalar(a), Variant(<<Void, IpSocketAddress>>)>>, 2, <<It(1), OptionalAddress(2)>>, 2)
  BY Scalars1, <1>1, <1>1a, AgreeOne
<1> QED
  BY <1>2

LEMMA PassedSL ==
    ASSUME NEW a, NEW b
    PROVE  Agree(<<Scalar(a), List(b)>>, 2, <<It(1), Ptr(2), Count(2)>>, 3)
<1>1. /\ Longer(<<Scalar(a), List(b)>>, 2, <<Scalar(a)>>, 1, List(b))
      /\ Longer(<<It(1), Ptr(2)>>, 2, <<It(1)>>, 1, Ptr(2))
      /\ Longer(<<It(1), Ptr(2), Count(2)>>, 3, <<It(1), Ptr(2)>>, 2, Count(2))
  BY DEF Longer, Tuple
<1>2. Agree(<<Scalar(a), List(b)>>, 2, <<It(1), Ptr(2), Count(2)>>, 3)
  BY Scalars1, <1>1, AgreeList
<1> QED
  BY <1>2

LEMMA PassedSO ==
    ASSUME NEW a, NEW b
    PROVE  Agree(<<Scalar(a), Variant(<<Void, Scalar(b)>>)>>, 2, <<It(1), Optional(2)>>, 2)
<1>1. /\ Longer(<<Scalar(a), Variant(<<Void, Scalar(b)>>)>>, 2, <<Scalar(a)>>, 1,
          Variant(<<Void, Scalar(b)>>))
      /\ Longer(<<It(1), Optional(2)>>, 2, <<It(1)>>, 1, Optional(2))
  BY DEF Longer, Tuple
<1>1a. Packed(Variant(<<Void, Scalar(b)>>).passed)
           /\ Optional(2) = Inside(2, Variant(<<Void, Scalar(b)>>).passed)
  BY OptionalIs
<1>2. Agree(<<Scalar(a), Variant(<<Void, Scalar(b)>>)>>, 2, <<It(1), Optional(2)>>, 2)
  BY Scalars1, <1>1, <1>1a, AgreeOne
<1> QED
  BY <1>2

LEMMA PassedLLO ==
    ASSUME NEW a, NEW b, NEW c
    PROVE  Agree(<<List(a), List(b), Variant(<<Void, Scalar(c)>>)>>, 3,
           <<Ptr(1), Count(1), Ptr(2), Count(2), Optional(3)>>, 5)
<1>1. /\ Longer(<<List(a), List(b)>>, 2, <<List(a)>>, 1, List(b))
      /\ Longer(<<Ptr(1), Count(1), Ptr(2)>>, 3, <<Ptr(1), Count(1)>>, 2, Ptr(2))
      /\ Longer(<<Ptr(1), Count(1), Ptr(2), Count(2)>>, 4, <<Ptr(1), Count(1), Ptr(2)>>, 3,
         Count(2))
  BY DEF Longer, Tuple
<1>2. Agree(<<List(a), List(b)>>, 2, <<Ptr(1), Count(1), Ptr(2), Count(2)>>, 4)
  BY PassedL, <1>1, AgreeList
<1>3. /\ Longer(<<List(a), List(b), Variant(<<Void, Scalar(c)>>)>>, 3, <<List(a), List(b)>>, 2,
          Variant(<<Void, Scalar(c)>>))
      /\ Longer(<<Ptr(1), Count(1), Ptr(2), Count(2), Optional(3)>>, 5,
         <<Ptr(1), Count(1), Ptr(2), Count(2)>>, 4, Optional(3))
  BY DEF Longer, Tuple
<1>3a. Packed(Variant(<<Void, Scalar(c)>>).passed)
           /\ Optional(3) = Inside(3, Variant(<<Void, Scalar(c)>>).passed)
  BY OptionalIs
<1>4. Agree(<<List(a), List(b), Variant(<<Void, Scalar(c)>>)>>, 3,
          <<Ptr(1), Count(1), Ptr(2), Count(2), Optional(3)>>, 5)
  BY <1>2, <1>3, <1>3a, AgreeOne
<1> QED
  BY <1>4

LEMMA PassedSLL ==
    ASSUME NEW a, NEW b, NEW c
    PROVE  Agree(<<Scalar(a), List(b), List(c)>>, 3,
           <<It(1), Ptr(2), Count(2), Ptr(3), Count(3)>>, 5)
<1>1. /\ Longer(<<Scalar(a), List(b), List(c)>>, 3, <<Scalar(a), List(b)>>, 2, List(c))
      /\ Longer(<<It(1), Ptr(2), Count(2), Ptr(3)>>, 4, <<It(1), Ptr(2), Count(2)>>, 3, Ptr(3))
      /\ Longer(<<It(1), Ptr(2), Count(2), Ptr(3), Count(3)>>, 5,
         <<It(1), Ptr(2), Count(2), Ptr(3)>>, 4, Count(3))
  BY DEF Longer, Tuple
<1>2. Agree(<<Scalar(a), List(b), List(c)>>, 3, <<It(1), Ptr(2), Count(2), Ptr(3), Count(3)>>, 5)
  BY PassedSL, <1>1, AgreeList
<1> QED
  BY <1>2

LEMMA PassedSLS ==
    ASSUME NEW a, NEW b, NEW c
    PROVE  Agree(<<Scalar(a), List(b), Scalar(c)>>, 3, <<It(1), Ptr(2), Count(2), It(3)>>, 4)
<1>1. /\ Longer(<<Scalar(a), List(b), Scalar(c)>>, 3, <<Scalar(a), List(b)>>, 2, Scalar(c))
      /\ Longer(<<It(1), Ptr(2), Count(2), It(3)>>, 4, <<It(1), Ptr(2), Count(2)>>, 3, It(3))
  BY DEF Longer, Tuple
<1>2. Agree(<<Scalar(a), List(b), Scalar(c)>>, 3, <<It(1), Ptr(2), Count(2), It(3)>>, 4)
  BY PassedSL, <1>1, AgreeIt
<1> QED
  BY <1>2

LEMMA PassedSSA ==
    ASSUME NEW a, NEW b
    PROVE  Agree(<<Scalar(a), Scalar(b), IpSocketAddress>>, 3, <<It(1), It(2), Address(3)>>, 3)
<1>1. /\ Longer(<<Scalar(a), Scalar(b), IpSocketAddress>>, 3, <<Scalar(a), Scalar(b)>>, 2,
          IpSocketAddress)
      /\ Longer(<<It(1), It(2), Address(3)>>, 3, <<It(1), It(2)>>, 2, Address(3))
  BY DEF Longer, Tuple
<1>1a. Packed(IpSocketAddress.passed) /\ Address(3) = Inside(3, IpSocketAddress.passed)
  BY AddressIs
<1>2. Agree(<<Scalar(a), Scalar(b), IpSocketAddress>>, 3, <<It(1), It(2), Address(3)>>, 3)
  BY Scalars2, <1>1, <1>1a, AgreeOne
<1> QED
  BY <1>2

LEMMA PassedSSL ==
    ASSUME NEW a, NEW b, NEW c
    PROVE  Agree(<<Scalar(a), Scalar(b), List(c)>>, 3, <<It(1), It(2), Ptr(3), Count(3)>>, 4)
<1>1. /\ Longer(<<Scalar(a), Scalar(b), List(c)>>, 3, <<Scalar(a), Scalar(b)>>, 2, List(c))
      /\ Longer(<<It(1), It(2), Ptr(3)>>, 3, <<It(1), It(2)>>, 2, Ptr(3))
      /\ Longer(<<It(1), It(2), Ptr(3), Count(3)>>, 4, <<It(1), It(2), Ptr(3)>>, 3, Count(3))
  BY DEF Longer, Tuple
<1>2. Agree(<<Scalar(a), Scalar(b), List(c)>>, 3, <<It(1), It(2), Ptr(3), Count(3)>>, 4)
  BY Scalars2, <1>1, AgreeList
<1> QED
  BY <1>2

LEMMA PassedSTT ==
    ASSUME NEW a
    PROVE  Agree(<<Scalar(a), TimestampType, TimestampType>>, 3,
           <<It(1), Timestamp(2), Timestamp(3)>>, 3)
<1>1. /\ Longer(<<Scalar(a), TimestampType>>, 2, <<Scalar(a)>>, 1, TimestampType)
      /\ Longer(<<It(1), Timestamp(2)>>, 2, <<It(1)>>, 1, Timestamp(2))
  BY DEF Longer, Tuple
<1>1a. Packed(TimestampType.passed) /\ Timestamp(2) = Inside(2, TimestampType.passed)
  BY TimestampIs
<1>2. Agree(<<Scalar(a), TimestampType>>, 2, <<It(1), Timestamp(2)>>, 2)
  BY Scalars1, <1>1, <1>1a, AgreeOne
<1>3. /\ Longer(<<Scalar(a), TimestampType, TimestampType>>, 3, <<Scalar(a), TimestampType>>,
          2, TimestampType)
      /\ Longer(<<It(1), Timestamp(2), Timestamp(3)>>, 3, <<It(1), Timestamp(2)>>, 2, Timestamp(3))
  BY DEF Longer, Tuple
<1>3a. Packed(TimestampType.passed) /\ Timestamp(3) = Inside(3, TimestampType.passed)
  BY TimestampIs
<1>4. Agree(<<Scalar(a), TimestampType, TimestampType>>, 3,
          <<It(1), Timestamp(2), Timestamp(3)>>, 3)
  BY <1>2, <1>3, <1>3a, AgreeOne
<1> QED
  BY <1>4

LEMMA PassedSLSL ==
    ASSUME NEW a, NEW b, NEW c, NEW d
    PROVE  Agree(<<Scalar(a), List(b), Scalar(c), List(d)>>, 4,
           <<It(1), Ptr(2), Count(2), It(3), Ptr(4), Count(4)>>, 6)
<1>1. /\ Longer(<<Scalar(a), List(b), Scalar(c), List(d)>>, 4,
          <<Scalar(a), List(b), Scalar(c)>>, 3, List(d))
      /\ Longer(<<It(1), Ptr(2), Count(2), It(3), Ptr(4)>>, 5,
         <<It(1), Ptr(2), Count(2), It(3)>>, 4, Ptr(4))
      /\ Longer(<<It(1), Ptr(2), Count(2), It(3), Ptr(4), Count(4)>>, 6,
         <<It(1), Ptr(2), Count(2), It(3), Ptr(4)>>, 5, Count(4))
  BY DEF Longer, Tuple
<1>2. Agree(<<Scalar(a), List(b), Scalar(c), List(d)>>, 4,
          <<It(1), Ptr(2), Count(2), It(3), Ptr(4), Count(4)>>, 6)
  BY PassedSLS, <1>1, AgreeList
<1> QED
  BY <1>2

LEMMA PassedSLSS ==
    ASSUME NEW a, NEW b, NEW c, NEW d
    PROVE  Agree(<<Scalar(a), List(b), Scalar(c), Scalar(d)>>, 4,
           <<It(1), Ptr(2), Count(2), It(3), It(4)>>, 5)
<1>1. /\ Longer(<<Scalar(a), List(b), Scalar(c), Scalar(d)>>, 4,
          <<Scalar(a), List(b), Scalar(c)>>, 3, Scalar(d))
      /\ Longer(<<It(1), Ptr(2), Count(2), It(3), It(4)>>, 5,
         <<It(1), Ptr(2), Count(2), It(3)>>, 4, It(4))
  BY DEF Longer, Tuple
<1>2. Agree(<<Scalar(a), List(b), Scalar(c), Scalar(d)>>, 4,
          <<It(1), Ptr(2), Count(2), It(3), It(4)>>, 5)
  BY PassedSLS, <1>1, AgreeIt
<1> QED
  BY <1>2

LEMMA PassedSSLSL ==
    ASSUME NEW a, NEW b, NEW c, NEW d, NEW e
    PROVE  Agree(<<Scalar(a), Scalar(b), List(c), Scalar(d), List(e)>>, 5,
           <<It(1), It(2), Ptr(3), Count(3), It(4), Ptr(5), Count(5)>>, 7)
<1>1. /\ Longer(<<Scalar(a), Scalar(b), List(c), Scalar(d)>>, 4,
          <<Scalar(a), Scalar(b), List(c)>>, 3, Scalar(d))
      /\ Longer(<<It(1), It(2), Ptr(3), Count(3), It(4)>>, 5,
         <<It(1), It(2), Ptr(3), Count(3)>>, 4, It(4))
  BY DEF Longer, Tuple
<1>2. Agree(<<Scalar(a), Scalar(b), List(c), Scalar(d)>>, 4,
          <<It(1), It(2), Ptr(3), Count(3), It(4)>>, 5)
  BY PassedSSL, <1>1, AgreeIt
<1>3. /\ Longer(<<Scalar(a), Scalar(b), List(c), Scalar(d), List(e)>>, 5,
          <<Scalar(a), Scalar(b), List(c), Scalar(d)>>, 4, List(e))
      /\ Longer(<<It(1), It(2), Ptr(3), Count(3), It(4), Ptr(5)>>, 6,
         <<It(1), It(2), Ptr(3), Count(3), It(4)>>, 5, Ptr(5))
      /\ Longer(<<It(1), It(2), Ptr(3), Count(3), It(4), Ptr(5), Count(5)>>, 7,
         <<It(1), It(2), Ptr(3), Count(3), It(4), Ptr(5)>>, 6, Count(5))
  BY DEF Longer, Tuple
<1>4. Agree(<<Scalar(a), Scalar(b), List(c), Scalar(d), List(e)>>, 5,
          <<It(1), It(2), Ptr(3), Count(3), It(4), Ptr(5), Count(5)>>, 7)
  BY <1>2, <1>3, AgreeList
<1> QED
  BY <1>4

LEMMA PassedSSLSS ==
    ASSUME NEW a, NEW b, NEW c, NEW d, NEW e
    PROVE  Agree(<<Scalar(a), Scalar(b), List(c), Scalar(d), Scalar(e)>>, 5,
           <<It(1), It(2), Ptr(3), Count(3), It(4), It(5)>>, 6)
<1>1. /\ Longer(<<Scalar(a), Scalar(b), List(c), Scalar(d)>>, 4,
          <<Scalar(a), Scalar(b), List(c)>>, 3, Scalar(d))
      /\ Longer(<<It(1), It(2), Ptr(3), Count(3), It(4)>>, 5,
         <<It(1), It(2), Ptr(3), Count(3)>>, 4, It(4))
  BY DEF Longer, Tuple
<1>2. Agree(<<Scalar(a), Scalar(b), List(c), Scalar(d)>>, 4,
          <<It(1), It(2), Ptr(3), Count(3), It(4)>>, 5)
  BY PassedSSL, <1>1, AgreeIt
<1>3. /\ Longer(<<Scalar(a), Scalar(b), List(c), Scalar(d), Scalar(e)>>, 5,
          <<Scalar(a), Scalar(b), List(c), Scalar(d)>>, 4, Scalar(e))
      /\ Longer(<<It(1), It(2), Ptr(3), Count(3), It(4), It(5)>>, 6,
         <<It(1), It(2), Ptr(3), Count(3), It(4)>>, 5, It(5))
  BY DEF Longer, Tuple
<1>4. Agree(<<Scalar(a), Scalar(b), List(c), Scalar(d), Scalar(e)>>, 5,
          <<It(1), It(2), Ptr(3), Count(3), It(4), It(5)>>, 6)
  BY <1>2, <1>3, AgreeIt
<1> QED
  BY <1>4

LEMMA PassedSSLTT ==
    ASSUME NEW a, NEW b, NEW c
    PROVE  Agree(<<Scalar(a), Scalar(b), List(c), TimestampType, TimestampType>>, 5,
           <<It(1), It(2), Ptr(3), Count(3), Timestamp(4), Timestamp(5)>>, 6)
<1>1. /\ Longer(<<Scalar(a), Scalar(b), List(c), TimestampType>>, 4,
          <<Scalar(a), Scalar(b), List(c)>>, 3, TimestampType)
      /\ Longer(<<It(1), It(2), Ptr(3), Count(3), Timestamp(4)>>, 5,
         <<It(1), It(2), Ptr(3), Count(3)>>, 4, Timestamp(4))
  BY DEF Longer, Tuple
<1>1a. Packed(TimestampType.passed) /\ Timestamp(4) = Inside(4, TimestampType.passed)
  BY TimestampIs
<1>2. Agree(<<Scalar(a), Scalar(b), List(c), TimestampType>>, 4,
          <<It(1), It(2), Ptr(3), Count(3), Timestamp(4)>>, 5)
  BY PassedSSL, <1>1, <1>1a, AgreeOne
<1>3. /\ Longer(<<Scalar(a), Scalar(b), List(c), TimestampType, TimestampType>>, 5,
          <<Scalar(a), Scalar(b), List(c), TimestampType>>, 4, TimestampType)
      /\ Longer(<<It(1), It(2), Ptr(3), Count(3), Timestamp(4), Timestamp(5)>>, 6,
         <<It(1), It(2), Ptr(3), Count(3), Timestamp(4)>>, 5, Timestamp(5))
  BY DEF Longer, Tuple
<1>3a. Packed(TimestampType.passed) /\ Timestamp(5) = Inside(5, TimestampType.passed)
  BY TimestampIs
<1>4. Agree(<<Scalar(a), Scalar(b), List(c), TimestampType, TimestampType>>, 5,
          <<It(1), It(2), Ptr(3), Count(3), Timestamp(4), Timestamp(5)>>, 6)
  BY <1>2, <1>3, <1>3a, AgreeOne
<1> QED
  BY <1>4

-----------------------------------------------------------------------------
(* Every adapter of bindings.c.                                           *)

\* An adapter reads its answer and passes its arguments.
Serves(c) == Answers(c) /\ Sends(c)

LEMMA CallServes ==
    ASSUME NEW params, NEW sends, CallSends(params, sends),
           NEW t, NEW size, NEW align, NEW load, At(load, 0, t, size, align)
    PROVE  Serves(Call(params, sends, t, size, align, load))
BY CallAnswers DEF CallSends, Serves

\* The adapters of the FastEdge packages read what is answered and pass on what they are given.
LEMMA GcoreCallsServe == \A c \in DOMAIN gcore_fastedge : Serves(gcore_fastedge[c])
<1>1. Serves(dictionary_get)
  BY DictionaryGetAnswer, PassedL, CallsSend, CallServes
     DEF dictionary_get, option_string, Option, String
<1>2. Serves(secret_get)
  BY SecretGetAnswer, PassedL, CallsSend, CallServes
     DEF secret_get, secret_result_option_string_error, Result, option_string, Option, String,
        secret_error
<1>3. Serves(secret_get_effective_at)
  BY SecretGetAnswer, PassedLS, CallsSend, CallServes
     DEF secret_get_effective_at, secret_result_option_string_error, Result, option_string, Option,
        String, secret_error
<1>4. Serves(key_value_static_store_open)
  BY KeyValueStaticStoreOpenAnswer, PassedL, CallsSend, CallServes
     DEF key_value_static_store_open, key_value_result_own_store_error, Result, Handle,
        key_value_error, String
<1>5. Serves(key_value_method_store_get)
  BY KeyValueMethodStoreGetAnswer, PassedSL, CallsSend, CallServes
     DEF key_value_method_store_get, key_value_result_option_value_error, Result, option_value,
        Option, key_value_value, key_value_error, String, Handle
<1>6. Serves(key_value_method_store_scan)
  BY KeyValueMethodStoreScanAnswer, PassedSL, CallsSend, CallServes
     DEF key_value_method_store_scan, key_value_result_list_string_error, Result, list_string,
        String, key_value_error, Handle
<1>7. Serves(key_value_method_store_zrange_by_score)
  BY KeyValueMethodStoreZrangeByScoreAnswer, PassedSLSS, CallsSend, CallServes
     DEF key_value_method_store_zrange_by_score, key_value_result_list_tuple2_value_f64_error,
        Result, list_tuple2_value_f64, tuple2_value_f64, key_value_value, key_value_error, String,
        Handle
<1>8. Serves(key_value_method_store_zscan)
  BY KeyValueMethodStoreZrangeByScoreAnswer, PassedSLL, CallsSend, CallServes
     DEF key_value_method_store_zscan, key_value_result_list_tuple2_value_f64_error, Result,
        list_tuple2_value_f64, tuple2_value_f64, key_value_value, key_value_error, String, Handle
<1>9. Serves(key_value_method_store_bf_exists)
  BY KeyValueMethodStoreBfExistsAnswer, PassedSLL, CallsSend, CallServes
     DEF key_value_method_store_bf_exists, key_value_result_bool_error, Result, Bool,
        key_value_error, String, Handle
<1>10. Serves(cache_sync_get)
  BY CacheSyncGetAnswer, PassedL, CallsSend, CallServes
     DEF cache_sync_get, cache_sync_result_option_payload_error, Result, option_payload, Option,
        cache_types_payload, cache_types_error, String
<1>11. Serves(cache_sync_set)
  BY CacheSyncSetAnswer, PassedLLO, CallsSend, CallServes
     DEF cache_sync_set, cache_sync_result_void_error, Result, cache_types_error, String,
        cache_types_payload, option_u64, Option
<1>12. Serves(cache_sync_delete)
  BY CacheSyncSetAnswer, PassedL, CallsSend, CallServes
     DEF cache_sync_delete, cache_sync_result_void_error, Result, cache_types_error, String
<1>13. Serves(cache_sync_exists)
  BY CacheSyncExistsAnswer, PassedL, CallsSend, CallServes
     DEF cache_sync_exists, cache_sync_result_bool_error, Result, Bool, cache_types_error, String
<1>14. Serves(cache_sync_incr)
  BY CacheSyncIncrAnswer, PassedLS, CallsSend, CallServes
     DEF cache_sync_incr, cache_sync_result_s64_error, Result, cache_types_error, String
<1>15. Serves(cache_sync_expire)
  BY CacheSyncExistsAnswer, PassedLS, CallsSend, CallServes
     DEF cache_sync_expire, cache_sync_result_bool_error, Result, Bool, cache_types_error, String
<1>16. Serves(cache_sync_purge)
  BY CacheSyncIncrAnswer, AgreeEmpty, CallsSend, CallServes
     DEF cache_sync_purge, cache_sync_result_u64_error, Result, cache_types_error, String
<1>17. Serves(cache_sync_purge_prefix)
  BY CacheSyncIncrAnswer, PassedL, CallsSend, CallServes
     DEF cache_sync_purge_prefix, cache_sync_result_u64_error, Result, cache_types_error, String
<1>18. Serves(utils_set_user_diag)
  BY UtilsSetUserDiagAnswer, PassedL, CallsSend, CallServes
     DEF utils_set_user_diag, String
<1> QED
  BY SMTT(60), <1>1, <1>2, <1>3, <1>4, <1>5, <1>6, <1>7, <1>8, <1>9, <1>10, <1>11, <1>12, <1>13,
     <1>14, <1>15, <1>16, <1>17, <1>18
     DEF gcore_fastedge

\* So do those of WASI for the command line, clocks and streams;
LEMMA CliCallsServe == \A c \in DOMAIN wasi_cli : Serves(wasi_cli[c])
<1>1. Serves(cli_environment_get_environment)
  BY CliEnvironmentGetEnvironmentAnswer, AgreeEmpty, CallsSend, CallServes
     DEF cli_environment_get_environment, list_tuple2_string_string, tuple2_string_string, String
<1>2. Serves(cli_environment_get_arguments)
  BY CliEnvironmentGetArgumentsAnswer, AgreeEmpty, CallsSend, CallServes
     DEF cli_environment_get_arguments, list_string, String
<1>3. Serves(cli_environment_initial_cwd)
  BY DictionaryGetAnswer, AgreeEmpty, CallsSend, CallServes
     DEF cli_environment_initial_cwd, option_string, Option, String
<1>4. Serves(io_error_method_error_to_debug_string)
  BY IoErrorMethodErrorToDebugStringAnswer, Scalars1, CallsSend, CallServes
     DEF io_error_method_error_to_debug_string, String, Handle
<1>5. Serves(io_poll_poll)
  BY IoPollPollAnswer, PassedL, CallsSend, CallServes
     DEF io_poll_poll, list_u32, io_poll_list_borrow_pollable
<1>6. Serves(io_streams_method_input_stream_read)
  BY IoStreamsMethodInputStreamReadAnswer, Scalars2, CallsSend, CallServes
     DEF io_streams_method_input_stream_read, io_streams_result_list_u8_stream_error, Result,
        list_u8, io_streams_stream_error, Handle
<1>7. Serves(io_streams_method_input_stream_blocking_read)
  BY IoStreamsMethodInputStreamReadAnswer, Scalars2, CallsSend, CallServes
     DEF io_streams_method_input_stream_blocking_read, io_streams_result_list_u8_stream_error,
        Result, list_u8, io_streams_stream_error, Handle
<1>8. Serves(io_streams_method_input_stream_skip)
  BY IoStreamsMethodInputStreamSkipAnswer, Scalars2, CallsSend, CallServes
     DEF io_streams_method_input_stream_skip, io_streams_result_u64_stream_error, Result,
        io_streams_stream_error, Handle
<1>9. Serves(io_streams_method_input_stream_blocking_skip)
  BY IoStreamsMethodInputStreamSkipAnswer, Scalars2, CallsSend, CallServes
     DEF io_streams_method_input_stream_blocking_skip, io_streams_result_u64_stream_error, Result,
        io_streams_stream_error, Handle
<1>10. Serves(io_streams_method_output_stream_check_write)
  BY IoStreamsMethodInputStreamSkipAnswer, Scalars1, CallsSend, CallServes
     DEF io_streams_method_output_stream_check_write, io_streams_result_u64_stream_error, Result,
        io_streams_stream_error, Handle
<1>11. Serves(io_streams_method_output_stream_write)
  BY IoStreamsMethodOutputStreamWriteAnswer, PassedSL, CallsSend, CallServes
     DEF io_streams_method_output_stream_write, io_streams_result_void_stream_error, Result,
        io_streams_stream_error, Handle, list_u8
<1>12. Serves(io_streams_method_output_stream_blocking_write_and_flush)
  BY IoStreamsMethodOutputStreamWriteAnswer, PassedSL, CallsSend, CallServes
     DEF io_streams_method_output_stream_blocking_write_and_flush,
        io_streams_result_void_stream_error, Result, io_streams_stream_error, Handle, list_u8
<1>13. Serves(io_streams_method_output_stream_flush)
  BY IoStreamsMethodOutputStreamWriteAnswer, Scalars1, CallsSend, CallServes
     DEF io_streams_method_output_stream_flush, io_streams_result_void_stream_error, Result,
        io_streams_stream_error, Handle
<1>14. Serves(io_streams_method_output_stream_blocking_flush)
  BY IoStreamsMethodOutputStreamWriteAnswer, Scalars1, CallsSend, CallServes
     DEF io_streams_method_output_stream_blocking_flush, io_streams_result_void_stream_error,
        Result, io_streams_stream_error, Handle
<1>15. Serves(io_streams_method_output_stream_write_zeroes)
  BY IoStreamsMethodOutputStreamWriteAnswer, Scalars2, CallsSend, CallServes
     DEF io_streams_method_output_stream_write_zeroes, io_streams_result_void_stream_error, Result,
        io_streams_stream_error, Handle
<1>16. Serves(io_streams_method_output_stream_blocking_write_zeroes_and_flush)
  BY IoStreamsMethodOutputStreamWriteAnswer, Scalars2, CallsSend, CallServes
     DEF io_streams_method_output_stream_blocking_write_zeroes_and_flush,
        io_streams_result_void_stream_error, Result, io_streams_stream_error, Handle
<1>17. Serves(io_streams_method_output_stream_splice)
  BY IoStreamsMethodInputStreamSkipAnswer, Scalars3, CallsSend, CallServes
     DEF io_streams_method_output_stream_splice, io_streams_result_u64_stream_error, Result,
        io_streams_stream_error, Handle
<1>18. Serves(io_streams_method_output_stream_blocking_splice)
  BY IoStreamsMethodInputStreamSkipAnswer, Scalars3, CallsSend, CallServes
     DEF io_streams_method_output_stream_blocking_splice, io_streams_result_u64_stream_error,
        Result, io_streams_stream_error, Handle
<1>19. Serves(cli_terminal_stdin_get_terminal_stdin)
  BY CliTerminalStdinGetTerminalStdinAnswer, AgreeEmpty, CallsSend, CallServes
     DEF cli_terminal_stdin_get_terminal_stdin, cli_terminal_stdin_option_own_terminal_input,
        Option, Handle
<1>20. Serves(cli_terminal_stdout_get_terminal_stdout)
  BY CliTerminalStdinGetTerminalStdinAnswer, AgreeEmpty, CallsSend, CallServes
     DEF cli_terminal_stdout_get_terminal_stdout, cli_terminal_stdout_option_own_terminal_output,
        Option, Handle
<1>21. Serves(cli_terminal_stderr_get_terminal_stderr)
  BY CliTerminalStdinGetTerminalStdinAnswer, AgreeEmpty, CallsSend, CallServes
     DEF cli_terminal_stderr_get_terminal_stderr, cli_terminal_stderr_option_own_terminal_output,
        Option, Handle
<1>22. Serves(clocks_wall_clock_now)
  BY ClocksWallClockNowAnswer, AgreeEmpty, CallsSend, CallServes
     DEF clocks_wall_clock_now, clocks_wall_clock_datetime
<1>23. Serves(clocks_wall_clock_resolution)
  BY ClocksWallClockNowAnswer, AgreeEmpty, CallsSend, CallServes
     DEF clocks_wall_clock_resolution, clocks_wall_clock_datetime
<1>24. Serves(random_random_get_random_bytes)
  BY IoErrorMethodErrorToDebugStringAnswer, Scalars1, CallsSend, CallServes
     DEF random_random_get_random_bytes, list_u8
<1>25. Serves(random_insecure_get_insecure_random_bytes)
  BY IoErrorMethodErrorToDebugStringAnswer, Scalars1, CallsSend, CallServes
     DEF random_insecure_get_insecure_random_bytes, list_u8
<1>26. Serves(random_insecure_seed_insecure_seed)
  BY RandomInsecureSeedInsecureSeedAnswer, AgreeEmpty, CallsSend, CallServes
     DEF random_insecure_seed_insecure_seed, tuple2_u64_u64
<1> QED
  BY SMTT(60), <1>1, <1>2, <1>3, <1>4, <1>5, <1>6, <1>7, <1>8, <1>9, <1>10, <1>11, <1>12, <1>13,
     <1>14, <1>15, <1>16, <1>17, <1>18, <1>19, <1>20, <1>21, <1>22, <1>23, <1>24, <1>25, <1>26
     DEF wasi_cli

\* for the file system;
LEMMA FilesystemCallsServe == \A c \in DOMAIN wasi_filesystem : Serves(wasi_filesystem[c])
<1>1. Serves(filesystem_types_method_descriptor_read_via_stream)
  BY FilesystemTypesMethodDescriptorReadViaStreamAnswer, Scalars2, CallsSend, CallServes
     DEF filesystem_types_method_descriptor_read_via_stream,
        filesystem_types_result_own_input_stream_error_code, Result, Handle,
        filesystem_types_error_code, Enum
<1>2. Serves(filesystem_types_method_descriptor_write_via_stream)
  BY FilesystemTypesMethodDescriptorReadViaStreamAnswer, Scalars2, CallsSend, CallServes
     DEF filesystem_types_method_descriptor_write_via_stream,
        filesystem_types_result_own_output_stream_error_code, Result, Handle,
        filesystem_types_error_code, Enum
<1>3. Serves(filesystem_types_method_descriptor_append_via_stream)
  BY FilesystemTypesMethodDescriptorReadViaStreamAnswer, Scalars1, CallsSend, CallServes
     DEF filesystem_types_method_descriptor_append_via_stream,
        filesystem_types_result_own_output_stream_error_code, Result, Handle,
        filesystem_types_error_code, Enum
<1>4. Serves(filesystem_types_method_descriptor_advise)
  BY FilesystemTypesMethodDescriptorAdviseAnswer, Scalars4, CallsSend, CallServes
     DEF filesystem_types_method_descriptor_advise, filesystem_types_result_void_error_code, Result,
        filesystem_types_error_code, Enum, Handle, filesystem_types_advice
<1>5. Serves(filesystem_types_method_descriptor_sync_data)
  BY FilesystemTypesMethodDescriptorAdviseAnswer, Scalars1, CallsSend, CallServes
     DEF filesystem_types_method_descriptor_sync_data, filesystem_types_result_void_error_code,
        Result, filesystem_types_error_code, Enum, Handle
<1>6. Serves(filesystem_types_method_descriptor_get_flags)
  BY FilesystemTypesMethodDescriptorGetFlagsAnswer, Scalars1, CallsSend, CallServes
     DEF filesystem_types_method_descriptor_get_flags,
        filesystem_types_result_descriptor_flags_error_code, Result,
        filesystem_types_descriptor_flags, Enum, filesystem_types_error_code, Handle
<1>7. Serves(filesystem_types_method_descriptor_get_type)
  BY FilesystemTypesMethodDescriptorGetFlagsAnswer, Scalars1, CallsSend, CallServes
     DEF filesystem_types_method_descriptor_get_type,
        filesystem_types_result_descriptor_type_error_code, Result,
        filesystem_types_descriptor_type, Enum, filesystem_types_error_code, Handle
<1>8. Serves(filesystem_types_method_descriptor_set_size)
  BY FilesystemTypesMethodDescriptorAdviseAnswer, Scalars2, CallsSend, CallServes
     DEF filesystem_types_method_descriptor_set_size, filesystem_types_result_void_error_code,
        Result, filesystem_types_error_code, Enum, Handle
<1>9. Serves(filesystem_types_method_descriptor_set_times)
  BY FilesystemTypesMethodDescriptorAdviseAnswer, PassedSTT, NewTimestampType, CallsSend, CallServes
     DEF filesystem_types_method_descriptor_set_times, filesystem_types_result_void_error_code,
        Result, filesystem_types_error_code, Enum, Handle
<1>10. Serves(filesystem_types_method_descriptor_read)
  BY FilesystemTypesMethodDescriptorReadAnswer, Scalars3, CallsSend, CallServes
     DEF filesystem_types_method_descriptor_read,
        filesystem_types_result_tuple2_list_u8_bool_error_code, Result, tuple2_list_u8_bool,
        list_u8, Bool, filesystem_types_error_code, Enum, Handle
<1>11. Serves(filesystem_types_method_descriptor_write)
  BY FilesystemTypesMethodDescriptorWriteAnswer, PassedSLS, CallsSend, CallServes
     DEF filesystem_types_method_descriptor_write, filesystem_types_result_filesize_error_code,
        Result, filesystem_types_error_code, Enum, Handle, list_u8
<1>12. Serves(filesystem_types_method_descriptor_read_directory)
  BY FilesystemTypesMethodDescriptorReadViaStreamAnswer, Scalars1, CallsSend, CallServes
     DEF filesystem_types_method_descriptor_read_directory,
        filesystem_types_result_own_directory_entry_stream_error_code, Result, Handle,
        filesystem_types_error_code, Enum
<1>13. Serves(filesystem_types_method_descriptor_sync)
  BY FilesystemTypesMethodDescriptorAdviseAnswer, Scalars1, CallsSend, CallServes
     DEF filesystem_types_method_descriptor_sync, filesystem_types_result_void_error_code, Result,
        filesystem_types_error_code, Enum, Handle
<1>14. Serves(filesystem_types_method_descriptor_create_directory_at)
  BY FilesystemTypesMethodDescriptorAdviseAnswer, PassedSL, CallsSend, CallServes
     DEF filesystem_types_method_descriptor_create_directory_at,
        filesystem_types_result_void_error_code, Result, filesystem_types_error_code, Enum, Handle,
        String
<1>15. Serves(filesystem_types_method_descriptor_stat)
  BY FilesystemTypesMethodDescriptorStatAnswer, StatType, Scalars1, CallsSend, CallServes
     DEF filesystem_types_method_descriptor_stat,
        filesystem_types_result_descriptor_stat_error_code, Result, filesystem_types_error_code,
        Enum, StatLoad, Handle
<1>16. Serves(filesystem_types_method_descriptor_stat_at)
  BY FilesystemTypesMethodDescriptorStatAnswer, StatType, PassedSSL, CallsSend, CallServes
     DEF filesystem_types_method_descriptor_stat_at,
        filesystem_types_result_descriptor_stat_error_code, Result, filesystem_types_error_code,
        Enum, StatLoad, Handle, filesystem_types_path_flags, String
<1>17. Serves(filesystem_types_method_descriptor_set_times_at)
  BY FilesystemTypesMethodDescriptorAdviseAnswer, PassedSSLTT, NewTimestampType, CallsSend,
     CallServes
     DEF filesystem_types_method_descriptor_set_times_at, filesystem_types_result_void_error_code,
        Result, filesystem_types_error_code, Enum, Handle, filesystem_types_path_flags, String
<1>18. Serves(filesystem_types_method_descriptor_link_at)
  BY FilesystemTypesMethodDescriptorAdviseAnswer, PassedSSLSL, CallsSend, CallServes
     DEF filesystem_types_method_descriptor_link_at, filesystem_types_result_void_error_code,
        Result, filesystem_types_error_code, Enum, Handle, filesystem_types_path_flags, String
<1>19. Serves(filesystem_types_method_descriptor_open_at)
  BY FilesystemTypesMethodDescriptorReadViaStreamAnswer, PassedSSLSS, CallsSend, CallServes
     DEF filesystem_types_method_descriptor_open_at,
        filesystem_types_result_own_descriptor_error_code, Result, Handle,
        filesystem_types_error_code, Enum, filesystem_types_path_flags, String,
        filesystem_types_open_flags, filesystem_types_descriptor_flags
<1>20. Serves(filesystem_types_method_descriptor_readlink_at)
  BY FilesystemTypesMethodDescriptorReadlinkAtAnswer, PassedSL, CallsSend, CallServes
     DEF filesystem_types_method_descriptor_readlink_at, filesystem_types_result_string_error_code,
        Result, String, filesystem_types_error_code, Enum, Handle
<1>21. Serves(filesystem_types_method_descriptor_remove_directory_at)
  BY FilesystemTypesMethodDescriptorAdviseAnswer, PassedSL, CallsSend, CallServes
     DEF filesystem_types_method_descriptor_remove_directory_at,
        filesystem_types_result_void_error_code, Result, filesystem_types_error_code, Enum, Handle,
        String
<1>22. Serves(filesystem_types_method_descriptor_rename_at)
  BY FilesystemTypesMethodDescriptorAdviseAnswer, PassedSLSL, CallsSend, CallServes
     DEF filesystem_types_method_descriptor_rename_at, filesystem_types_result_void_error_code,
        Result, filesystem_types_error_code, Enum, Handle, String
<1>23. Serves(filesystem_types_method_descriptor_symlink_at)
  BY FilesystemTypesMethodDescriptorAdviseAnswer, PassedSLL, CallsSend, CallServes
     DEF filesystem_types_method_descriptor_symlink_at, filesystem_types_result_void_error_code,
        Result, filesystem_types_error_code, Enum, Handle, String
<1>24. Serves(filesystem_types_method_descriptor_unlink_file_at)
  BY FilesystemTypesMethodDescriptorAdviseAnswer, PassedSL, CallsSend, CallServes
     DEF filesystem_types_method_descriptor_unlink_file_at, filesystem_types_result_void_error_code,
        Result, filesystem_types_error_code, Enum, Handle, String
<1>25. Serves(filesystem_types_method_descriptor_metadata_hash)
  BY FilesystemTypesMethodDescriptorMetadataHashAnswer, Scalars1, CallsSend, CallServes
     DEF filesystem_types_method_descriptor_metadata_hash,
        filesystem_types_result_metadata_hash_value_error_code, Result,
        filesystem_types_metadata_hash_value, filesystem_types_error_code, Enum, Handle
<1>26. Serves(filesystem_types_method_descriptor_metadata_hash_at)
  BY FilesystemTypesMethodDescriptorMetadataHashAnswer, PassedSSL, CallsSend, CallServes
     DEF filesystem_types_method_descriptor_metadata_hash_at,
        filesystem_types_result_metadata_hash_value_error_code, Result,
        filesystem_types_metadata_hash_value, filesystem_types_error_code, Enum, Handle,
        filesystem_types_path_flags, String
<1>27. Serves(filesystem_types_method_directory_entry_stream_read_directory_entry)
  BY FilesystemTypesMethodDirectoryEntryStreamReadDirectoryEntryAnswer, Scalars1, CallsSend,
     CallServes
     DEF filesystem_types_method_directory_entry_stream_read_directory_entry,
        filesystem_types_result_option_directory_entry_error_code, Result,
        filesystem_types_option_directory_entry, Option, filesystem_types_directory_entry,
        filesystem_types_descriptor_type, Enum, String, filesystem_types_error_code, Handle
<1>28. Serves(filesystem_types_filesystem_error_code)
  BY FilesystemTypesMethodDescriptorAdviseAnswer, Scalars1, CallsSend, CallServes
     DEF filesystem_types_filesystem_error_code, filesystem_types_option_error_code, Option,
        filesystem_types_error_code, Enum, Handle
<1>29. Serves(filesystem_preopens_get_directories)
  BY FilesystemPreopensGetDirectoriesAnswer, AgreeEmpty, CallsSend, CallServes
     DEF filesystem_preopens_get_directories, filesystem_preopens_list_tuple2_own_descriptor_string,
        filesystem_preopens_tuple2_own_descriptor_string, Handle, String
<1> QED
  BY SMTT(60), <1>1, <1>2, <1>3, <1>4, <1>5, <1>6, <1>7, <1>8, <1>9, <1>10, <1>11, <1>12, <1>13,
     <1>14, <1>15, <1>16, <1>17, <1>18, <1>19, <1>20, <1>21, <1>22, <1>23, <1>24, <1>25, <1>26,
     <1>27, <1>28, <1>29
     DEF wasi_filesystem

\* for sockets;
LEMMA SocketsCallsServe == \A c \in DOMAIN wasi_sockets : Serves(wasi_sockets[c])
<1>1. Serves(sockets_udp_method_udp_socket_start_bind)
  BY FilesystemTypesMethodDescriptorAdviseAnswer, PassedSSA, AddressTypes, CallsSend, CallServes
     DEF sockets_udp_method_udp_socket_start_bind, sockets_udp_result_void_error_code, Result,
        sockets_network_error_code, Enum, Handle
<1>2. Serves(sockets_udp_method_udp_socket_finish_bind)
  BY FilesystemTypesMethodDescriptorAdviseAnswer, Scalars1, CallsSend, CallServes
     DEF sockets_udp_method_udp_socket_finish_bind, sockets_udp_result_void_error_code, Result,
        sockets_network_error_code, Enum, Handle
<1>3. Serves(sockets_udp_method_udp_socket_stream)
  BY SocketsUdpMethodUdpSocketStreamAnswer, PassedSB, AddressTypes, CallsSend, CallServes
     DEF sockets_udp_method_udp_socket_stream,
        sockets_udp_result_tuple2_own_incoming_datagram_stream_own_outgoing_datagram_stream_error_code,
        Result, sockets_udp_tuple2_own_incoming_datagram_stream_own_outgoing_datagram_stream,
        Handle, sockets_network_error_code, Enum, sockets_udp_option_ip_socket_address, Option
<1>4. Serves(sockets_udp_method_udp_socket_local_address)
  BY SocketsUdpMethodUdpSocketLocalAddressAnswer, AddressTypes, Scalars1, CallsSend, CallServes
     DEF sockets_udp_method_udp_socket_local_address,
        sockets_udp_result_ip_socket_address_error_code, Result, sockets_network_error_code, Enum,
        Handle
<1>5. Serves(sockets_udp_method_udp_socket_remote_address)
  BY SocketsUdpMethodUdpSocketLocalAddressAnswer, AddressTypes, Scalars1, CallsSend, CallServes
     DEF sockets_udp_method_udp_socket_remote_address,
        sockets_udp_result_ip_socket_address_error_code, Result, sockets_network_error_code, Enum,
        Handle
<1>6. Serves(sockets_udp_method_udp_socket_unicast_hop_limit)
  BY FilesystemTypesMethodDescriptorGetFlagsAnswer, Scalars1, CallsSend, CallServes
     DEF sockets_udp_method_udp_socket_unicast_hop_limit, sockets_udp_result_u8_error_code, Result,
        sockets_network_error_code, Enum, Handle
<1>7. Serves(sockets_udp_method_udp_socket_set_unicast_hop_limit)
  BY FilesystemTypesMethodDescriptorAdviseAnswer, Scalars2, CallsSend, CallServes
     DEF sockets_udp_method_udp_socket_set_unicast_hop_limit, sockets_udp_result_void_error_code,
        Result, sockets_network_error_code, Enum, Handle
<1>8. Serves(sockets_udp_method_udp_socket_receive_buffer_size)
  BY FilesystemTypesMethodDescriptorWriteAnswer, Scalars1, CallsSend, CallServes
     DEF sockets_udp_method_udp_socket_receive_buffer_size, sockets_udp_result_u64_error_code,
        Result, sockets_network_error_code, Enum, Handle
<1>9. Serves(sockets_udp_method_udp_socket_set_receive_buffer_size)
  BY FilesystemTypesMethodDescriptorAdviseAnswer, Scalars2, CallsSend, CallServes
     DEF sockets_udp_method_udp_socket_set_receive_buffer_size, sockets_udp_result_void_error_code,
        Result, sockets_network_error_code, Enum, Handle
<1>10. Serves(sockets_udp_method_udp_socket_send_buffer_size)
  BY FilesystemTypesMethodDescriptorWriteAnswer, Scalars1, CallsSend, CallServes
     DEF sockets_udp_method_udp_socket_send_buffer_size, sockets_udp_result_u64_error_code, Result,
        sockets_network_error_code, Enum, Handle
<1>11. Serves(sockets_udp_method_udp_socket_set_send_buffer_size)
  BY FilesystemTypesMethodDescriptorAdviseAnswer, Scalars2, CallsSend, CallServes
     DEF sockets_udp_method_udp_socket_set_send_buffer_size, sockets_udp_result_void_error_code,
        Result, sockets_network_error_code, Enum, Handle
<1>12. Serves(sockets_udp_method_incoming_datagram_stream_receive)
  BY SocketsUdpMethodIncomingDatagramStreamReceiveAnswer, AddressTypes, Scalars2, CallsSend,
     CallServes
     DEF sockets_udp_method_incoming_datagram_stream_receive,
        sockets_udp_result_list_incoming_datagram_error_code, Result,
        sockets_udp_list_incoming_datagram, sockets_udp_incoming_datagram, list_u8,
        sockets_network_error_code, Enum, Handle
<1>13. Serves(sockets_udp_method_outgoing_datagram_stream_check_send)
  BY FilesystemTypesMethodDescriptorWriteAnswer, Scalars1, CallsSend, CallServes
     DEF sockets_udp_method_outgoing_datagram_stream_check_send, sockets_udp_result_u64_error_code,
        Result, sockets_network_error_code, Enum, Handle
<1>14. Serves(sockets_udp_method_outgoing_datagram_stream_send)
  BY FilesystemTypesMethodDescriptorWriteAnswer, PassedSL, CallsSend, CallServes
     DEF sockets_udp_method_outgoing_datagram_stream_send, sockets_udp_result_u64_error_code,
        Result, sockets_network_error_code, Enum, Handle, sockets_udp_list_outgoing_datagram
<1>15. Serves(sockets_udp_create_socket_create_udp_socket)
  BY FilesystemTypesMethodDescriptorReadViaStreamAnswer, Scalars1, CallsSend, CallServes
     DEF sockets_udp_create_socket_create_udp_socket,
        sockets_udp_create_socket_result_own_udp_socket_error_code, Result, Handle,
        sockets_network_error_code, Enum, sockets_network_ip_address_family
<1>16. Serves(sockets_tcp_method_tcp_socket_start_bind)
  BY FilesystemTypesMethodDescriptorAdviseAnswer, PassedSSA, AddressTypes, CallsSend, CallServes
     DEF sockets_tcp_method_tcp_socket_start_bind, sockets_tcp_result_void_error_code, Result,
        sockets_network_error_code, Enum, Handle
<1>17. Serves(sockets_tcp_method_tcp_socket_finish_bind)
  BY FilesystemTypesMethodDescriptorAdviseAnswer, Scalars1, CallsSend, CallServes
     DEF sockets_tcp_method_tcp_socket_finish_bind, sockets_tcp_result_void_error_code, Result,
        sockets_network_error_code, Enum, Handle
<1>18. Serves(sockets_tcp_method_tcp_socket_start_connect)
  BY FilesystemTypesMethodDescriptorAdviseAnswer, PassedSSA, AddressTypes, CallsSend, CallServes
     DEF sockets_tcp_method_tcp_socket_start_connect, sockets_tcp_result_void_error_code, Result,
        sockets_network_error_code, Enum, Handle
<1>19. Serves(sockets_tcp_method_tcp_socket_finish_connect)
  BY SocketsUdpMethodUdpSocketStreamAnswer, Scalars1, CallsSend, CallServes
     DEF sockets_tcp_method_tcp_socket_finish_connect,
        sockets_tcp_result_tuple2_own_input_stream_own_output_stream_error_code, Result,
        sockets_tcp_tuple2_own_input_stream_own_output_stream, Handle, sockets_network_error_code,
        Enum
<1>20. Serves(sockets_tcp_method_tcp_socket_start_listen)
  BY FilesystemTypesMethodDescriptorAdviseAnswer, Scalars1, CallsSend, CallServes
     DEF sockets_tcp_method_tcp_socket_start_listen, sockets_tcp_result_void_error_code, Result,
        sockets_network_error_code, Enum, Handle
<1>21. Serves(sockets_tcp_method_tcp_socket_finish_listen)
  BY FilesystemTypesMethodDescriptorAdviseAnswer, Scalars1, CallsSend, CallServes
     DEF sockets_tcp_method_tcp_socket_finish_listen, sockets_tcp_result_void_error_code, Result,
        sockets_network_error_code, Enum, Handle
<1>22. Serves(sockets_tcp_method_tcp_socket_accept)
  BY SocketsTcpMethodTcpSocketAcceptAnswer, Scalars1, CallsSend, CallServes
     DEF sockets_tcp_method_tcp_socket_accept,
        sockets_tcp_result_tuple3_own_tcp_socket_own_input_stream_own_output_stream_error_code,
        Result, sockets_tcp_tuple3_own_tcp_socket_own_input_stream_own_output_stream, Handle,
        sockets_network_error_code, Enum
<1>23. Serves(sockets_tcp_method_tcp_socket_local_address)
  BY SocketsUdpMethodUdpSocketLocalAddressAnswer, AddressTypes, Scalars1, CallsSend, CallServes
     DEF sockets_tcp_method_tcp_socket_local_address,
        sockets_tcp_result_ip_socket_address_error_code, Result, sockets_network_error_code, Enum,
        Handle
<1>24. Serves(sockets_tcp_method_tcp_socket_remote_address)
  BY SocketsUdpMethodUdpSocketLocalAddressAnswer, AddressTypes, Scalars1, CallsSend, CallServes
     DEF sockets_tcp_method_tcp_socket_remote_address,
        sockets_tcp_result_ip_socket_address_error_code, Result, sockets_network_error_code, Enum,
        Handle
<1>25. Serves(sockets_tcp_method_tcp_socket_set_listen_backlog_size)
  BY FilesystemTypesMethodDescriptorAdviseAnswer, Scalars2, CallsSend, CallServes
     DEF sockets_tcp_method_tcp_socket_set_listen_backlog_size, sockets_tcp_result_void_error_code,
        Result, sockets_network_error_code, Enum, Handle
<1>26. Serves(sockets_tcp_method_tcp_socket_keep_alive_enabled)
  BY FilesystemTypesMethodDescriptorGetFlagsAnswer, Scalars1, CallsSend, CallServes
     DEF sockets_tcp_method_tcp_socket_keep_alive_enabled, sockets_tcp_result_bool_error_code,
        Result, Bool, sockets_network_error_code, Enum, Handle
<1>27. Serves(sockets_tcp_method_tcp_socket_set_keep_alive_enabled)
  BY FilesystemTypesMethodDescriptorAdviseAnswer, Scalars2, CallsSend, CallServes
     DEF sockets_tcp_method_tcp_socket_set_keep_alive_enabled, sockets_tcp_result_void_error_code,
        Result, sockets_network_error_code, Enum, Handle, Bool
<1>28. Serves(sockets_tcp_method_tcp_socket_keep_alive_idle_time)
  BY FilesystemTypesMethodDescriptorWriteAnswer, Scalars1, CallsSend, CallServes
     DEF sockets_tcp_method_tcp_socket_keep_alive_idle_time, sockets_tcp_result_duration_error_code,
        Result, sockets_network_error_code, Enum, Handle
<1>29. Serves(sockets_tcp_method_tcp_socket_set_keep_alive_idle_time)
  BY FilesystemTypesMethodDescriptorAdviseAnswer, Scalars2, CallsSend, CallServes
     DEF sockets_tcp_method_tcp_socket_set_keep_alive_idle_time, sockets_tcp_result_void_error_code,
        Result, sockets_network_error_code, Enum, Handle
<1>30. Serves(sockets_tcp_method_tcp_socket_keep_alive_interval)
  BY FilesystemTypesMethodDescriptorWriteAnswer, Scalars1, CallsSend, CallServes
     DEF sockets_tcp_method_tcp_socket_keep_alive_interval, sockets_tcp_result_duration_error_code,
        Result, sockets_network_error_code, Enum, Handle
<1>31. Serves(sockets_tcp_method_tcp_socket_set_keep_alive_interval)
  BY FilesystemTypesMethodDescriptorAdviseAnswer, Scalars2, CallsSend, CallServes
     DEF sockets_tcp_method_tcp_socket_set_keep_alive_interval, sockets_tcp_result_void_error_code,
        Result, sockets_network_error_code, Enum, Handle
<1>32. Serves(sockets_tcp_method_tcp_socket_keep_alive_count)
  BY FilesystemTypesMethodDescriptorReadViaStreamAnswer, Scalars1, CallsSend, CallServes
     DEF sockets_tcp_method_tcp_socket_keep_alive_count, sockets_tcp_result_u32_error_code, Result,
        sockets_network_error_code, Enum, Handle
<1>33. Serves(sockets_tcp_method_tcp_socket_set_keep_alive_count)
  BY FilesystemTypesMethodDescriptorAdviseAnswer, Scalars2, CallsSend, CallServes
     DEF sockets_tcp_method_tcp_socket_set_keep_alive_count, sockets_tcp_result_void_error_code,
        Result, sockets_network_error_code, Enum, Handle
<1>34. Serves(sockets_tcp_method_tcp_socket_hop_limit)
  BY FilesystemTypesMethodDescriptorGetFlagsAnswer, Scalars1, CallsSend, CallServes
     DEF sockets_tcp_method_tcp_socket_hop_limit, sockets_tcp_result_u8_error_code, Result,
        sockets_network_error_code, Enum, Handle
<1>35. Serves(sockets_tcp_method_tcp_socket_set_hop_limit)
  BY FilesystemTypesMethodDescriptorAdviseAnswer, Scalars2, CallsSend, CallServes
     DEF sockets_tcp_method_tcp_socket_set_hop_limit, sockets_tcp_result_void_error_code, Result,
        sockets_network_error_code, Enum, Handle
<1>36. Serves(sockets_tcp_method_tcp_socket_receive_buffer_size)
  BY FilesystemTypesMethodDescriptorWriteAnswer, Scalars1, CallsSend, CallServes
     DEF sockets_tcp_method_tcp_socket_receive_buffer_size, sockets_tcp_result_u64_error_code,
        Result, sockets_network_error_code, Enum, Handle
<1>37. Serves(sockets_tcp_method_tcp_socket_set_receive_buffer_size)
  BY FilesystemTypesMethodDescriptorAdviseAnswer, Scalars2, CallsSend, CallServes
     DEF sockets_tcp_method_tcp_socket_set_receive_buffer_size, sockets_tcp_result_void_error_code,
        Result, sockets_network_error_code, Enum, Handle
<1>38. Serves(sockets_tcp_method_tcp_socket_send_buffer_size)
  BY FilesystemTypesMethodDescriptorWriteAnswer, Scalars1, CallsSend, CallServes
     DEF sockets_tcp_method_tcp_socket_send_buffer_size, sockets_tcp_result_u64_error_code, Result,
        sockets_network_error_code, Enum, Handle
<1>39. Serves(sockets_tcp_method_tcp_socket_set_send_buffer_size)
  BY FilesystemTypesMethodDescriptorAdviseAnswer, Scalars2, CallsSend, CallServes
     DEF sockets_tcp_method_tcp_socket_set_send_buffer_size, sockets_tcp_result_void_error_code,
        Result, sockets_network_error_code, Enum, Handle
<1>40. Serves(sockets_tcp_method_tcp_socket_shutdown)
  BY FilesystemTypesMethodDescriptorAdviseAnswer, Scalars2, CallsSend, CallServes
     DEF sockets_tcp_method_tcp_socket_shutdown, sockets_tcp_result_void_error_code, Result,
        sockets_network_error_code, Enum, Handle, sockets_tcp_shutdown_type
<1>41. Serves(sockets_tcp_create_socket_create_tcp_socket)
  BY FilesystemTypesMethodDescriptorReadViaStreamAnswer, Scalars1, CallsSend, CallServes
     DEF sockets_tcp_create_socket_create_tcp_socket,
        sockets_tcp_create_socket_result_own_tcp_socket_error_code, Result, Handle,
        sockets_network_error_code, Enum, sockets_network_ip_address_family
<1>42. Serves(sockets_ip_name_lookup_method_resolve_address_stream_resolve_next_address)
  BY SocketsIpNameLookupMethodResolveAddressStreamResolveNextAddressAnswer, AddressTypes, Scalars1,
     CallsSend, CallServes
     DEF sockets_ip_name_lookup_method_resolve_address_stream_resolve_next_address,
        sockets_ip_name_lookup_result_option_ip_address_error_code, Result,
        sockets_ip_name_lookup_option_ip_address, Option, sockets_network_ip_address,
        sockets_network_error_code, Enum, Handle
<1>43. Serves(sockets_ip_name_lookup_resolve_addresses)
  BY FilesystemTypesMethodDescriptorReadViaStreamAnswer, PassedSL, CallsSend, CallServes
     DEF sockets_ip_name_lookup_resolve_addresses,
        sockets_ip_name_lookup_result_own_resolve_address_stream_error_code, Result, Handle,
        sockets_network_error_code, Enum, String
<1> QED
  BY SMTT(60), <1>1, <1>2, <1>3, <1>4, <1>5, <1>6, <1>7, <1>8, <1>9, <1>10, <1>11, <1>12, <1>13,
     <1>14, <1>15, <1>16, <1>17, <1>18, <1>19, <1>20, <1>21, <1>22, <1>23, <1>24, <1>25, <1>26,
     <1>27, <1>28, <1>29, <1>30, <1>31, <1>32, <1>33, <1>34, <1>35, <1>36, <1>37, <1>38, <1>39,
     <1>40, <1>41, <1>42, <1>43
     DEF wasi_sockets

\* and for HTTP.
LEMMA HttpCallsServe == \A c \in DOMAIN wasi_http : Serves(wasi_http[c])
<1>1. Serves(http_types_static_fields_from_list)
  BY HttpTypesStaticFieldsFromListAnswer, PassedL, CallsSend, CallServes
     DEF http_types_static_fields_from_list, http_types_result_own_fields_header_error, Result,
        Handle, http_types_header_error, list_tuple2_field_name_field_value
<1>2. Serves(http_types_method_fields_get)
  BY CliEnvironmentGetArgumentsAnswer, PassedSL, CallsSend, CallServes
     DEF http_types_method_fields_get, list_field_value, http_types_field_value, Handle, String
<1>3. Serves(http_types_method_fields_set)
  BY HttpTypesMethodFieldsSetAnswer, PassedSLL, CallsSend, CallServes
     DEF http_types_method_fields_set, http_types_result_void_header_error, Result,
        http_types_header_error, Handle, String, list_field_value
<1>4. Serves(http_types_method_fields_delete)
  BY HttpTypesMethodFieldsSetAnswer, PassedSL, CallsSend, CallServes
     DEF http_types_method_fields_delete, http_types_result_void_header_error, Result,
        http_types_header_error, Handle, String
<1>5. Serves(http_types_method_fields_append)
  BY HttpTypesMethodFieldsSetAnswer, PassedSLL, CallsSend, CallServes
     DEF http_types_method_fields_append, http_types_result_void_header_error, Result,
        http_types_header_error, Handle, String, http_types_field_value
<1>6. Serves(http_types_method_fields_entries)
  BY CliEnvironmentGetEnvironmentAnswer, Scalars1, CallsSend, CallServes
     DEF http_types_method_fields_entries, list_tuple2_field_name_field_value,
        tuple2_field_name_field_value, String, http_types_field_value, Handle
<1>7. Serves(http_types_method_incoming_request_method)
  BY HttpTypesMethodIncomingRequestMethodAnswer, Scalars1, CallsSend, CallServes
     DEF http_types_method_incoming_request_method, http_types_method, String, Handle
<1>8. Serves(http_types_method_incoming_request_path_with_query)
  BY DictionaryGetAnswer, Scalars1, CallsSend, CallServes
     DEF http_types_method_incoming_request_path_with_query, option_string, Option, String, Handle
<1>9. Serves(http_types_method_incoming_request_scheme)
  BY HttpTypesMethodIncomingRequestSchemeAnswer, Scalars1, CallsSend, CallServes
     DEF http_types_method_incoming_request_scheme, http_types_option_scheme, Option,
        http_types_scheme, String, Handle
<1>10. Serves(http_types_method_incoming_request_authority)
  BY DictionaryGetAnswer, Scalars1, CallsSend, CallServes
     DEF http_types_method_incoming_request_authority, option_string, Option, String, Handle
<1>11. Serves(http_types_method_incoming_request_consume)
  BY HttpTypesMethodIncomingRequestConsumeAnswer, Scalars1, CallsSend, CallServes
     DEF http_types_method_incoming_request_consume, http_types_result_own_incoming_body_void,
        Result, Handle
<1>12. Serves(http_types_method_outgoing_request_body)
  BY HttpTypesMethodIncomingRequestConsumeAnswer, Scalars1, CallsSend, CallServes
     DEF http_types_method_outgoing_request_body, http_types_result_own_outgoing_body_void, Result,
        Handle
<1>13. Serves(http_types_method_outgoing_request_method)
  BY HttpTypesMethodIncomingRequestMethodAnswer, Scalars1, CallsSend, CallServes
     DEF http_types_method_outgoing_request_method, http_types_method, String, Handle
<1>14. Serves(http_types_method_outgoing_request_path_with_query)
  BY DictionaryGetAnswer, Scalars1, CallsSend, CallServes
     DEF http_types_method_outgoing_request_path_with_query, option_string, Option, String, Handle
<1>15. Serves(http_types_method_outgoing_request_scheme)
  BY HttpTypesMethodIncomingRequestSchemeAnswer, Scalars1, CallsSend, CallServes
     DEF http_types_method_outgoing_request_scheme, http_types_option_scheme, Option,
        http_types_scheme, String, Handle
<1>16. Serves(http_types_method_outgoing_request_authority)
  BY DictionaryGetAnswer, Scalars1, CallsSend, CallServes
     DEF http_types_method_outgoing_request_authority, option_string, Option, String, Handle
<1>17. Serves(http_types_method_request_options_connect_timeout)
  BY HttpTypesMethodRequestOptionsConnectTimeoutAnswer, Scalars1, CallsSend, CallServes
     DEF http_types_method_request_options_connect_timeout, option_duration, Option, Handle
<1>18. Serves(http_types_method_request_options_first_byte_timeout)
  BY HttpTypesMethodRequestOptionsConnectTimeoutAnswer, Scalars1, CallsSend, CallServes
     DEF http_types_method_request_options_first_byte_timeout, option_duration, Option, Handle
<1>19. Serves(http_types_method_request_options_between_bytes_timeout)
  BY HttpTypesMethodRequestOptionsConnectTimeoutAnswer, Scalars1, CallsSend, CallServes
     DEF http_types_method_request_options_between_bytes_timeout, option_duration, Option, Handle
<1>20. Serves(http_types_method_incoming_response_consume)
  BY HttpTypesMethodIncomingRequestConsumeAnswer, Scalars1, CallsSend, CallServes
     DEF http_types_method_incoming_response_consume, http_types_result_own_incoming_body_void,
        Result, Handle
<1>21. Serves(http_types_method_incoming_body_stream)
  BY HttpTypesMethodIncomingRequestConsumeAnswer, Scalars1, CallsSend, CallServes
     DEF http_types_method_incoming_body_stream, http_types_result_own_input_stream_void, Result,
        Handle
<1>22. Serves(http_types_method_future_trailers_get)
  BY HttpTypesMethodFutureTrailersGetAnswer, HttpErrorCodeType, Scalars1, CallsSend, CallServes
     DEF http_types_method_future_trailers_get,
        http_types_option_result_result_option_own_trailers_error_code_void, Option,
        http_types_result_result_option_own_trailers_error_code_void, Result,
        http_types_result_option_own_trailers_error_code, http_types_option_own_trailers, Handle
<1>23. Serves(http_types_method_outgoing_response_body)
  BY HttpTypesMethodIncomingRequestConsumeAnswer, Scalars1, CallsSend, CallServes
     DEF http_types_method_outgoing_response_body, http_types_result_own_outgoing_body_void, Result,
        Handle
<1>24. Serves(http_types_method_outgoing_body_write)
  BY HttpTypesMethodIncomingRequestConsumeAnswer, Scalars1, CallsSend, CallServes
     DEF http_types_method_outgoing_body_write, http_types_result_own_output_stream_void, Result,
        Handle
<1>25. Serves(http_types_static_outgoing_body_finish)
  BY HttpTypesStaticOutgoingBodyFinishAnswer, HttpErrorCodeType, PassedSO, CallsSend, CallServes
     DEF http_types_static_outgoing_body_finish, http_types_result_void_error_code, Result, Handle,
        http_types_option_own_trailers, Option
<1>26. Serves(http_types_method_future_incoming_response_get)
  BY HttpTypesMethodFutureIncomingResponseGetAnswer, HttpErrorCodeType, Scalars1, CallsSend,
     CallServes
     DEF http_types_method_future_incoming_response_get,
        http_types_option_result_result_own_incoming_response_error_code_void, Option,
        http_types_result_result_own_incoming_response_error_code_void, Result,
        http_types_result_own_incoming_response_error_code, Handle
<1>27. Serves(http_types_http_error_code)
  BY HttpTypesStaticOutgoingBodyFinishAnswer, HttpErrorCodeType, Scalars1, CallsSend, CallServes
     DEF http_types_http_error_code, http_types_option_error_code, Option, Handle
<1>28. Serves(http_outgoing_handler_handle)
  BY HttpOutgoingHandlerHandleAnswer, HttpErrorCodeType, PassedSO, CallsSend, CallServes
     DEF http_outgoing_handler_handle,
        http_outgoing_handler_result_own_future_incoming_response_error_code, Result, Handle,
        http_outgoing_handler_option_own_request_options, Option
<1> QED
  BY SMTT(60), <1>1, <1>2, <1>3, <1>4, <1>5, <1>6, <1>7, <1>8, <1>9, <1>10, <1>11, <1>12, <1>13,
     <1>14, <1>15, <1>16, <1>17, <1>18, <1>19, <1>20, <1>21, <1>22, <1>23, <1>24, <1>25, <1>26,
     <1>27, <1>28
     DEF wasi_http
=============================================================================
