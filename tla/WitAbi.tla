------------------------------- MODULE WitAbi -------------------------------
(***************************************************************************)
(* Values that cross the boundary between the host and an instance.  The   *)
(* host is outside the repository: what it does with them is the canonical *)
(* ABI that bindings.c was generated for, with 4-byte pointers.            *)
(*                                                                         *)
(* A scalar is abstracted to where in its value it stands, so that no two  *)
(* scalars of a value are alike; so is the block of memory of a list.  A   *)
(* type is what the ABI says of it: its values, how they are laid out in   *)
(* memory, and how they are passed as arguments.                           *)
(***************************************************************************)
EXTENDS Integers, SequencesExt

CONSTANT MaxLen      \* bound: the length of a list

ASSUME WitAbiAssumption == MaxLen \in Nat \ {0}

-----------------------------------------------------------------------------
(* Values.  A path goes from a value to a part of it by the numbers, from   *)
(* 1, of elements, cases and fields.  A value is a function from the paths  *)
(* in it to what is there: a scalar, a list of n elements, case number n of *)
(* a variant (from 0, as bindings.c counts them), or a record.              *)

Whole(kind, n, parts) ==
    [p \in {<<>>} \cup UNION {{<<i>> \o q : q \in DOMAIN parts[i]} : i \in DOMAIN parts} |->
        IF p = <<>> THEN [kind |-> kind, n |-> n] ELSE parts[Head(p)][Tail(p)]]

PartOf(v, i) ==
    [p \in {Tail(q) : q \in {r \in DOMAIN v : r # <<>> /\ Head(r) = i}} |-> v[<<i>> \o p]]

Above(p, q) == Len(p) < Len(q) /\ \A k \in 1 .. Len(p) : p[k] = q[k]

\* The blocks of memory the lists in v take up; an empty list takes none.
Blocks(v) == {p \in DOMAIN v : v[p].kind = "list" /\ v[p].n > 0}

-----------------------------------------------------------------------------
(* A layout: what stands where, relative to where the whole does.  A row is *)
(* a scalar, the pointer or the length of a list, or the tag of a variant   *)
(* with as many cases; the elements of a list are in the list's own block.  *)
(* Arguments are laid out alike, one after the other and each of size 1.    *)

Row(path, kind, off, size, cases) ==
    [path |-> path, kind |-> kind, off |-> off, size |-> size, cases |-> cases]
Layout(size, align, rows) == [size |-> size, align |-> align, rows |-> rows]

Under(path, rows) == {Row(path \o r.path, r.kind, r.off, r.size, r.cases) : r \in rows}
Moved(by, rows) == {Row(r.path, r.kind, r.off + by, r.size, r.cases) : r \in rows}

Highest(S) == CHOOSE m \in S : \A n \in S : n <= m
Aligned(n, a) == ((n + a - 1) \div a) * a
Alignment(parts) == Highest({1} \cup {parts[i].align : i \in DOMAIN parts})

ScalarLayout(size) == Layout(size, size, {Row(<<>>, "scalar", 0, size, 0)})
ListLayout(word) ==
    Layout(2 * word, word, {Row(<<>>, "ptr", 0, word, 0), Row(<<>>, "len", word, word, 0)})

PayloadOffset(cases) == Aligned(1, Alignment(cases))
VariantLayout(cases) ==
    Layout(Aligned(PayloadOffset(cases) + Highest({0} \cup {cases[i].size : i \in DOMAIN cases}),
                   Alignment(cases)),
           Alignment(cases),
           {Row(<<>>, "tag", 0, 1, Len(cases))}
               \cup UNION {Under(<<i>>, Moved(PayloadOffset(cases), cases[i].rows)) : i \in DOMAIN cases})

\* Where the first n parts of a sequence of layouts end.
Ends(parts) ==
    LET end[n \in 0 .. Len(parts)] ==
          IF n = 0 THEN 0 ELSE Aligned(end[n - 1], parts[n].align) + parts[n].size
    IN end
Offset(parts, i) == Aligned(Ends(parts)[i - 1], parts[i].align)
InTurn(parts) ==
    Layout(Aligned(Ends(parts)[Len(parts)], Alignment(parts)), Alignment(parts),
           UNION {Moved(Offset(parts, i), parts[i].rows) : i \in DOMAIN parts})
RecordLayout(fields) ==
    InTurn([i \in DOMAIN fields |->
               Layout(fields[i].size, fields[i].align, Under(<<i>>, fields[i].rows))])

-----------------------------------------------------------------------------
(* Types *)

Type(stored, passed, values) == [stored |-> stored, passed |-> passed, values |-> values]
Stored(types) == [i \in DOMAIN types |-> types[i].stored]
Passed(types) == [i \in DOMAIN types |-> types[i].passed]

Scalar(size) == Type(ScalarLayout(size), ScalarLayout(1), {Whole("scalar", 0, <<>>)})
List(t) ==
    Type(ListLayout(4), ListLayout(1),
         UNION {{Whole("list", n, es) : es \in [1 .. n -> t.values]} : n \in 0 .. MaxLen})
Variant(cases) ==
    Type(VariantLayout(Stored(cases)), VariantLayout(Passed(cases)),
         UNION {{Whole("case", i - 1, [k \in {i} |-> v]) : v \in cases[i].values} : i \in DOMAIN cases})
Record(fields) ==
    Type(RecordLayout(Stored(fields)), RecordLayout(Passed(fields)),
         {Whole("record", 0, fs) :
             fs \in {gs \in [DOMAIN fields -> UNION {fields[i].values : i \in DOMAIN fields}] :
                        \A i \in DOMAIN fields : gs[i] \in fields[i].values}})

Void == Record(<<>>)
Handle == Scalar(4)
Enum == Scalar(1)
Bool == Scalar(1)
String == List(Scalar(1))
Option(t) == Variant(<<Void, t>>)
Result(ok, err) == Variant(<<ok, err>>)

-----------------------------------------------------------------------------
(* What stands at a row of a value's layout: the scalar or the block of the *)
(* list at the row's path, or the number there.                             *)

Datum(kind, at, n) == [kind |-> kind, at |-> at, n |-> n]
Content(r, v) ==
    IF r.kind \in {"tag", "len"} THEN Datum(r.kind, <<>>, v[r.path].n) ELSE Datum(r.kind, r.path, 0)

\* The rows of the cases that v is in.
Present(rows, v) == {r \in rows : r.path \in DOMAIN v}

\* What the host writes for an answer v.
Cells(rows, v) == {[off |-> r.off, size |-> r.size, holds |-> Content(r, v)] : r \in Present(rows, v)}

\* What it holds, part by part.
Shown(rows, v) == {[path |-> r.path, holds |-> Content(r, v)] : r \in Present(rows, v)}

\* Arguments v one after the other, what another case would take padded with zeroes.
Zero == Datum("zero", <<>>, 0)
Arguments(layout, v) ==
    [k \in 1 .. layout.size |->
        LET here == {r \in Present(layout.rows, v) : r.off = k - 1}
        IN IF here = {} THEN Zero ELSE Content(CHOOSE r \in here : TRUE, v)]
=============================================================================
