------------------------------ MODULE BindingsC ------------------------------
(***************************************************************************)
(* What the generated C code of bindings.c is made of, and what it does.   *)
(* An adapter passes its arguments to an import, gives it an area for the  *)
(* answer, and reads the answer there, at offsets written into the code.   *)
(* A _free helper gives back the memory of a value it is handed.           *)
(***************************************************************************)
EXTENDS WitAbi

Call(params, sends, result, size, align, load) ==
    [params |-> Record(params), sends |-> InTurn(sends), result |-> result,
     size |-> size, align |-> align, load |-> load]

\* The adapters, or helpers, of two packages, each under its name.
Both(f, g) == [x \in DOMAIN f \cup DOMAIN g |-> IF x \in DOMAIN f THEN f[x] ELSE g[x]]

-----------------------------------------------------------------------------
(* Arguments: of the value at a path of the parameters, the value itself,  *)
(* a pointer to its list or the length of the list; or its case, followed  *)
(* by what that case sends, with zeroes up to a width.                     *)

Send(path, kind) == Layout(1, 1, {Row(path, kind, 0, 1, 0)})

ItAt(path) == Send(path, "scalar")
It(i) == ItAt(<<i>>)
Ptr(i) == Send(<<i>>, "ptr")
Count(i) == Send(<<i>>, "len")
ByCase(path, width, cases) ==
    Layout(width, 1,
           {Row(path, "tag", 0, 1, Len(cases))}
               \cup UNION {Under(Append(path, i), Moved(1, InTurn(cases[i]).rows)) : i \in DOMAIN cases})
\* An argument that is a pointer, which may be NULL, to a scalar.
Optional(i) == ByCase(<<i>>, 2, <<<<>>, <<ItAt(<<>>)>>>>)

-----------------------------------------------------------------------------
(* Loads from the area, at an offset: of an integer, of a pointer and the   *)
(* length behind it, or of a case and then what the case holds.            *)

None == {}
Integer(o, size) == {Row(<<>>, "scalar", o, size, 0)}
Byte(o) == Integer(o, 1)
Half(o) == Integer(o, 2)
Word(o) == Integer(o, 4)
Long(o) == Integer(o, 8)
Span(o) == {Row(<<>>, "ptr", o, 4, 0), Row(<<>>, "len", o + 4, 4, 0)}
Struct(fields) == UNION {Under(<<i>>, fields[i]) : i \in DOMAIN fields}
Switch(o, cases) == {Row(<<>>, "tag", o, 1, Len(cases))} \cup Struct(cases)

\* What a load finds where the host has not written just that, or a case
\* that the code does not know.
Garbage == Datum("garbage", <<0>>, -1)
Found(area, r) ==
    LET held == {h \in {c.holds : c \in {d \in area : d.off = r.off /\ d.size = r.size}} :
                    h.kind = r.kind /\ (r.kind = "tag" => h.n < r.cases)}
    IN IF held = {} THEN Garbage ELSE CHOOSE h \in held : TRUE

\* The loads control comes to: in the cases that the tags select.
Reached(load, area) ==
    {r \in load : \A s \in load :
        s.kind = "tag" /\ Above(s.path, r.path) => r.path[Len(s.path) + 1] = Found(area, s).n + 1}

Lifted(load, area) == {[path |-> r.path, holds |-> Found(area, r)] : r \in Reached(load, area)}

-----------------------------------------------------------------------------
(* _free helpers.  A helper is what it does with each value of its type:   *)
(* the blocks it gives back, one after the other, and the blocks it has no *)
(* call for.                                                               *)

Free(type, frees, leaves) == [type |-> type, frees |-> frees, leaves |-> leaves]

Freed(helper, v) == IF v \in DOMAIN helper.frees THEN helper.frees[v] ELSE <<>>
Left(helper, v) == IF v \in DOMAIN helper.leaves THEN helper.leaves[v] ELSE {}

\* A part without memory; and one with memory for which there is no call.
Keep == Free(Void, <<>>, <<>>)
Leave(type) == Free(type, [v \in type.values |-> <<>>], [v \in type.values |-> Blocks(v)])

\* The parts of v one after the other, each with its helper; what the
\* elements of a list hold is reached through its buffer.
FreedOfPart(v, i, helper) ==
    [k \in DOMAIN Freed(helper, PartOf(v, i)) |-> <<i>> \o Freed(helper, PartOf(v, i))[k]]
LeftOfPart(v, i, helper) == {<<i>> \o p : p \in Left(helper, PartOf(v, i))}
FreedInTurn(v, helpers) == FlattenSeq([i \in DOMAIN helpers |-> FreedOfPart(v, i, helpers[i])])
LeftInTurn(v, helpers) == UNION {LeftOfPart(v, i, helpers[i]) : i \in DOMAIN helpers}

Fields(type, fields) ==
    Free(type, [v \in type.values |-> FreedInTurn(v, fields)],
               [v \in type.values |-> LeftInTurn(v, fields)])
Buffer(type, element) ==
    LET elements(v) == [i \in 1 .. v[<<>>].n |-> element]
    IN Free(type, [v \in type.values |-> IF v[<<>>].n = 0 THEN <<>>
                                         ELSE Append(FreedInTurn(v, elements(v)), <<>>)],
                  [v \in type.values |-> LeftInTurn(v, elements(v))])
OnCase(type, cases) ==
    LET helper(v) == IF v[<<>>].n \in DOMAIN cases THEN cases[v[<<>>].n] ELSE Keep
    IN Free(type, [v \in type.values |-> FreedOfPart(v, v[<<>>].n + 1, helper(v))],
                  [v \in type.values |-> LeftOfPart(v, v[<<>>].n + 1, helper(v))])
OnSome(type, some) == OnCase(type, [n \in {1} |-> some])
OnResult(type, ok, err) == OnCase(type, [n \in {0, 1} |-> IF n = 0 THEN ok ELSE err])
=============================================================================
