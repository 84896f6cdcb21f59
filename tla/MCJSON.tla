------------------------------- MODULE MCJSON -------------------------------
(* Documents of up to three rows and two levels.  Scalars:                   *)
(*   "1", "one"    a number and a string that print alike                    *)
(*   "x"           another value          ""   the empty string              *)
(*   "-"           a dash                 "long"  longer than a cell         *)
(*   "big"         an integer over 2^53, which float64 rounds                *)
(*   "no null"     a string in which the byte scan sees a null               *)
EXTENDS JSONTable, TLC

MCScalars == {"1", "one", "x", "", "-", "long", "big", "rounded", "no null"}
MCFloat == [s \in MCScalars |-> IF s = "big" THEN "rounded" ELSE s]
MCPrinted == [s \in MCScalars |-> IF s = "one" THEN "1" ELSE s]

Seqs(S, lo, hi) == UNION {[1 .. n -> S] : n \in lo .. hi}

(* A field that may be missing, and rows over two columns and metadata. *)
Maybe(k, S) == {<<>>} \cup {<<Field(k, v)>> : v \in S}
S(set) == {Scalar(s) : s \in set}
Inner == Obj(<<Field("a", Scalar("x"))>>)

RowSet ==
  {Obj(a \o b) : a \in Maybe("a", S({"1", "one", "long"}) \cup {Null}),
                 b \in Maybe("b", S({"1", "-", ""}) \cup {Inner})}

FewRows ==
  {Obj(<<Field("a", Scalar("1")), Field("etag", Scalar("x"))>>),
   Obj(<<Field("a", Scalar("big")), Field("b", Scalar("x"))>>),
   Obj(<<Field("b", Null), Field("c", Scalar("x"))>>)}
Elements == FewRows \cup {Null, Scalar("x"), Obj(<<>>), Arr(<<>>)}

Tables == {Arr(r) : r \in Seqs(RowSet, 3, 3)}
Mixed == {Arr(r) : r \in Seqs(Elements, 0, 3) \cup {<<Null>> \o r : r \in Seqs(FewRows, 3, 3)}}

SomeTable == Arr(<<Obj(<<Field("a", Scalar("1"))>>), Obj(<<Field("a", Scalar("x"))>>),
                   Obj(<<Field("a", Null), Field("b", Scalar("x"))>>)>>)

(* What may stand beside an array. *)
Neighbours == S({"x", "long", "no null"}) \cup {Null, Arr(<<>>), Obj(<<>>), Inner, Arr(<<Null>>), SomeTable}

Around(v) ==
  {Obj(f \o <<Field("items", v)>> \o g \o m) :
     f \in Maybe("has_more", Neighbours), g \in Maybe("total", Neighbours), m \in Maybe("etag", S({"x"}) \cup {Inner})}

Wrapped == Around(SomeTable) \cup Around(Scalar("big")) \cup Around(Scalar(""))
Nested == UNION {Around(v) : v \in {w \in Around(SomeTable) : KeysOf(w) \cap {"total", "etag"} = {}}}

MCKeys == {"a", "b", "c", "etag", "has_more", "total", "items"}

(* The table under a metadata key, alone or in an object. *)
MetaTable == {Obj(<<Field("etag", SomeTable)>> \o g) : g \in Maybe("total", S({"x"}))}
Metadata == MetaTable \cup {Obj(<<Field("items", v)>>) : v \in MetaTable}
              \cup {Obj(<<Field("etag", v)>>) : v \in Around(SomeTable)}

MCDocs == Tables \cup Mixed \cup Wrapped \cup Nested \cup Metadata
=============================================================================
