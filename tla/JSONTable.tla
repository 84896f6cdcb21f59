------------------------------ MODULE JSONTable ------------------------------
(* Pass 2 of distillText: DistillJSON (internal/distill/json_tabular.go) and *)
(* the scans of the raw bytes that stand before it (json_prescan.go).  A     *)
(* document is a tree of values; an object is a sequence of fields, because  *)
(* the scans go by document order, and has a key once.  Bytes are            *)
(* abstracted: whether a table or a pruned document is small enough to be    *)
(* used is a choice of the step.                                             *)
EXTENDS Naturals, Sequences, FiniteSets

CONSTANTS
  Keys,         \* the keys of objects
  Depth,        \* objects and arrays within each other (encoding/json: 10000)
  Docs,         \* the documents: objects and arrays
  Meta,         \* keys isMetadataKey knows
  Suspicious,   \* scalars in which the byte scan sees a null or a metadata key
  Float,        \* [scalars -> scalars]: what json.Unmarshal makes of one
  Printed,      \* [scalars -> text]: how fmt prints one
  Long,         \* scalars longer than a cell (80)
  MinRows,      \* rows a table needs (3)
  MaxColumns,   \* columns it may have (12)
  Budget        \* scalar fields of the headline (8)

VARIABLES
  doc,          \* the trimmed input
  gate,         \* the pre-scan is on
  distilled,    \* [by, value]: the transform that changed it, and its result
  phase         \* "scan", "lift", "prune" or "done"

jsonVars == <<doc, gate, distilled, phase>>

(* Values *)
Null == [t |-> "null"]
Scalar(s) == [t |-> "scalar", s |-> s]
Arr(elems) == [t |-> "arr", e |-> elems]
Obj(fields) == [t |-> "obj", kv |-> fields]
Field(k, v) == [k |-> k, v |-> v]

Atoms == {Null} \cup {Scalar(s) : s \in DOMAIN Float}

(* The values with at most n arrays and objects within each other. *)
ValuesTo[n \in 0 .. Depth] ==
  IF n = 0 THEN Atoms
  ELSE LET Inner == ValuesTo[n - 1]
       IN  Atoms \cup [t : {"arr"}, e : Seq(Inner)]
                 \cup [t : {"obj"}, kv : Seq([k : Keys, v : Inner])]

Values == ValuesTo[Depth]

Parts(v) ==
  CASE v.t = "arr" -> {v.e[n] : n \in DOMAIN v.e}
    [] v.t = "obj" -> {v.kv[n].v : n \in DOMAIN v.kv}
    [] OTHER -> {}

(* A value and all that it is made of. *)
Within[v \in Values] == {v} \cup UNION {Within[x] : x \in Parts(v)}

KeysOnce(v) == v.t = "obj" => \A m, n \in DOMAIN v.kv : v.kv[m].k = v.kv[n].k => m = n

ASSUME JSONAssumption ==
  /\ {MinRows, MaxColumns, Budget, Depth} \subseteq Nat
  /\ MinRows >= 2
  /\ DOMAIN Printed = DOMAIN Float
  /\ \A s \in DOMAIN Float : Float[s] \in DOMAIN Float
  /\ \A d \in Docs : d \in Values /\ d.t \in {"arr", "obj"} /\ \A v \in Within[d] : KeysOnce(v)

IsEmpty(v) == v \in {Arr(<<>>), Obj(<<>>)}
KeysOf(v) == {v.kv[n].k : n \in DOMAIN v.kv}
Get(v, k) == v.kv[CHOOSE n \in DOMAIN v.kv : v.kv[n].k = k].v

(* One sequence after the other, and the elements of one at some places. *)
Flatten(pieces) ==
  LET upTo[n \in 0 .. Len(pieces)] == IF n = 0 THEN <<>> ELSE upTo[n - 1] \o pieces[n]
  IN  upTo[Len(pieces)]

Pick(s, places) == Flatten([n \in DOMAIN s |-> IF n \in places THEN <<s[n]>> ELSE <<>>])
-----------------------------------------------------------------------------
(* The scans of the raw document *)

IsObjectArray(v) == v.t = "arr" /\ Len(v.e) >= MinRows /\ v.e[1].t = "obj"

(* The arrays a table could be made of, as key paths in the order searched:  *)
(* the root, else its fields, else the fields of those.                      *)
Shallow(v) ==
  LET hits == Pick(v.kv, {n \in DOMAIN v.kv : IsObjectArray(v.kv[n].v)})
  IN  [n \in DOMAIN hits |-> <<hits[n].k>>]

Below(f) ==
  IF f.v.t # "obj" THEN <<>>
  ELSE LET inner == Shallow(f.v) IN [n \in DOMAIN inner |-> <<f.k>> \o inner[n]]

Candidates(v) ==
  CASE v.t = "arr" /\ IsObjectArray(v) -> <<<<>>>>
    [] v.t = "obj" -> Shallow(v) \o Flatten([n \in DOMAIN v.kv |-> Below(v.kv[n])])
    [] OTHER -> <<>>

Beside(v, key) == {n \in DOMAIN v.kv : v.kv[n].k # key /\ v.kv[n].k \notin Meta}
Scalars(v, key) == Pick(v.kv, {n \in Beside(v, key) : v.kv[n].v.t = "scalar"})

SiblingsUpToOneMore(v, key, budget) ==  \* mutant: the ninth scalar is let through
  /\ Len(Scalars(v, key)) <= budget + 1
  /\ \A n \in Beside(v, key) :
       v.kv[n].v.t \in {"scalar", "null"} \/ IsEmpty(v.kv[n].v)

(* Everything beside the array is in the headline, or worthless. *)
SiblingsAccountedFor(v, key, budget) ==
  /\ Len(Scalars(v, key)) <= budget
  /\ \A n \in Beside(v, key) :
       v.kv[n].v.t \in {"scalar", "null"} \/ IsEmpty(v.kv[n].v)

LiftIsLossless(v, keys) ==
  \/ keys = <<>>
  \/ Len(keys) = 1 /\ SiblingsAccountedFor(v, keys[1], Budget)
  \/ /\ Len(keys) = 2
     /\ SiblingsAccountedFor(v, keys[1], 0)
     /\ SiblingsAccountedFor(Get(v, keys[1]), keys[2], Budget)

(* At most one path: the first candidate, if lifting it loses nothing. *)
FindLiftableArray(v) ==
  LET found == Candidates(v)
  IN  IF found # <<>> /\ LiftIsLossless(v, found[1]) THEN {found[1]} ELSE {}

HasNullOrMeta(v) ==                     \* mutant: {} and [] are not looked for
  \E x \in Within[v] :
    \/ x.t = "null"
    \/ x.t = "scalar" /\ x.s \in Suspicious
    \/ x.t = "obj" /\ KeysOf(x) \cap Meta # {}

(* The marks pruning leaves in the raw bytes, wherever they stand. *)
HasPrunableFeature(v) ==
  \E x \in Within[v] :
    \/ x.t = "null" \/ IsEmpty(x)
    \/ x.t = "scalar" /\ x.s \in Suspicious
    \/ x.t = "obj" /\ KeysOf(x) \cap Meta # {}

CanDistillJSON(v) == FindLiftableArray(v) # {} \/ HasPrunableFeature(v)
-----------------------------------------------------------------------------
(* json.Unmarshal: numbers become float64. *)
Parse[v \in Values] ==
  CASE v.t = "arr" -> Arr([n \in DOMAIN v.e |-> Parse[v.e[n]]])
    [] v.t = "obj" -> Obj([n \in DOMAIN v.kv |-> Field(v.kv[n].k, Parse[v.kv[n].v])])
    [] v.t = "scalar" -> Scalar(Float[v.s])
    [] OTHER -> v

(* Structural pruning *)
StaysUnlessBlank(f) ==                  \* mutant: "" counts as an empty collection
  f.k \notin Meta /\ f.v # Null /\ ~IsEmpty(f.v) /\ f.v # Scalar("")

(* A field, its value pruned, goes when it is null, metadata or empty. *)
Stays(f) == f.k \notin Meta /\ f.v # Null /\ ~IsEmpty(f.v)

(* An array loses its nulls only. *)
PruneValue[v \in Values] ==
  CASE v.t = "obj" ->
         LET pruned == [n \in DOMAIN v.kv |-> Field(v.kv[n].k, PruneValue[v.kv[n].v])]
         IN  Obj(Pick(pruned, {n \in DOMAIN pruned : Stays(pruned[n])}))
    [] v.t = "arr" ->
         Arr(Pick([n \in DOMAIN v.e |-> PruneValue[v.e[n]]], {n \in DOMAIN v.e : v.e[n] # Null}))
    [] OTHER -> v

PruneChanges(v) == PruneValue[v] # v
-----------------------------------------------------------------------------
(* Tabular lifting *)

Clipped == <<"...">>
Dash == <<"-">>

TooLong(v) == \E x \in Within[v] : x.t = "scalar" /\ x.s \in Long

(* sanitizeCell of what fmt prints: what is too long is clipped.  An object  *)
(* or array is printed whole, in Go's notation.                              *)
Cell(v) ==
  IF TooLong(v) THEN Clipped
  ELSE IF v.t = "scalar" THEN <<Printed[v.s]>> ELSE <<"go", v>>

(* The object around the array at a path, and that array. *)
Parent(v, keys) == IF Len(keys) = 2 THEN Get(v, keys[1]) ELSE v
ArrayAt(v, keys) == IF keys = <<>> THEN v.e ELSE Get(Parent(v, keys), keys[Len(keys)]).e

(* The headline's fields, spelled as the document spells them. *)
ScalarSiblings(v, keys) ==
  IF keys = <<>> THEN <<>>
  ELSE LET all == Scalars(Parent(v, keys), keys[Len(keys)])
       IN  [n \in 1 .. IF Len(all) < Budget THEN Len(all) ELSE Budget |->
              <<all[n].k, IF TooLong(all[n].v) THEN Clipped ELSE <<all[n].v.s>>>>]

(* Columns are the first row's keys. *)
Own(row) == {n \in DOMAIN row.kv : row.kv[n].k \notin Meta}
Columns(rows) ==
  LET own == Pick(rows[1].kv, Own(rows[1])) IN [n \in DOMAIN own |-> own[n].k]
ColumnSet(rows) == {Columns(rows)[n] : n \in DOMAIN Columns(rows)}

IsTable(rows) ==
  /\ \A i \in DOMAIN rows : rows[i].t = "obj" /\ rows[i] # Obj(<<>>)
  /\ \A i \in DOMAIN rows : i > 1 => ColumnSet(rows) \cap KeysOf(rows[i]) # {}
  /\ Len(Columns(rows)) \in 1 .. MaxColumns

(* m[col] of a Go map: a key that is missing reads as null. *)
Value(row, key) == IF key \in KeysOf(row) THEN Get(row, key) ELSE Null

HoistableWherePresent(rows, key) ==     \* mutant: rows without the key are skipped
  LET held == {Value(rows[i], key) : i \in DOMAIN rows} \ {Null}
  IN  /\ held # {}
      /\ \A v, w \in held : ~TooLong(v) /\ Cell(v) = Cell(w)
      /\ \A v \in held : Cell(v) \notin {<<"">>, Dash}

(* One rendered value in every row, not clipped, worth a headline. *)
Hoistable(rows, key) ==
  LET first == Value(rows[1], key)
  IN  /\ \A i \in DOMAIN rows :
           LET v == Value(rows[i], key)
           IN  v # Null /\ ~TooLong(v) /\ Cell(v) = Cell(first)
      /\ Cell(first) \notin {<<"">>, Dash}

Table(v, keys) ==
  LET rows     == ArrayAt(Parse[v], keys)
      hoisted  == {n \in DOMAIN Columns(rows) : Hoistable(rows, Columns(rows)[n])}
      constant == Pick(Columns(rows), hoisted)
      varying  == Pick(Columns(rows), DOMAIN Columns(rows) \ hoisted)
  IN  [rows      |-> Len(rows),
       label     |-> keys,
       envelope  |-> ScalarSiblings(v, keys),
       constant  |-> [n \in DOMAIN constant |-> <<constant[n], Cell(Value(rows[1], constant[n]))>>],
       columns   |-> varying,
       cells     |-> [i \in DOMAIN rows |-> [n \in DOMAIN varying |->
                        LET cell == Value(rows[i], varying[n])
                        IN  IF cell = Null THEN Dash ELSE Cell(cell)]],
       truncated |-> Cardinality({p \in (DOMAIN rows) \X (DOMAIN varying) :
                                    TooLong(Value(rows[p[1]], varying[p[2]]))})]

(* The paths that do become a table. *)
Liftable(v) == {keys \in FindLiftableArray(v) : IsTable(ArrayAt(Parse[v], keys))}
-----------------------------------------------------------------------------
Untouched == [by |-> "none", value |-> Null]

JSONInit ==
  /\ doc \in Docs
  /\ gate \in BOOLEAN
  /\ distilled = Untouched
  /\ phase = "scan"

(* Under 64 bytes, or no JSON after all. *)
Unfit ==
  /\ phase \in {"scan", "lift"}
  /\ phase' = "done"
  /\ UNCHANGED <<doc, gate, distilled>>

Scan ==
  /\ phase = "scan"
  /\ IF gate /\ ~CanDistillJSON(doc)
       THEN phase' = "done" /\ distilled' = [distilled EXCEPT !.by = "gate"]
       ELSE phase' = "lift" /\ UNCHANGED distilled
  /\ UNCHANGED <<doc, gate>>

(* A table replaces the document if it saves 35 %. *)
Lift ==
  /\ phase = "lift"
  /\ \E keys \in Liftable(doc) :
       phase' = "done" /\ distilled' = [by |-> "table", value |-> Table(doc, keys)]
  /\ UNCHANGED <<doc, gate>>

NoTable == phase = "lift" /\ phase' = "prune" /\ UNCHANGED <<doc, gate, distilled>>

(* A pruned document replaces it if it saves 10 %. *)
Prune ==
  /\ phase = "prune"
  /\ PruneChanges(Parse[doc])
  /\ phase' = "done"
  /\ distilled' = [by |-> "pruned", value |-> PruneValue[Parse[doc]]]
  /\ UNCHANGED <<doc, gate>>

NotPruned == phase = "prune" /\ phase' = "done" /\ UNCHANGED <<doc, gate, distilled>>

JSONOver == phase = "done" /\ UNCHANGED jsonVars

JSONNext == Unfit \/ Scan \/ Lift \/ NoTable \/ Prune \/ NotPruned \/ JSONOver

JSONSpec == JSONInit /\ [][JSONNext]_jsonVars
-----------------------------------------------------------------------------
(* What the document says: its scalars with their places, metadata left out. *)
Under(k, leaves) == [n \in DOMAIN leaves |-> [at |-> <<k>> \o leaves[n].at, s |-> leaves[n].s]]

Leaves[v \in Values] ==
  CASE v.t = "arr" -> Flatten([n \in DOMAIN v.e |-> Under("[]", Leaves[v.e[n]])])
    [] v.t = "obj" -> Flatten([n \in DOMAIN v.kv |->
                        IF v.kv[n].k \in Meta THEN <<>> ELSE Under(v.kv[n].k, Leaves[v.kv[n].v])])
    [] v.t = "scalar" -> <<[at |-> <<>>, s |-> v.s]>>
    [] OTHER -> <<>>

(* "The gate is only ever allowed to skip work that could not have changed   *)
(* the result" (json_tabular.go:33-34): neither transform changes a          *)
(* document the pre-scan turns away.                                         *)
GateIsNeutral == distilled.by = "gate" => Liftable(doc) = {} /\ ~PruneChanges(Parse[doc])

Lifted == distilled.by = "table"
Rows == ArrayAt(Parse[doc], distilled.value.label)

(* The table's entry for a row and a column. *)
Read(i, key) ==
  LET shared == {n \in DOMAIN distilled.value.constant : distilled.value.constant[n][1] = key}
  IN  IF shared # {} THEN distilled.value.constant[CHOOSE n \in shared : TRUE][2]
      ELSE distilled.value.cells[i][CHOOSE n \in DOMAIN distilled.value.columns : distilled.value.columns[n] = key]

(* What the table says of a row is true of it: a hoisted value is in every   *)
(* row, a dash stands for no value or for a dash, and every clipped cell is  *)
(* counted (json_tabular.go:159-242).                                        *)
TableReadsBack ==
  Lifted =>
    /\ distilled.value.rows = Len(Rows)
    /\ \A i \in DOMAIN Rows : \A key \in ColumnSet(Rows) :
         LET v == Value(Rows[i], key)
         IN  Read(i, key) = IF v = Null THEN Dash ELSE Cell(v)
    /\ distilled.value.truncated =
         Cardinality({p \in (DOMAIN Rows) \X ColumnSet(Rows) : TooLong(Value(Rows[p[1]], p[2]))})

(* The part of a row that is in the columns, and the part that is not. *)
Shared(row) == Obj(Pick(row.kv, {n \in DOMAIN row.kv : row.kv[n].k \in ColumnSet(Rows)}))
Late(row) == Obj(Pick(row.kv, {n \in DOMAIN row.kv : row.kv[n].k \notin ColumnSet(Rows)}))

(* A lift drops nothing but the values of keys the first row does not have:  *)
(* beside the array stand only values the headline prints or pruning would   *)
(* drop, in the array only rows (json_prescan.go:93-117).  An array under a  *)
(* metadata key is lifted like any other, and then tells more than pruning.  *)
LiftLosesOnlyLateColumns ==
  Lifted =>
    LET told == Len(Leaves[Parse[doc]])
        seen == Len(distilled.value.envelope)
                + Len(Flatten([i \in DOMAIN Rows |-> Leaves[Shared(Rows[i])]]))
        late == Len(Flatten([i \in DOMAIN Rows |-> Leaves[Late(Rows[i])]]))
        meta == \E n \in DOMAIN distilled.value.label : distilled.value.label[n] \in Meta
    IN  IF meta THEN told <= seen + late ELSE told = seen + late

(* Pruning removes no scalar outside metadata, changes none but by float64,  *)
(* and leaves nothing to prune (json_tabular.go:79-118).                     *)
PruneKeepsData ==
  distilled.by = "pruned" =>
    /\ Leaves[distilled.value] = Leaves[Parse[doc]]
    /\ ~PruneChanges(distilled.value)

(* "the lift must be lossless" (json_prescan.go:38): a table has a column    *)
(* for every key of a row.                                                   *)
LiftKeepsAll ==
  Lifted => \A i \in DOMAIN Rows : KeysOf(Rows[i]) \ Meta \subseteq ColumnSet(Rows)

(* "high column overlap (at least 60% of columns match)"                     *)
(* (json_tabular.go:190).                                                    *)
RowsOverlap ==
  Lifted =>
    \A i \in DOMAIN Rows :
      10 * Cardinality(KeysOf(Rows[i]) \cap ColumnSet(Rows)) >= 6 * Len(Columns(Rows))

(* "Drops null fields" (json_tabular.go:23): of an array nothing is dropped. *)
ElementsKept == distilled.by = "pruned" /\ doc.t = "arr" => Len(distilled.value.e) = Len(doc.e)

(* "processing twice equals processing once" (contracts_test.go:18): a       *)
(* pruned document offers no table that the document did not offer.          *)
PrunedOffersNoTable ==
  distilled.by = "pruned" /\ FindLiftableArray(doc) = {} => FindLiftableArray(distilled.value) = {}

(* Numbers come back as the document spells them.                            *)
NumbersKept == distilled.by = "pruned" => Leaves[distilled.value] = Leaves[doc]
=============================================================================
