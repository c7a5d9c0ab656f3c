--------------------------- MODULE MCHeaderCoding ---------------------------
(* The instance of HeaderCoding that TLC checks.                           *)
EXTENDS HeaderCoding

Field(name, value, size) == [name |-> name, value |-> value, size |-> size]

\* HPACK: two values of a name, a field of two sizes, and one larger than the table.
HpackFields == {Field("a", "x", 1), Field("a", "y", 1), Field("b", "y", 2), Field("b", "z", 2), Field("c", "w", 5)}

\* QPACK: what the encoder inserts, and the names that a reference can give it.
QpackFields == {Field(n, v, 1) : n \in {"a", "b", "c"}, v \in {"w", "x", "y", "z"}}

QpackInserts == <<Field("b", "x", 1), Field("c", "y", 1), Field("b", "z", 1), Field("c", "w", 1)>>

OneStatic == <<Field("a", "x", 1)>>
=============================================================================
