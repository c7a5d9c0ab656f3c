------------------------------- MODULE Hpack -------------------------------
(***************************************************************************)
(* HPACK over one HTTP/2 connection: the Encoder and the Decoder of         *)
(* src/http2.rs, each with a peer at the other end of the wire that follows *)
(* RFC 7541.  An integer or a string is a value here: what the model keeps  *)
(* is the two dynamic tables, which must lead every index to the same field.*)
(***************************************************************************)
EXTENDS Naturals, SequencesExt

CONSTANTS
    Fields,       \* header fields: [name, value, size]
    Static,       \* STATIC_TABLE: a sequence of fields
    DynTableCap,  \* DYN_TABLE_CAP, the default of SETTINGS_HEADER_TABLE_SIZE
    TableSizes,   \* values of SETTINGS_HEADER_TABLE_SIZE that the peer sends
    MaxFields,    \* bound: fields of a block
    MaxWire       \* bound: blocks and SETTINGS frames on the way

ASSUME HpackAssumption ==
    /\ \A f \in Fields : f = [name |-> f.name, value |-> f.value, size |-> f.size] /\ f.size \in Nat \ {0}
    /\ \A f, g \in Fields : f.name = g.name /\ f.value = g.value => f = g
    /\ Static \in Seq(Fields) /\ DynTableCap \in Nat /\ TableSizes \subseteq Nat
    /\ MaxFields \in Nat \ {0} /\ MaxWire \in Nat \ {0}

VARIABLES
    side,      \* "request": the client encodes; "response": it decodes
    enc,       \* the encoder: table, newest first, its maximum and the pending signal
    dec,       \* the decoder: table, its capacity, the limit it has announced, and whether
               \* it refuses a larger size (a peer) or lowers it to the limit (the client)
    settings,  \* sizes that the decoding peer has announced and the client has not read
    wire,      \* blocks, and acknowledgements of SETTINGS, on their way to the decoder
    same       \* has every block been decoded to the fields that were encoded?

vars == <<side, enc, dec, settings, wire, same>>

NoSignal == <<>>

Init ==
    /\ side \in {"request", "response"}
    /\ enc = [table |-> <<>>, max |-> DynTableCap, pending |-> NoSignal]
    /\ dec = [table |-> <<>>, cap |-> DynTableCap, limit |-> DynTableCap, strict |-> side = "request"]
    /\ settings = <<>> /\ wire = <<>>
    /\ same = TRUE

----------------------------------------------------------------------------
(* Dynamic tables.                                                         *)

SizeOf(table) == FoldLeft(LAMBDA n, f : n + f.size, 0, table)

\* evict_to_fit: the oldest entries go until the table and `incoming` fit.
EvictToFit(table, cap, incoming) ==
    SubSeq(table, 1, Max({n \in 0 .. Len(table) : n = 0 \/ SizeOf(SubSeq(table, 1, n)) + incoming <= cap}))

\* insert: a field larger than the whole table only clears it.
Insert(table, cap, f) ==
    IF f.size > cap THEN <<>> ELSE <<f>> \o EvictToFit(table, cap, f.size)

\* Index 1 is the first static field; the newest dynamic one follows the last of them.
Combined(table) == Static \o table

----------------------------------------------------------------------------
(* The encoder.                                                            *)

\* The first entry of the combined table that satisfies the test; 0 if none does.
FullIndex(table, f) == SelectInSeq(Combined(table), LAMBDA g : g.name = f.name /\ g.value = f.value)
NameIndex(table, f) == SelectInSeq(Combined(table), LAMBDA g : g.name = f.name)

Signal(e) == [i \in DOMAIN e.pending |-> [kind |-> "resize", size |-> e.pending[i]]]

\* An index, or a literal that both ends insert.
Represented(table, f) ==
    IF FullIndex(table, f) # 0 THEN [kind |-> "indexed", index |-> FullIndex(table, f)]
    ELSE [kind |-> "insert", index |-> NameIndex(table, f), field |-> f]

\* Mutant: a literal with an indexed name is not added to the table.
MutEncoded(table, max, f) == IF NameIndex(table, f) # 0 THEN table ELSE Insert(table, max, f)

\* The table after a field.
Encoded(table, max, f) == IF FullIndex(table, f) # 0 THEN table ELSE Insert(table, max, f)

\* The tables before and after every field of a list.
Tables(e, fields) ==
    LET t[i \in 0 .. Len(fields)] == IF i = 0 THEN e.table ELSE Encoded(t[i - 1], e.max, fields[i])
    IN  t

\* build_header_block: encode_header of every field, the first with the pending signal.
EncodeBlock(e, fields) ==
    LET t == Tables(e, fields)
    IN  [enc |-> [e EXCEPT !.table = t[Len(fields)], !.pending = NoSignal],
         out |-> Signal(e) \o [i \in DOMAIN fields |-> Represented(t[i - 1], fields[i])]]

Blocks == UNION {[1 .. n -> Fields] : n \in 1 .. MaxFields}

SendRequest ==
    /\ side = "request" /\ Len(wire) < MaxWire
    /\ \E fields \in Blocks :
        LET b == EncodeBlock(enc, fields)
        IN  /\ enc' = b.enc
            /\ wire' = Append(wire, [kind |-> "block", reps |-> b.out, fields |-> fields])
    /\ UNCHANGED <<side, dec, settings, same>>

\* SETTINGS with another table size: set_peer_max_table_size, and the acknowledgement.
ReadSettings ==
    /\ settings # <<>> /\ Len(wire) < MaxWire
    /\ LET n == Head(settings)
       IN  enc' = IF n = enc.max THEN enc
                  ELSE [table |-> EvictToFit(enc.table, n, 0), max |-> n, pending |-> <<n>>]
    /\ wire' = Append(wire, [kind |-> "ack", size |-> Head(settings)])
    /\ settings' = Tail(settings)
    /\ UNCHANGED <<side, dec, same>>

----------------------------------------------------------------------------
(* The decoder.                                                            *)

Lookup(table, i) == Combined(table)[i]
Valid(table, i) == i \in 1 .. Len(Combined(table))

Resized(d, size) ==
    LET cap == IF size <= d.limit THEN size ELSE d.limit
    IN  [d EXCEPT !.cap = cap, !.table = EvictToFit(@, cap, 0)]

\* One representation of a block, s being the decoder, the fields so far and whether all is well.
DecodeRep(s, rep) ==
    LET d == s.dec
        name == IF rep.index = 0 THEN rep.field.name ELSE Lookup(d.table, rep.index).name
        f == [rep.field EXCEPT !.name = name]
    IN  CASE ~s.ok -> s
          [] s.ok /\ rep.kind = "resize" ->
                IF d.strict /\ rep.size > d.limit THEN [s EXCEPT !.ok = FALSE]
                ELSE [s EXCEPT !.dec = Resized(d, rep.size)]
          [] s.ok /\ rep.kind = "indexed" ->
                IF Valid(d.table, rep.index) THEN [s EXCEPT !.out = Append(@, Lookup(d.table, rep.index))]
                ELSE [s EXCEPT !.ok = FALSE]
          [] s.ok /\ rep.kind \in {"insert", "plain"} ->
                IF rep.index # 0 /\ ~Valid(d.table, rep.index) THEN [s EXCEPT !.ok = FALSE]
                ELSE [s EXCEPT !.out = Append(@, f),
                               !.dec.table = IF rep.kind = "insert" THEN Insert(@, d.cap, f) ELSE @]

\* The decoder before and after every representation.
Decoding(d, reps) ==
    LET s[i \in 0 .. Len(reps)] ==
            IF i = 0 THEN [dec |-> d, out |-> <<>>, ok |-> TRUE] ELSE DecodeRep(s[i - 1], reps[i])
    IN  s

DecodeBlock(d, reps) == Decoding(d, reps)[Len(reps)]

\* decode_block of the client, or of its peer.
ReadBlock ==
    /\ wire # <<>> /\ Head(wire).kind = "block"
    /\ LET s == DecodeBlock(dec, Head(wire).reps)
       IN  /\ dec' = s.dec
           /\ same' = (same /\ s.ok /\ s.out = Head(wire).fields)
    /\ wire' = Tail(wire)
    /\ UNCHANGED <<side, enc, settings>>

----------------------------------------------------------------------------
(* The peer.                                                               *)

\* It announces another size of its table, which counts from the acknowledgement on.
SendSettings ==
    /\ side = "request" /\ Len(settings) < MaxWire
    /\ \E n \in TableSizes : settings' = Append(settings, n)
    /\ UNCHANGED <<side, enc, dec, wire, same>>

ReadAck ==
    /\ wire # <<>> /\ Head(wire).kind = "ack"
    /\ dec' = [dec EXCEPT !.limit = Head(wire).size]
    /\ wire' = Tail(wire)
    /\ UNCHANGED <<side, enc, settings, same>>

\* It encodes a field in any way that RFC 7541 has, and lowers or raises its table.
SendResponse ==
    /\ side = "response" /\ Len(wire) < MaxWire
    /\ \E f \in Fields, i \in 0 .. Len(Combined(enc.table)), k \in {"indexed", "insert", "plain"} :
        /\ i = 0 => k # "indexed"
        /\ i # 0 => Combined(enc.table)[i].name = f.name
        /\ k = "indexed" => Combined(enc.table)[i] = f
        /\ wire' = Append(wire, [kind |-> "block", fields |-> <<f>>,
                reps |-> Append(Signal(enc), IF k = "indexed" THEN [kind |-> k, index |-> i]
                                             ELSE [kind |-> k, index |-> i, field |-> f])])
        /\ enc' = [enc EXCEPT !.pending = NoSignal,
                              !.table = IF k = "insert" THEN Insert(@, enc.max, f) ELSE @]
    /\ UNCHANGED <<side, dec, settings, same>>

Resize ==
    /\ side = "response" /\ enc.pending = NoSignal
    /\ \E n \in {m \in TableSizes : m <= DynTableCap} :
        enc' = [table |-> EvictToFit(enc.table, n, 0), max |-> n, pending |-> <<n>>]
    /\ UNCHANGED <<side, dec, settings, wire, same>>

----------------------------------------------------------------------------
Next == SendRequest \/ ReadSettings \/ ReadBlock \/ SendSettings \/ ReadAck \/ SendResponse \/ Resize

Spec == Init /\ [][Next]_vars

\* A field list is decoded as it was encoded, in both directions, however often the
\* peer changes the size of its table and wherever blocks and SETTINGS cross
\* (Encoder::encode_header, Decoder::decode_block).
HeadersAsSent == same
=============================================================================
