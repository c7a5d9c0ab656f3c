------------------------------- MODULE Http3 -------------------------------
(***************************************************************************)
(* One exchange over a fresh HTTP/3 connection (src/http3.rs): the request  *)
(* section, the QPACK dynamic table that the server's encoder stream fills, *)
(* and read_response, which drains that stream, reads the frames of the     *)
(* request stream and turns them into a response.  A datagram may bring     *)
(* more of either stream, so a section can arrive before the inserts it     *)
(* refers to.  The server follows RFC 9114 and RFC 9204 and sends every     *)
(* insert before the section that needs it.                                 *)
(***************************************************************************)
EXTENDS Naturals, SequencesExt

CONSTANTS
    Fields3,      \* header fields: [name, value, size]
    Static3,      \* STATIC_TABLE: a sequence of fields
    MaxCapacity,  \* MAX_DYNAMIC_CAPACITY, advertised as QPACK_MAX_TABLE_CAPACITY
    Overhead,     \* ENTRY_OVERHEAD, the least size of an entry
    SplitInts,    \* may a datagram end inside the integer that starts an instruction?
    Inserts,      \* bound: the fields that the server inserts, in this order
    MaxAhead,     \* bound: instructions, and sections without acknowledgement, under way
    MaxChunks     \* bound: DATA frames of a response

ASSUME Http3Assumption ==
    /\ Overhead \in Nat \ {0} /\ MaxCapacity \in Nat
    /\ \A f \in Fields3 : f = [name |-> f.name, value |-> f.value, size |-> f.size] /\ f.size \in Nat /\ f.size >= Overhead
    /\ \A f, g \in Fields3 : f.name = g.name /\ f.value = g.value => f = g
    /\ Static3 \in Seq(Fields3) \ {<<>>} /\ SplitInts \in BOOLEAN
    /\ Inserts \in Seq(Fields3) \ {<<>>} /\ MaxAhead \in Nat /\ MaxChunks \in Nat

VARIABLES
    client,  \* pc, result, the dynamic table, and what read_response has gathered
    uni,     \* the server's encoder stream: on the way, received, and is the next cut?
    bidi,    \* the request stream towards the client: on the way, received
    acks,    \* Section Acknowledgements on their way to the server
    closed,  \* has CONNECTION_CLOSE arrived?
    srv,     \* the server: its table, what it knows to be received, and its progress
    agree    \* has every section been decoded to the fields that were meant?

h3vars == <<client, uni, bidi, acks, closed, srv, agree>>

NoTable == [entries |-> <<>>, cap |-> 0, inserted |-> 0, dropped |-> 0]

Nothing == <<>>

Init3 ==
    /\ client = [pc |-> "start", result |-> "none", table |-> NoTable, headers |-> Nothing, body |-> 0]
    /\ uni = [wire |-> <<>>, here |-> <<>>, cut |-> FALSE]
    /\ bidi = [wire |-> <<>>, here |-> <<>>]
    /\ acks = 0 /\ closed = FALSE /\ agree = TRUE
    /\ srv = [table |-> NoTable, known |-> 0, unacked |-> <<>>, phase |-> "waiting",
              headers |-> Nothing, body |-> 0]

----------------------------------------------------------------------------
(* The dynamic table.  An operator that may refuse returns {} or {result}.  *)

TableSize(entries) ==
    LET size[n \in 0 .. Len(entries)] == IF n = 0 THEN 0 ELSE size[n - 1] + entries[n].size
    IN  size[Len(entries)]

\* evict_to_fit: the oldest entries go until the rest and `incoming` fit.
Evict(t, cap, incoming) ==
    LET n == Min({k \in 0 .. Len(t.entries) :
                k = Len(t.entries) \/ TableSize(SubSeq(t.entries, k + 1, Len(t.entries))) + incoming <= cap})
    IN  [t EXCEPT !.entries = SubSeq(@, n + 1, Len(@)), !.dropped = @ + n, !.cap = cap]

SetCapacity(t, cap) == IF cap > MaxCapacity THEN {} ELSE {Evict(t, cap, 0)}

InsertEntry(t, f) ==
    IF f.size > t.cap THEN {}
    ELSE LET e == Evict(t, t.cap, f.size)
         IN  {[e EXCEPT !.entries = Append(@, f), !.inserted = @ + 1]}

\* get_absolute.
Live(t, abs) == abs >= t.dropped /\ abs < t.inserted
Entry(t, abs) == t.entries[abs - t.dropped + 1]

Absolute(t, abs) == IF Live(t, abs) THEN {Entry(t, abs)} ELSE {}

\* Mutant: the index of a field line is counted from the last insert, not from Base.
MutBack(t, last, rel) == IF t.inserted < rel + 1 THEN {} ELSE Absolute(t, t.inserted - 1 - rel)

\* relative_to_absolute_insert and field_relative_to_absolute: counted back from `last`.
Back(t, last, rel) == IF last < rel + 1 THEN {} ELSE Absolute(t, last - 1 - rel)

Named(f, value) == [value EXCEPT !.name = f.name]

\* decode_encoder_instruction.
Apply(t, i) ==
    CASE i.kind = "capacity"  -> SetCapacity(t, i.cap)
      [] i.kind = "literal"   -> InsertEntry(t, i.field)
      [] i.kind = "static"    -> InsertEntry(t, Named(Static3[i.index], i.field))
      [] i.kind = "named"     -> UNION {InsertEntry(t, Named(f, i.field)) : f \in Back(t, t.inserted, i.index)}
      [] i.kind = "duplicate" -> UNION {InsertEntry(t, f) : f \in Back(t, t.inserted, i.index)}

\* apply_encoder_instructions.
ApplyAll(t, instructions) ==
    LET ts[i \in 0 .. Len(instructions)] ==
            IF i = 0 THEN {t} ELSE UNION {Apply(u, instructions[i]) : u \in ts[i - 1]}
    IN  ts[Len(instructions)]

----------------------------------------------------------------------------
(* Field sections.                                                         *)

MaxEntries == MaxCapacity \div Overhead

\* Mutant: the count is not unwrapped.
MutRequiredInsertCount(encoded, inserted) == IF encoded = 0 THEN {0} ELSE {encoded - 1} \ {0}

\* decode_required_insert_count.
RequiredInsertCount(encoded, inserted) ==
    LET full == 2 * MaxEntries
        most == inserted + MaxEntries
        ric == (most \div full) * full + encoded - 1
    IN  IF encoded = 0 THEN {0}
        ELSE IF encoded > full \/ (ric > most /\ ric <= full) THEN {}
        ELSE {IF ric > most THEN ric - full ELSE ric} \ {0}

\* decode_base: the sign tells the direction of the offset.
Base(section, ric) ==
    IF section.sign THEN IF ric < section.delta + 1 THEN {} ELSE {ric - section.delta - 1}
    ELSE {ric + section.delta}

\* One field line, by the arms of decode_field_section_with.
Line(t, base, l) ==
    CASE l.kind = "static"         -> {Static3[l.index]}
      [] l.kind = "static name"    -> {Named(Static3[l.index], l.field)}
      [] l.kind = "literal"        -> {l.field}
      [] l.kind = "dynamic"        -> Back(t, base, l.index)
      [] l.kind = "dynamic name"   -> {Named(f, l.field) : f \in Back(t, base, l.index)}
      [] l.kind = "postbase"       -> Absolute(t, base + l.index)
      [] l.kind = "postbase name"  -> {Named(f, l.field) : f \in Absolute(t, base + l.index)}

Joined(outs, fields) == {Append(x[1], x[2]) : x \in outs \X fields}

Lines(t, base, lines) ==
    LET outs[i \in 0 .. Len(lines)] ==
            IF i = 0 THEN {<<>>} ELSE Joined(outs[i - 1], Line(t, base, lines[i]))
    IN  outs[Len(lines)]

\* decode_field_section_with.
DecodeSection(t, section) ==
    UNION {Lines(t, base, section.lines) :
        base \in UNION {Base(section, ric) :
            ric \in {r \in RequiredInsertCount(section.ric, t.inserted) : r <= t.inserted}}}

\* encode_field and encode_field_section: the request uses the static table only.
EncodeField(f) ==
    LET full == SelectInSeq(Static3, LAMBDA g : g.name = f.name /\ g.value = f.value)
        name == SelectInSeq(Static3, LAMBDA g : g.name = f.name)
    IN  IF full # 0 THEN [kind |-> "static", index |-> full]
        ELSE IF name # 0 THEN [kind |-> "static name", index |-> name, field |-> f]
        ELSE [kind |-> "literal", field |-> f]

EncodeSection(fields) ==
    [ric |-> 0, sign |-> FALSE, delta |-> 0, lines |-> [i \in DOMAIN fields |-> EncodeField(fields[i])]]

----------------------------------------------------------------------------
(* The client.                                                             *)

Done(r) == [client EXCEPT !.pc = "done", !.result = r]

\* build_client, open_udp and handshake.
Connect ==
    /\ client.pc = "start"
    /\ client' = [client EXCEPT !.pc = "connected"]
    /\ UNCHANGED <<uni, bidi, acks, closed, srv, agree>>

\* write_request: the header section, the body and the FIN.  The server decodes the section.
WriteRequest ==
    /\ client.pc = "connected"
    /\ \E fields \in Fields3 \X Fields3 :
        agree' = (agree /\ DecodeSection(NoTable, EncodeSection(fields)) = {fields})
    /\ client' = [client EXCEPT !.pc = "read"]
    /\ srv' = [srv EXCEPT !.phase = "asked"]
    /\ UNCHANGED <<uni, bidi, acks, closed>>

\* No handshake within the deadline, no stream, no flow-control credit for the request.
SendFails ==
    /\ client.pc \in {"start", "connected"}
    /\ client' = Done("error")
    /\ UNCHANGED <<uni, bidi, acks, closed, srv, agree>>

\* The deadline of read_response passes, or the connection is found closed.
GiveUp ==
    /\ client.pc = "read"
    /\ client' = Done("error")
    /\ UNCHANGED <<uni, bidi, acks, closed, srv, agree>>

\* A HEADERS frame; the first section is the header of the response.
ConsumeSection(s, frame) ==
    LET got == DecodeSection(s.table, frame.section)
    IN  IF got = {} THEN [s EXCEPT !.refused = TRUE]
        ELSE [s EXCEPT !.headers = IF @ = Nothing THEN CHOOSE f \in got : TRUE ELSE @,
                       !.agree = @ /\ got = {frame.fields},
                       !.acks = IF frame.section.ric # 0 THEN @ + 1 ELSE @]

\* try_consume_frame.
ConsumeFrame(s, frame) ==
    IF s.refused \/ s.stub THEN s
    ELSE CASE frame.kind \in {"grease", "fin"} -> s
           [] frame.kind = "data"    -> [s EXCEPT !.body = @ + 1]
           [] frame.kind = "stub"    -> [s EXCEPT !.stub = TRUE]
           [] frame.kind = "headers" -> ConsumeSection(s, frame)

\* The frames in the buffer, one after the other.
Consuming(s, frames) ==
    LET run[i \in 0 .. Len(frames)] == IF i = 0 THEN s ELSE ConsumeFrame(run[i - 1], frames[i])
    IN  run

\* Mutant: a FIN ends the response although a frame is incomplete.
MutOutcome(s) == IF s.refused THEN "refused" ELSE IF s.fin /\ s.headers # Nothing THEN "ok" ELSE "none"

\* What read_response makes of the frames: an error, a response, or another round.
Outcome(s) ==
    IF s.refused THEN "refused"
    ELSE IF ~s.fin THEN "none"
    ELSE IF s.stub \/ s.headers = Nothing THEN "error"
    ELSE "ok"

\* drain_uni_streams: the encoder stream goes into the table; the others are dropped.
Drained == IF uni.cut THEN {} ELSE ApplyAll(client.table, uni.here)

\* One round of the loop: drain_uni_streams, conn.read, the frames, and the FIN.
ReadRound ==
    /\ client.pc = "read" /\ ~closed
    /\ LET t == CHOOSE u \in Drained : TRUE
           fin == bidi.here # <<>> /\ Last(bidi.here).kind = "fin"
           s == Consuming([table |-> t, headers |-> client.headers, body |-> client.body, acks |-> acks,
                           agree |-> agree, refused |-> FALSE, stub |-> FALSE, fin |-> fin],
                          bidi.here)[Len(bidi.here)]
           r == Outcome(s)
       IN  IF Drained = {}
           THEN client' = Done("refused") /\ UNCHANGED <<uni, bidi, acks, agree>>
           ELSE /\ client' = [client EXCEPT !.pc = IF r = "none" THEN "pump" ELSE "done", !.result = r,
                                            !.table = t, !.headers = s.headers, !.body = s.body]
                /\ uni' = [uni EXCEPT !.here = <<>>]
                /\ bidi' = [bidi EXCEPT !.here = IF s.refused THEN @
                                                 ELSE IF s.stub THEN <<[kind |-> "stub"]>> ELSE <<>>]
                /\ acks' = s.acks /\ agree' = s.agree
    /\ UNCHANGED <<closed, srv>>

\* pump_once: a datagram brings more of the streams, or the end of the connection,
\* or recv returns with nothing.  It may end inside the next instruction: where that is
\* in the integer that starts it (an index of 63 or more, a capacity of 4096), decode_int
\* does not ask for more; elsewhere the rest is awaited, as if nothing of it had come.
Pump ==
    /\ client.pc = "pump"
    /\ \E u \in 0 .. Len(uni.wire), b \in 0 .. Len(bidi.wire), cut \in {FALSE, SplitInts} :
        /\ cut => u < Len(uni.wire)
        /\ uni' = [wire |-> SubSeq(uni.wire, u + 1, Len(uni.wire)),
                   here |-> uni.here \o SubSeq(uni.wire, 1, u),
                   cut |-> cut]
        /\ bidi' = [wire |-> SubSeq(bidi.wire, b + 1, Len(bidi.wire)),
                    here |-> bidi.here \o SubSeq(bidi.wire, 1, b)]
    /\ client' = [client EXCEPT !.pc = "read"]
    /\ UNCHANGED <<acks, closed, srv, agree>>

PumpClosed ==
    /\ client.pc = "pump"
    /\ closed' = TRUE
    /\ client' = [client EXCEPT !.pc = "read"]
    /\ UNCHANGED <<uni, bidi, acks, srv, agree>>

\* The socket fails.
PumpFails ==
    /\ client.pc = "pump"
    /\ client' = Done("error")
    /\ UNCHANGED <<uni, bidi, acks, closed, srv, agree>>

----------------------------------------------------------------------------
(* The server.                                                             *)

\* An entry may go once its insert is known to be received and no section that is
\* not yet acknowledged refers to it.
MayEvict(t) ==
    \A abs \in srv.table.dropped .. t.dropped - 1 :
        abs < srv.known /\ \A i \in DOMAIN srv.unacked : abs \notin srv.unacked[i].refs

\* (What it does after the client has left is not modelled.)
Answering == srv.phase \in {"asked", "body"} /\ client.pc # "done"

\* The instructions that the server may send next.
Instructions ==
    LET f == Inserts[srv.table.inserted + 1]
        live == 0 .. Len(srv.table.entries) - 1
    IN  [kind : {"capacity"}, cap : {MaxCapacity, MaxCapacity \div 2}]
        \cup IF srv.table.inserted = Len(Inserts) THEN {}
             ELSE [kind : {"literal"}, field : {f}]
                  \cup [kind : {"static"}, index : DOMAIN Static3, field : {f}]
                  \cup [kind : {"named"}, index : live, field : {f}]
                  \cup [kind : {"duplicate"}, index : live \ {0}]

Instruct ==
    /\ Answering /\ Len(uni.wire) < MaxAhead
    /\ \E i \in Instructions : \E t \in Apply(srv.table, i) :
        /\ t # srv.table /\ MayEvict(t)
        /\ srv' = [srv EXCEPT !.table = t]
        /\ uni' = [uni EXCEPT !.wire = Append(@, i)]
    /\ UNCHANGED <<client, bidi, acks, closed, agree>>

\* A section of one line: a static field or a literal, or an entry of the table (or its name) relative
\* to a Base of the server's choice.
Section ==
    {[section |-> [ric |-> 0, sign |-> FALSE, delta |-> 0, lines |-> <<EncodeField(f)>>],
      fields |-> <<f>>, refs |-> {}, need |-> 0] : f \in {Head(Static3), Head(Inserts)}}
    \cup
    {LET need == abs + 1
         line == IF abs < base THEN [kind |-> "dynamic", index |-> base - 1 - abs]
                 ELSE [kind |-> "postbase", index |-> abs - base]
     IN  [section |-> [ric |-> (need % (2 * MaxEntries)) + 1,
                       sign |-> base < need,
                       delta |-> IF base < need THEN need - base - 1 ELSE base - need,
                       lines |-> <<line>>],
          fields |-> <<Entry(srv.table, abs)>>, refs |-> {abs}, need |-> need] :
        abs \in srv.table.dropped .. srv.table.inserted - 1, base \in 0 .. srv.table.inserted}

\* The response header, and after the body the trailers.
SendSection ==
    /\ Answering /\ Len(srv.unacked) < MaxAhead
    /\ \E x \in Section :
        /\ bidi' = [bidi EXCEPT !.wire = Append(@, [kind |-> "headers", section |-> x.section,
                                                    fields |-> x.fields, need |-> x.need])]
        /\ srv' = [srv EXCEPT !.unacked = IF x.need = 0 THEN @ ELSE Append(@, [refs |-> x.refs, need |-> x.need]),
                              !.headers = IF srv.phase = "asked" THEN x.fields ELSE @,
                              !.phase = IF srv.phase = "asked" THEN "body" ELSE "trailed"]
    /\ UNCHANGED <<client, uni, acks, closed, agree>>

SendData ==
    /\ srv.phase = "body" /\ client.pc # "done" /\ srv.body < MaxChunks
    /\ \E k \in {"data", "grease"} :
        /\ bidi' = [bidi EXCEPT !.wire = Append(@, [kind |-> k])]
        /\ srv' = [srv EXCEPT !.body = IF k = "data" THEN @ + 1 ELSE @]
        /\ k = "grease" => \A i \in DOMAIN bidi.wire : bidi.wire[i].kind # k
    /\ UNCHANGED <<client, uni, acks, closed, agree>>

\* The stream ends, after a whole response or in the middle of a frame.
Finish ==
    /\ srv.phase \in {"body", "trailed"} /\ client.pc # "done"
    /\ \E whole \in BOOLEAN :
        /\ bidi' = [bidi EXCEPT !.wire = @ \o (IF whole THEN <<>> ELSE <<[kind |-> "stub"]>>)
                                           \o <<[kind |-> "fin"]>>]
        /\ srv' = [srv EXCEPT !.phase = IF whole THEN "ended" ELSE "truncated"]
    /\ UNCHANGED <<client, uni, acks, closed, agree>>

\* A Section Acknowledgement arrives: its inserts are received, its references gone.
ReadSectionAck ==
    /\ acks > 0 /\ client.pc # "done"
    /\ acks' = acks - 1
    /\ srv' = [srv EXCEPT !.unacked = Tail(@), !.known = IF Head(srv.unacked).need > @
                                                         THEN Head(srv.unacked).need ELSE @]
    /\ UNCHANGED <<client, uni, bidi, closed, agree>>

----------------------------------------------------------------------------
Next3 ==
    \/ Connect \/ WriteRequest \/ SendFails \/ GiveUp \/ ReadRound \/ Pump \/ PumpClosed \/ PumpFails
    \/ Instruct \/ SendSection \/ SendData \/ Finish \/ ReadSectionAck

\* A field section is decoded to the fields its encoder meant, whatever Base it chose
\* and however the encoder stream and the request stream were interleaved
\* (decode_field_section_with, DynamicTable).
SectionsAsSent == agree

\* An exchange is given up for its QPACK streams only when a section arrived before
\* the inserts that it refers to: what has arrived in pieces is awaited
\* (apply_encoder_instructions: a partial instruction "is left unconsumed").
RefusedOnlyOvertaken ==
    client.result = "refused" =>
        \E i \in DOMAIN bidi.here : bidi.here[i].kind = "headers" /\ bidi.here[i].need > client.table.inserted

\* A response that is returned has the first section as its header and the whole body,
\* with or without trailers (read_response).
ResponseWhole ==
    client.result = "ok" =>
        /\ srv.phase = "ended"
        /\ client.headers = srv.headers /\ client.body = srv.body
=============================================================================
