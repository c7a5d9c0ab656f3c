-------------------------- MODULE H2MultiplexProofs --------------------------
(***************************************************************************)
(* What TLAPS proves of run_multiplexed, for every batch, every peer (also  *)
(* one that breaks the protocol) and every failing write: the type          *)
(* invariant, the accounting of requests, and that no request comes back    *)
(* with collect_results' "internal" error; then, in the second half, of a   *)
(* peer that keeps to RFC 9113: that both ends agree on every stream.       *)
(***************************************************************************)
EXTENDS H2Multiplex, FiniteSetTheorems, TLAPS

----------------------------------------------------------------------------
(* The handlers of H2Connection keep the connection well formed and neither *)
(* add nor remove a stream.                                                 *)

ConnOK(c) ==
    /\ c \in [mcs : Nat, iws : Nat, mfs : Nat, send : Int, recv : Int,
              streams : [Live(c) -> Stream],
              nextId : Nat, goaway : Nat \cup {None}, expecting : StreamIds \cup {NoStream}]
    /\ Live(c) \subseteq StreamIds

\* What the handlers rely on in a frame of Frames.
FrameOK(f) ==
    /\ f.id \in StreamIds \cup {0}
    /\ f.typ = "HEADERS" => f.kind \in BlockKinds /\ f.endStream \in BOOLEAN
                            /\ f.endHeaders \in BOOLEAN /\ f.bad \in BOOLEAN /\ f.id \in StreamIds
    /\ f.typ = "CONTINUATION" => f.endHeaders \in BOOLEAN /\ f.id \in StreamIds
    /\ f.typ = "DATA" => f.len \in Nat /\ f.pad \in 0..f.len /\ f.endStream \in BOOLEAN
                         /\ f.bad \in BOOLEAN /\ f.id \in StreamIds
    /\ f.typ = "RST_STREAM" => f.id \in StreamIds
    /\ f.typ = "WINDOW_UPDATE" => f.inc \in Nat /\ f.bad \in BOOLEAN
    /\ f.typ = "GOAWAY" => f.last \in Nat
    /\ f.typ = "SETTINGS" => f.mcs \in Nat \cup {Keep} /\ f.iws \in Nat \cup {Keep}
                             /\ f.mfs \in Nat \cup {Keep} /\ f.bad \in BOOLEAN

\* The result of a handler on connection c for a frame on stream id.
Handled(c, id, r) ==
    /\ ConnOK(r.conn) /\ Live(r.conn) = Live(c) /\ r.conn.nextId = c.nextId
    /\ r.out = "done" => id \in Live(c)

\* The frames the model offers are well formed.
LEMMA FramesOK == ASSUME NEW f \in Frames PROVE FrameOK(f)
  <1>a. Bad \subseteq BOOLEAN
    BY Zenon DEF Bad
  <1>b. Pads \subseteq 0..1
    BY DEF Pads
  <1>c. /\ McsValues \subseteq Nat /\ IwsValues \subseteq Nat /\ MfsValues \subseteq Nat
        /\ DataLens \subseteq Nat /\ Increments \subseteq Nat
    BY PeerAssumption
  <1> USE SizeAssumption, <1>a, <1>b, <1>c DEF FrameOK, StreamIds, Issued
  <1>1. CASE f \in HeadersFrames
    <2>1. PICK i \in Issued, k \in Kinds, es \in BOOLEAN, eh \in BOOLEAN, bad \in Bad :
            f = Headers(i, k, es, eh, bad)
      BY <1>1 DEF HeadersFrames
    <2> QED BY <2>1 DEF Headers, Kinds
  <1>2. CASE f \in ContinuationFrames
    <2>1. PICK i \in Issued, eh \in BOOLEAN : f = Continuation(i, eh)
      BY <1>2 DEF ContinuationFrames
    <2> QED BY <2>1 DEF Continuation
  <1>3. CASE f \in DataFrames
    <2>1. PICK i \in Issued, n \in DataLens, pad \in Pads, es \in BOOLEAN, bad \in Bad :
            f = Data(i, n, pad, es, bad) /\ f.pad <= f.len
      BY <1>3 DEF DataFrames
    <2> QED BY <2>1 DEF Data
  <1>4. CASE f \in WindowUpdateFrames
    <2>1. PICK i \in Issued \cup {0}, n \in Increments \cup {0}, bad \in Bad : f = WindowUpdate(i, n, bad)
      BY <1>4 DEF WindowUpdateFrames
    <2> QED BY <2>1 DEF WindowUpdate
  <1>5. CASE f \in SettingsFrames
    <2>1. PICK m \in McsValues \cup {Keep}, v \in IwsValues \cup {Keep},
               z \in MfsValues \cup {Keep}, bad \in Bad : f = Settings(m, v, z, bad)
      BY <1>5 DEF SettingsFrames
    <2> QED BY <2>1 DEF Settings
  <1>6. CASE f \in OtherFrames
    BY <1>6 DEF OtherFrames, Rst, PushPromise, Goaway, Ping
  <1> QED BY <1>1, <1>2, <1>3, <1>4, <1>5, <1>6 DEF Frames

\* Replacing a registered stream by a well-formed one.
LEMMA SetStreamOK ==
    ASSUME NEW c, ConnOK(c), NEW id \in Live(c), NEW s \in Stream
    PROVE  /\ ConnOK(SetStream(c, id, s)) /\ Live(SetStream(c, id, s)) = Live(c)
           /\ SetStream(c, id, s).nextId = c.nextId /\ SetStream(c, id, s).goaway = c.goaway
           /\ SetStream(c, id, s).mcs = c.mcs /\ SetStream(c, id, s).streams[id] = s
  <1> DEFINE strs == [i \in Live(c) \cup {id} |-> IF i = id THEN s ELSE c.streams[i]]
  <1>1. strs \in [Live(c) -> Stream] /\ DOMAIN strs = Live(c) /\ strs[id] = s
    BY DEF ConnOK
  <1>2. SetStream(c, id, s) = [c EXCEPT !.streams = strs]
    BY DEF SetStream
  <1> HIDE DEF strs
  <1> QED BY <1>1, <1>2 DEF ConnOK, Live

\* Removing streams, by any of the four removals the driver makes.
LEMMA DropStreamsOK ==
    ASSUME NEW c, ConnOK(c), NEW ids
    PROVE  /\ ConnOK(DropStreams(c, ids)) /\ Live(DropStreams(c, ids)) = Live(c) \ ids
           /\ DropStreams(c, ids).nextId = c.nextId /\ DropStreams(c, ids).goaway = c.goaway
           /\ DropStreams(c, ids).mcs = c.mcs
  <1> DEFINE strs == [i \in Live(c) \ ids |-> c.streams[i]]
  <1>1. strs \in [Live(c) \ ids -> Stream] /\ DOMAIN strs = Live(c) \ ids
    BY DEF ConnOK
  <1>2. DropStreams(c, ids) = [c EXCEPT !.streams = strs]
    BY DEF DropStreams
  <1> HIDE DEF strs
  <1> QED BY <1>1, <1>2 DEF ConnOK, Live

\* Setting or clearing expecting_continuation.
LEMMA ExpectOK ==
    ASSUME NEW c, ConnOK(c), NEW e \in StreamIds \cup {NoStream}
    PROVE  /\ ConnOK([c EXCEPT !.expecting = e]) /\ Live([c EXCEPT !.expecting = e]) = Live(c)
           /\ [c EXCEPT !.expecting = e].nextId = c.nextId
           /\ [c EXCEPT !.expecting = e].streams = c.streams
  BY DEF ConnOK, Live

\* A registered stream is well formed.
LEMMA StreamOK == ASSUME NEW c, ConnOK(c), NEW i \in Live(c) PROVE c.streams[i] \in Stream
  BY DEF ConnOK

\* A handler that replaces its stream and perhaps sets expecting_continuation.
LEMMA ReplacedHandled ==
    ASSUME NEW c, ConnOK(c), NEW id \in Live(c), NEW x \in Stream,
           NEW e \in StreamIds \cup {NoStream}, NEW out
    PROVE  /\ Handled(c, id, Result([SetStream(c, id, x) EXCEPT !.expecting = e], out))
           /\ Handled(c, id, Result(SetStream(c, id, x), out))
  <1> DEFINE d == SetStream(c, id, x)
             y == [d EXCEPT !.expecting = e]
  <1>1. ConnOK(d) /\ Live(d) = Live(c) /\ d.nextId = c.nextId
    BY SetStreamOK
  <1> HIDE DEF d
  <1>2. ConnOK(y) /\ Live(y) = Live(c) /\ y.nextId = c.nextId
    BY <1>1, ExpectOK
  <1> HIDE DEF y
  <1> QED BY <1>1, <1>2 DEF Handled, Result, d, y

\* The stream records process_headers builds.
LEMMA BufferedOK ==
    ASSUME NEW s \in Stream, HeaderRoom(s), NEW k \in BlockKinds, NEW fin \in BOOLEAN
    PROVE  LET buffered == [s EXCEPT !.hdrLen = @ + 1, !.hdrKind = k]
           IN  buffered \in Stream /\ [buffered EXCEPT !.fin = fin] \in Stream
  <1>1. s.hdrLen + 1 \in 0..MaxHeadersBuf
    BY SizeAssumption DEF Stream, HeaderRoom
  <1> DEFINE buffered == [s EXCEPT !.hdrLen = @ + 1, !.hdrKind = k]
  <1>2. buffered \in Stream
    BY <1>1 DEF Stream
  <1> HIDE DEF buffered
  <1>3. [buffered EXCEPT !.fin = fin] \in Stream
    BY <1>2 DEF Stream
  <1> QED BY <1>2, <1>3 DEF buffered

\* process_headers
LEMMA HeadersHandled ==
    ASSUME NEW c, ConnOK(c), NEW f, FrameOK(f), f.typ = "HEADERS"
    PROVE  Handled(c, f.id, ProcessHeaders(c, f))
  <1>0. CASE f.bad \/ f.id \notin Live(c)
    BY <1>0 DEF ProcessHeaders, Handled, Failed, Result
  <1>1. CASE ~f.bad /\ f.id \in Live(c)
    <2> DEFINE s == c.streams[f.id]
               st == RecvHeaders(s.state, f.endStream)
               buffered == [s EXCEPT !.hdrLen = @ + 1, !.hdrKind = f.kind]
               marked == [buffered EXCEPT !.fin = s.fin \/ f.endStream]
               decoded == [marked EXCEPT !.hdrLen = 0, !.resp = f.kind, !.state = st]
    <2>1. s \in Stream
      BY <1>1, StreamOK
    <2>a. (s.fin \/ f.endStream) \in BOOLEAN
      OBVIOUS
    <2>b. f.kind \in BlockKinds
      BY DEF FrameOK
    <2>2. HeaderRoom(s) => buffered \in Stream /\ marked \in Stream
      BY <2>1, <2>a, <2>b, BufferedOK DEF HeaderRoom
    <2>3. st \in StreamStates \cup {"Err"}
      BY DEF RecvHeaders, RecvData, StreamStates
    <2>4. HeaderRoom(s) /\ st # "Err" =>
            /\ decoded \in Stream /\ [marked EXCEPT !.state = st] \in Stream
            /\ [marked EXCEPT !.hdrLen = 0] \in Stream
      <3> HIDE DEF s, st, buffered, marked
      <3>1. 0 \in 0..MaxHeadersBuf
        BY SizeAssumption
      <3> QED BY <2>2, <2>3, <2>b, <3>1 DEF Stream
    <2> HIDE DEF s, st, buffered, marked, decoded
    <2> DEFINE set(x) == SetStream(c, f.id, x)
    <2>5. Handled(c, f.id, Failed(c)) /\ Handled(c, f.id, Result(c, "continue"))
      BY DEF Handled, Failed, Result
    <2>6. ASSUME NEW x \in Stream, NEW e \in StreamIds \cup {NoStream}, NEW out
          PROVE  /\ Handled(c, f.id, Result([set(x) EXCEPT !.expecting = e], out))
                 /\ Handled(c, f.id, Failed(set(x)))
      BY <1>1, ReplacedHandled DEF Failed
    <2> HIDE DEF set
    <2>7. CASE s.state = "Closed"
      <3>1. \/ ProcessHeaders(c, f) = Failed(c)
            \/ ProcessHeaders(c, f) = Result(c, "continue")
            \/ /\ HeaderRoom(s)
               /\ ProcessHeaders(c, f) = Result([set(buffered) EXCEPT !.expecting = f.id], "continue")
        BY <1>1, <2>7 DEF ProcessHeaders, s, st, buffered, marked, decoded, set
      <3> QED BY <3>1, <2>2, <2>5, <2>6 DEF FrameOK
    <2>8. CASE s.state # "Closed"
      <3> DEFINE open == [set([marked EXCEPT !.state = st]) EXCEPT !.expecting = f.id]
                 final == [set(decoded) EXCEPT !.expecting = NoStream]
      <3>1. \/ ProcessHeaders(c, f) = Failed(c)
            \/ /\ HeaderRoom(s) /\ st # "Err"
               /\ \/ ProcessHeaders(c, f) = Result(open, Outcome(open, f.id))
                  \/ ProcessHeaders(c, f) = Failed(set([marked EXCEPT !.hdrLen = 0]))
                  \/ ProcessHeaders(c, f) = Result(final, Outcome(final, f.id))
        BY <1>1, <2>8 DEF ProcessHeaders, s, st, buffered, marked, decoded, set
      <3> QED BY <3>1, <2>4, <2>5, <2>6 DEF FrameOK
    <2> QED BY <2>7, <2>8
  <1> QED BY <1>0, <1>1 DEF FrameOK

\* process_continuation
LEMMA ContinuationHandled ==
    ASSUME NEW c, ConnOK(c), NEW f, FrameOK(f), f.typ = "CONTINUATION"
    PROVE  Handled(c, f.id, ProcessContinuation(c, f))
  <1>0. CASE f.id \notin Live(c)
    BY <1>0 DEF ProcessContinuation, Handled, Failed, Result
  <1>1. CASE f.id \in Live(c)
    <2> DEFINE s == c.streams[f.id]
               more == [s EXCEPT !.hdrLen = @ + 1]
               taken == [s EXCEPT !.hdrLen = 0]
               decoded == [s EXCEPT !.hdrLen = 0, !.resp = IF s.state # "Closed" THEN s.hdrKind ELSE @]
               set(x) == SetStream(c, f.id, x)
    <2>1. s \in Stream
      BY <1>1, StreamOK
    <2>2. HeaderRoom(s) => s.hdrLen + 1 \in 0..MaxHeadersBuf
      BY <2>1, SizeAssumption DEF Stream, HeaderRoom
    <2>3. HeaderRoom(s) => more \in Stream
      BY <2>1, <2>2 DEF Stream
    <2>4. 0 \in 0..MaxHeadersBuf
      BY SizeAssumption
    <2>5. taken \in Stream /\ decoded \in Stream
      BY <2>1, <2>4 DEF Stream
    <2> HIDE DEF s, more, taken, decoded, set
    <2>6. Handled(c, f.id, Failed(c))
      BY DEF Handled, Failed, Result
    <2> DEFINE final == [set(decoded) EXCEPT !.expecting = NoStream]
    <2>7. \/ ProcessContinuation(c, f) = Failed(c)
          \/ HeaderRoom(s) /\ ProcessContinuation(c, f) = Result(set(more), Outcome(set(more), f.id))
          \/ ProcessContinuation(c, f) = Failed(set(taken))
          \/ ProcessContinuation(c, f) = Result(final, Outcome(final, f.id))
      BY <1>1 DEF ProcessContinuation, s, more, taken, decoded, set
    <2>8. ASSUME NEW x \in Stream, NEW out
          PROVE  /\ Handled(c, f.id, Result(set(x), out))
                 /\ Handled(c, f.id, Result([set(x) EXCEPT !.expecting = NoStream], out))
      BY <1>1, ReplacedHandled DEF set
    <2> QED BY <2>3, <2>5, <2>6, <2>7, <2>8 DEF Failed
  <1> QED BY <1>0, <1>1

\* process_rst and WINDOW_UPDATE on a stream
LEMMA RstHandled ==
    ASSUME NEW c, ConnOK(c), NEW f, FrameOK(f), f.typ = "RST_STREAM"
    PROVE  Handled(c, f.id, ProcessRst(c, f))
  <1>0. Handled(c, f.id, Failed(c)) /\ Handled(c, f.id, Result(c, "continue"))
    BY DEF Handled, Failed, Result
  <1>1. CASE f.id \in Live(c)
    <2> DEFINE x == [c.streams[f.id] EXCEPT !.state = "Closed"]
    <2>1. x \in Stream
      BY <1>1, StreamOK DEF Stream, StreamStates
    <2>2. ProcessRst(c, f) \in {Failed(c), Result(c, "continue"), Failed(SetStream(c, f.id, x))}
      BY <1>1 DEF ProcessRst, RecvRst
    <2> QED BY <1>0, <1>1, <2>1, <2>2, ReplacedHandled DEF Failed
  <1>2. CASE f.id \notin Live(c)
    BY <1>0, <1>2 DEF ProcessRst
  <1> QED BY <1>1, <1>2

LEMMA WindowUpdateHandled ==
    ASSUME NEW c, ConnOK(c), NEW f, FrameOK(f), f.typ = "WINDOW_UPDATE"
    PROVE  Handled(c, f.id, StreamWindowUpdate(c, f))
  <1>0. Handled(c, f.id, Failed(c)) /\ Handled(c, f.id, Result(c, "continue"))
    BY DEF Handled, Failed, Result
  <1>1. CASE f.id \in Live(c)
    <2> DEFINE x == [c.streams[f.id] EXCEPT !.send = @ + f.inc]
    <2>1. c.streams[f.id] \in Stream /\ f.inc \in Nat
      BY <1>1, StreamOK DEF FrameOK
    <2>2. c.streams[f.id].send + f.inc \in Int
      BY <2>1 DEF Stream
    <2>3. x \in Stream
      BY <2>1, <2>2 DEF Stream
    <2>4. StreamWindowUpdate(c, f) \in {Failed(c), Result(SetStream(c, f.id, x), "continue")}
      BY <1>1 DEF StreamWindowUpdate
    <2> QED BY <1>0, <1>1, <2>3, <2>4, ReplacedHandled
  <1>2. CASE f.id \notin Live(c)
    BY <1>0, <1>2 DEF StreamWindowUpdate
  <1> QED BY <1>1, <1>2

\* process_data
LEMMA DataHandled ==
    ASSUME NEW c, ConnOK(c), NEW f, FrameOK(f), f.typ = "DATA", NEW w \in BOOLEAN
    PROVE  Handled(c, f.id, ProcessData(c, f, w))
  <1> DEFINE b0 == [c EXCEPT !.recv = @ - f.len]
             g0 == ReplenishIncrement(b0.recv)
             b2 == [b0 EXCEPT !.recv = @ + g0]
  <1>1. f.len \in Nat /\ f.pad \in 0..f.len /\ f.len - f.pad \in Nat
    BY DEF FrameOK
  <1>2. c.recv - f.len \in Int
    BY <1>1 DEF ConnOK
  <1>3. /\ ConnOK(b0) /\ Live(b0) = Live(c) /\ b0.nextId = c.nextId
        /\ b0.recv = c.recv - f.len /\ b0.streams = c.streams
    BY <1>2 DEF ConnOK, Live
  <1> HIDE DEF b0
  <1>4. \A n \in Int : ReplenishIncrement(n) \in Int
    BY WindowAssumption DEF ReplenishIncrement
  <1>5. g0 \in Int /\ b0.recv + g0 \in Int
    BY <1>2, <1>3, <1>4
  <1> HIDE DEF g0
  <1>6. /\ ConnOK(b2) /\ Live(b2) = Live(c) /\ b2.nextId = c.nextId /\ b2.streams = c.streams
    BY <1>3, <1>5 DEF ConnOK, Live
  <1> HIDE DEF b2
  <1>7. CASE f.id \notin Live(c)
    <2>1. \/ ProcessData(c, f, w) = Failed(b0)
          \/ \E o \in {"continue", "err"} :
                ProcessData(c, f, w) = [conn |-> b2, out |-> o, g0 |-> g0, gs |-> 0]
      BY <1>7 DEF ProcessData, b0, g0, b2
    <2> QED BY <2>1, <1>3, <1>6 DEF Handled, Failed, Result
  <1>8. CASE f.id \in Live(c)
    <2> DEFINE s == c.streams[f.id]
               st == RecvData(s.state, f.endStream)
               s1 == [s EXCEPT !.recv = @ - f.len]
               gs == ReplenishIncrement(s1.recv)
               s2 == [s1 EXCEPT !.body = @ + (f.len - f.pad), !.fin = s.fin \/ f.endStream,
                                !.state = st, !.recv = @ + IF w \/ g0 = 0 THEN gs ELSE 0]
               fits == s.body + (f.len - f.pad) <= MaxResponseBytes
    <2>1. s \in Stream
      BY <1>8, StreamOK
    <2>2. s.recv - f.len \in Int
      BY <2>1, <1>1 DEF Stream
    <2>3. s1 \in Stream /\ s1.recv = s.recv - f.len /\ s1.body = s.body
      BY <2>1, <2>2 DEF Stream
    <2> HIDE DEF s1
    <2>4. s1.recv + (IF w \/ g0 = 0 THEN gs ELSE 0) \in Int
      BY <2>2, <2>3, <1>4
    <2> HIDE DEF gs
    <2>5. fits => s1.body + (f.len - f.pad) \in 0..MaxResponseBytes
      BY <2>1, <2>3, <1>1, SizeAssumption DEF Stream
    <2>6. st \in StreamStates \cup {"Err"}
      BY DEF RecvData, StreamStates
    <2>7. (s.fin \/ f.endStream) \in BOOLEAN
      OBVIOUS
    <2>8. fits /\ st # "Err" => s2 \in Stream
      BY <2>3, <2>4, <2>5, <2>6, <2>7 DEF Stream
    <2> HIDE DEF s, st, s2, fits
    <2>9. \/ ProcessData(c, f, w) = Failed(b0)
          \/ ProcessData(c, f, w) = Failed(SetStream(b0, f.id, s1))
          \/ /\ fits /\ st # "Err"
             /\ \E o : ProcessData(c, f, w) =
                        [conn |-> SetStream(b2, f.id, s2), out |-> o, g0 |-> g0, gs |-> gs]
      <3>1. CASE b0.recv < 0 \/ s.state = "Closed" \/ st = "Err"
        BY <1>8, <3>1 DEF ProcessData, b0, s, st
      <3>2. CASE ~(b0.recv < 0 \/ s.state = "Closed" \/ st = "Err") /\ (s1.recv < 0 \/ f.bad \/ ~fits)
        <4>1. ~fits => s.body + (f.len - f.pad) > MaxResponseBytes
          BY <2>1, <1>1, SizeAssumption DEF fits, Stream
        <4> QED BY <1>8, <3>2, <4>1 DEF ProcessData, b0, s, st, s1, fits
      <3>3. CASE ~(b0.recv < 0 \/ s.state = "Closed" \/ st = "Err") /\ ~(s1.recv < 0 \/ f.bad \/ ~fits)
        <4>1. ~(s.body + (f.len - f.pad) > MaxResponseBytes)
          BY <3>3, <2>1, <1>1, SizeAssumption DEF fits, Stream
        <4> QED BY <1>8, <3>3, <4>1 DEF ProcessData, b0, g0, b2, s, st, s1, gs, s2
      <3> QED BY <3>1, <3>2, <3>3
    <2>10. /\ ConnOK(SetStream(b0, f.id, s1)) /\ Live(SetStream(b0, f.id, s1)) = Live(c)
           /\ SetStream(b0, f.id, s1).nextId = c.nextId
      BY <1>3, <1>8, <2>3, SetStreamOK
    <2>11. s2 \in Stream =>
           /\ ConnOK(SetStream(b2, f.id, s2)) /\ Live(SetStream(b2, f.id, s2)) = Live(c)
           /\ SetStream(b2, f.id, s2).nextId = c.nextId
      BY <1>6, <1>8, SetStreamOK
    <2> QED BY <1>3, <1>8, <2>8, <2>9, <2>10, <2>11 DEF Handled, Failed, Result
  <1> QED BY <1>7, <1>8

\* The SETTINGS arm.  ShiftWindows re-bases some or all of the streams.
LEMMA ShiftWindowsOK ==
    ASSUME NEW c, ConnOK(c), NEW ids
    PROVE  /\ ConnOK(ShiftWindows(c, ids)) /\ Live(ShiftWindows(c, ids)) = Live(c)
           /\ ShiftWindows(c, ids).nextId = c.nextId
  <1> DEFINE shifted(i) == [c.streams[i] EXCEPT !.send = ShiftedWindow(c.streams[i], c.iws),
                                                !.basis = c.iws]
             strs == [i \in Live(c) |-> IF i \in ids THEN shifted(i) ELSE c.streams[i]]
  <1>1. ASSUME NEW i \in Live(c) PROVE shifted(i) \in Stream
    <2>1. c.streams[i] \in Stream /\ c.iws \in Nat
      BY StreamOK DEF ConnOK
    <2>2. ShiftedWindow(c.streams[i], c.iws) \in Int
      BY <2>1 DEF ShiftedWindow, Stream
    <2> QED BY <2>1, <2>2 DEF Stream
  <1> HIDE DEF shifted
  <1>2. strs \in [Live(c) -> Stream] /\ DOMAIN strs = Live(c)
    BY <1>1, StreamOK
  <1>3. ShiftWindows(c, ids) = [c EXCEPT !.streams = strs]
    BY DEF ShiftWindows, shifted
  <1> HIDE DEF strs
  <1> QED BY <1>2, <1>3 DEF ConnOK, Live

LEMMA SettingsHandled ==
    ASSUME NEW c, ConnOK(c), NEW f, FrameOK(f), f.typ = "SETTINGS", NEW w \in BOOLEAN,
           NEW r \in ProcessSettings(c, f, w)
    PROVE  Handled(c, f.id, r)
  <1> DEFINE a == ApplySettingsPayload(c, f)
  <1>1. f.mcs \in Nat \cup {Keep} /\ f.iws \in Nat \cup {Keep} /\ f.mfs \in Nat \cup {Keep}
    BY DEF FrameOK
  <1>2. ConnOK(a.conn) /\ Live(a.conn) = Live(c) /\ a.conn.nextId = c.nextId /\ a.out \in {"continue", "err"}
    <2> DEFINE c1 == [c  EXCEPT !.mcs = IF f.mcs = Keep THEN @ ELSE f.mcs]
               c2 == [c1 EXCEPT !.iws = IF f.iws = Keep THEN @ ELSE f.iws]
               c3 == [c2 EXCEPT !.mfs = IF f.mfs = Keep THEN @ ELSE f.mfs]
    <2>1. ConnOK(c1) /\ Live(c1) = Live(c) /\ c1.nextId = c.nextId
      BY <1>1 DEF ConnOK, Live
    <2>2. ConnOK(c2) /\ Live(c2) = Live(c) /\ c2.nextId = c.nextId
      <3> HIDE DEF c1
      <3> QED BY <1>1, <2>1 DEF ConnOK, Live
    <2>3. ConnOK(c3) /\ Live(c3) = Live(c) /\ c3.nextId = c.nextId
      <3> HIDE DEF c1, c2
      <3> QED BY <1>1, <2>2 DEF ConnOK, Live
    <2>4. a \in {Result(c, "err"), Result(c1, "err"), Result(c2, "err"), Result(c3, "continue")}
      BY DEF ApplySettingsPayload, Failed
    <2> HIDE DEF c1, c2, c3, a
    <2> QED BY <2>1, <2>2, <2>3, <2>4 DEF Result
  <1> HIDE DEF a
  <1> DEFINE over == {i \in Live(c) : ShiftedWindow(c.streams[i], a.conn.iws) > WindowMax}
  <1>3. ASSUME NEW ids, NEW o \in {"continue", "err"}
        PROVE  Handled(c, f.id, Result(ShiftWindows(a.conn, ids), o))
    BY <1>2, ShiftWindowsOK DEF Handled, Result
  <1>4. CASE a.out = "err"
    <2>1. r = a
      BY <1>4 DEF ProcessSettings, a
    <2> QED BY <1>2, <2>1 DEF Handled
  <1>5. CASE a.out # "err" /\ a.conn.iws # c.iws /\ over # {}
    <2>1. r \in {Failed(ShiftWindows(a.conn, ids)) : ids \in SUBSET (Live(c) \ over)}
      BY <1>5 DEF ProcessSettings, a
    <2> QED BY <1>3, <2>1 DEF Failed
  <1>6. CASE a.out # "err" /\ ~(a.conn.iws # c.iws /\ over # {})
    <2> DEFINE d == IF a.conn.iws # c.iws THEN ShiftWindows(a.conn, Live(c)) ELSE a.conn
    <2>1. r = Result(d, IF w THEN "continue" ELSE "err")
      BY <1>6 DEF ProcessSettings, a
    <2>2. ASSUME NEW o \in {"continue", "err"} PROVE Handled(c, f.id, Result(d, o))
      BY <1>2, <1>3 DEF Handled, Result
    <2> QED BY <2>1, <2>2
  <1> QED BY <1>4, <1>5, <1>6

\* The GOAWAY arm.
LEMMA GoawayHandled ==
    ASSUME NEW c, ConnOK(c), NEW f, FrameOK(f), f.typ = "GOAWAY"
    PROVE  Handled(c, f.id, ProcessGoaway(c, f))
  <1> DEFINE strs == [i \in Live(c) |-> IF i > f.last THEN [c.streams[i] EXCEPT !.state = "Closed"]
                                         ELSE c.streams[i]]
  <1>1. strs \in [Live(c) -> Stream] /\ DOMAIN strs = Live(c)
    BY StreamOK DEF Stream, StreamStates
  <1> HIDE DEF strs
  <1> DEFINE d == [c EXCEPT !.goaway = f.last, !.streams = strs]
  <1>2. ConnOK(d) /\ Live(d) = Live(c) /\ d.nextId = c.nextId
    BY <1>1 DEF ConnOK, Live, FrameOK
  <1>3. ProcessGoaway(c, f) = Result(d, "continue")
    BY DEF ProcessGoaway, strs
  <1> HIDE DEF d
  <1> QED BY <1>2, <1>3 DEF Handled, Result

\* Every inbound frame leaves the connection well formed, with the same streams.
LEMMA FrameHandled ==
    ASSUME NEW c, ConnOK(c), NEW f, FrameOK(f), NEW w \in BOOLEAN, NEW r \in ProcessFrame(c, f, w)
    PROVE  Handled(c, f.id, r)
  <1>0. Handled(c, f.id, Failed(c)) /\ \A o \in {"continue", "err"} : Handled(c, f.id, Result(c, o))
    BY DEF Handled, Failed, Result
  <1>1. CASE r = Failed(c)
    BY <1>0, <1>1
  <1>2. CASE f.id # 0 /\ r = ProcessStreamFrame(c, f, w)
    BY <1>0, <1>2, HeadersHandled, ContinuationHandled, DataHandled, RstHandled, WindowUpdateHandled
    DEF ProcessStreamFrame
  <1>3. CASE f.id = 0 /\ r \in ProcessConnFrame(c, f, w)
    <2>1. CASE f.typ = "SETTINGS" /\ ~f.ack
      BY <1>3, <2>1, SettingsHandled DEF ProcessConnFrame
    <2>2. CASE f.typ = "GOAWAY"
      BY <1>3, <2>2, GoawayHandled DEF ProcessConnFrame
    <2>3. CASE f.typ = "WINDOW_UPDATE"
      <3> DEFINE d == [c EXCEPT !.send = @ + f.inc]
      <3>1. c.send + f.inc \in Int
        BY <2>3 DEF ConnOK, FrameOK
      <3>2. ConnOK(d) /\ Live(d) = Live(c) /\ d.nextId = c.nextId
        BY <3>1 DEF ConnOK, Live
      <3>3. r \in {Failed(c), Result(d, "continue")}
        BY <1>3, <2>3 DEF ProcessConnFrame
      <3> HIDE DEF d
      <3> QED BY <1>0, <3>2, <3>3 DEF Handled, Result
    <2>4. CASE ~(f.typ = "SETTINGS" /\ ~f.ack) /\ f.typ \notin {"GOAWAY", "WINDOW_UPDATE"}
      <3>1. r = Result(c, "continue") \/ r = Result(c, "err")
        BY <1>3, <2>4 DEF ProcessConnFrame
      <3> QED BY <3>1, <1>0
    <2> QED BY <2>1, <2>2, <2>3, <2>4
  <1> QED BY <1>1, <1>2, <1>3 DEF ProcessFrame

----------------------------------------------------------------------------
(* The inductive invariant.                                                *)

\* The accounting, as a relation between the registered streams, the head of
\* the queue, the id map and the slots.
Accounted(live, hd, map, res) ==
    /\ DOMAIN map = live
    /\ \A i, j \in DOMAIN map : map[i] = map[j] => i = j
    /\ \A i \in DOMAIN map : map[i] < hd
    /\ \A r \in Reqs : res[r] = "none" <=> (r >= hd \/ \E i \in DOMAIN map : map[i] = r)

\* Stream ids are odd and handed out in order.
IdsIssued == conn.nextId % 2 = 1 /\ \A i \in Live(conn) : i < conn.nextId

\* Where the driver can be, and why the retry at the head of the loop never
\* opens a stream: what made the first attempt stop still holds, because an
\* empty id map with requests queued is only reached through a stream limit of
\* zero or a GOAWAY below the next id.
Positions ==
    /\ pc \in {"top", "read"} => phase = "loop"
    /\ pc = "pump" => phase # "retry"
    /\ pc = "read" => Live(conn) # {}
    /\ pc = "start" /\ phase = "retry" => Live(conn) = {} /\ ~CanOpenStream(conn)
    /\ pc \in {"pump", "top"} /\ Live(conn) = {} /\ head <= N => ~CanOpenStream(conn)

DriverInv == TypeOK /\ EveryRequestAccounted /\ NoInternalError /\ IdsIssued /\ Positions

LEMMA AccountedDef ==
    EveryRequestAccounted <=> (pc # "done" => Accounted(Live(conn), head, idToIdx, results))
  BY DEF EveryRequestAccounted, Accounted, InFlight

\* The slots after the requests of the streams ids got the result o.
Resolve(map, res, ids, o) == [q \in Reqs |-> IF \E i \in ids : map[i] = q THEN o ELSE res[q]]

\* The accounting with the types it needs.
Books(live, hd, map, res) ==
    /\ Accounted(live, hd, map, res) /\ hd \in Int
    /\ res \in [Reqs -> Outcomes] /\ map \in [DOMAIN map -> Reqs] /\ DOMAIN map \subseteq StreamIds

\* Giving the requests of some streams a result and forgetting the streams.
LEMMA ResolveAccounted ==
    ASSUME NEW live, NEW hd, NEW map, NEW res, Books(live, hd, map, res),
           NEW ids \in SUBSET live, NEW o \in Outcomes \ {"none"}
    PROVE  Books(live \ ids, hd, Without(map, ids), Resolve(map, res, ids, o))
  <1> USE DEF Books
  <1>0. ids \subseteq DOMAIN map
    BY DEF Accounted
  <1> DEFINE res2 == Resolve(map, res, ids, o)
             map2 == Without(map, ids)
  <1>1. /\ map2 \in [DOMAIN map \ ids -> Reqs] /\ DOMAIN map2 = DOMAIN map \ ids
        /\ \A i \in DOMAIN map2 : map2[i] = map[i]
    BY <1>0 DEF Without
  <1>2. res2 \in [Reqs -> Outcomes]
    BY DEF Resolve
  <1> HIDE DEF map2
  <1>3. ASSUME NEW r \in Reqs
        PROVE  res2[r] = "none" <=> (r >= hd \/ \E i \in DOMAIN map2 : map2[i] = r)
    <2>1. CASE \E i \in ids : map[i] = r
      <3>1. PICK i \in ids : map[i] = r
        BY <2>1
      <3>2. res2[r] = o /\ ~(r >= hd)
        BY <1>0, <3>1 DEF Accounted, Reqs, Resolve
      <3>3. \A j \in DOMAIN map2 : map2[j] # r
        BY <1>0, <3>1, <1>1 DEF Accounted
      <3> QED BY <3>2, <3>3
    <2>2. CASE ~\E i \in ids : map[i] = r
      <3>1. res2[r] = res[r]
        BY <2>2 DEF Resolve
      <3>2. (\E i \in DOMAIN map2 : map2[i] = r) <=> (\E i \in DOMAIN map : map[i] = r)
        BY <1>0, <2>2, <1>1
      <3> QED BY <3>1, <3>2 DEF Accounted
    <2> QED BY <2>1, <2>2
  <1> HIDE DEF res2
  <1>4. Accounted(live \ ids, hd, map2, res2)
    BY <1>1, <1>3 DEF Accounted
  <1> QED BY <1>1, <1>2, <1>4 DEF res2, map2

\* A connection-fatal error leaves no slot empty.
LEMMA FailAllFills ==
    ASSUME NEW live, NEW hd, NEW map, NEW res \in [Reqs -> Outcomes \ {"internal"}],
           Accounted(live, hd, map, res)
    PROVE  FailAllOutstanding(res, map, hd) \in [Reqs -> Outcomes \ {"none", "internal"}]
  BY DEF FailAllOutstanding, Accounted, Outcomes

\* Returning with every slot filled.
LEMMA ReturnOK ==
    ASSUME NEW c, NEW res \in [Reqs -> Outcomes \ {"none", "internal"}], Return(c, res)
    PROVE  conn' = c /\ pc' = "done" /\ results' \in [Reqs -> Outcomes] /\ NoInternalError'
  BY DEF Return, CollectResults, NoInternalError

LEMMA PruneOK ==
    ASSUME NEW c, ConnOK(c)
    PROVE  /\ ConnOK(PruneCompletedStreams(c)) /\ Live(PruneCompletedStreams(c)) \subseteq Live(c)
           /\ PruneCompletedStreams(c).nextId = c.nextId
  BY DropStreamsOK DEF PruneCompletedStreams

\* What is left to show after a step that returns.
LEMMA DoneInv ==
    ASSUME DriverInv, pc' = "done", ConnOK(conn'), NoInternalError', results' \in [Reqs -> Outcomes],
           Live(conn') \subseteq Live(conn), conn'.nextId = conn.nextId,
           UNCHANGED <<phase, idToIdx, got>>, head' \in 1..(N + 1)
    PROVE  DriverInv'
  <1>1. TypeOK'
    BY DEF DriverInv, TypeOK, ConnOK
  <1>2. EveryRequestAccounted' /\ Positions'
    BY DEF EveryRequestAccounted, Positions
  <1>3. IdsIssued'
    BY DEF DriverInv, IdsIssued
  <1> QED BY <1>1, <1>2, <1>3 DEF DriverInv

----------------------------------------------------------------------------
(* The initial states, and one lemma per action.                           *)

\* The connection a batch starts on: no stream, and windows as they are after any
\* number of finished requests.
LEMMA StartsIdle ==
    ASSUME Init
    PROVE  \E m, v, z \in Nat, snd \in 0..WindowMax, rcv \in (OurInitialWindow \div 2)..OurInitialWindow, n \in {1, 3} :
             conn = IdleConnection(m, v, z, snd, rcv, n)
  <1>1. CASE conn = NewConnection
    <2>1. /\ NoStreamLimit \in Nat /\ DefaultWindow \in Nat /\ MinFrameSize \in Nat /\ DefaultWindow \in 0..WindowMax
          /\ OurInitialWindow \in (OurInitialWindow \div 2)..OurInitialWindow /\ 1 \in {1, 3}
      BY SizeAssumption, WindowAssumption
    <2> QED BY <1>1, <2>1 DEF NewConnection
  <1>2. CASE conn # NewConnection
    <2>1. PICK m \in McsValues, v \in IwsValues, l \in Leftovers :
             conn = IdleConnection(m, v, l.mfs, l.send, l.recv, 3)
      BY <1>2 DEF Init, StartingConnections
    <2>2. /\ m \in Nat /\ v \in Nat /\ l.mfs \in Nat /\ l.send \in 0..WindowMax
          /\ l.recv \in (OurInitialWindow \div 2)..OurInitialWindow
      BY PeerAssumption, SizeAssumption
    <2> QED BY <2>1, <2>2
  <1> QED BY <1>1, <1>2

LEMMA InitInv == Init => DriverInv
  <1> SUFFICES ASSUME Init PROVE DriverInv
    OBVIOUS
  <1> DEFINE empty == [i \in {} |-> NewStream(0)]
  <1>1. empty \in [{} -> Stream] /\ DOMAIN empty = {}
    OBVIOUS
  <1> HIDE DEF empty
  <1>2. PICK m, v, z \in Nat, snd \in 0..WindowMax, rcv \in (OurInitialWindow \div 2)..OurInitialWindow, n \in {1, 3} :
           conn = IdleConnection(m, v, z, snd, rcv, n)
    BY StartsIdle
  <1>5. ConnOK(conn) /\ Live(conn) = {} /\ conn.nextId \in {1, 3}
    <2>1. conn = [mcs |-> m, iws |-> v, mfs |-> z, send |-> snd, recv |-> rcv, streams |-> empty,
                  nextId |-> n, goaway |-> None, expecting |-> NoStream]
      BY <1>2 DEF IdleConnection, empty
    <2>2. snd \in Int /\ rcv \in Int /\ n \in Nat
      OBVIOUS
    <2>3. Live(conn) = {} /\ conn.nextId = n
      BY <1>1, <2>1 DEF Live
    <2>4. ConnOK(conn)
      BY <1>1, <2>1, <2>2, <2>3 DEF ConnOK, NoStream, None
    <2> QED BY <2>3, <2>4
  <1>6. TypeOK
    BY <1>5, BatchAssumption DEF Init, TypeOK, ConnOK, Outcomes, Reqs
  <1>7. EveryRequestAccounted
    BY <1>5, BatchAssumption DEF Init, EveryRequestAccounted, InFlight, Reqs
  <1>8. NoInternalError /\ IdsIssued /\ Positions
    BY <1>5 DEF Init, NoInternalError, IdsIssued, Positions
  <1> QED BY <1>6, <1>7, <1>8 DEF DriverInv

\* A new stream: its id is legal and unused, and it starts well formed.
LEMMA OpenStreamOK ==
    ASSUME ConnOK(conn), IdsIssued, CanOpenStream(conn), NEW len \in Nat
    PROVE  LET id == conn.nextId
               c1 == OpenStream(conn)
               c2 == StageRequest(c1, id, len)
           IN  /\ id \in StreamIds /\ id \notin Live(conn)
               /\ ConnOK(c1) /\ Live(c1) = Live(conn) \cup {id} /\ c1.nextId = id + 2
               /\ ConnOK(c2) /\ Live(c2) = Live(conn) \cup {id} /\ c2.nextId = id + 2
  <1> DEFINE id == conn.nextId
             new == NewStream(conn.iws)
             strs == [i \in Live(conn) \cup {id} |-> IF i = id THEN new ELSE conn.streams[i]]
             c1 == OpenStream(conn)
  <1>1. id \in StreamIds /\ id \notin Live(conn)
    BY SizeAssumption DEF ConnOK, IdsIssued, CanOpenStream, StreamIds
  <1>2. new \in Stream
    BY WindowAssumption, SizeAssumption DEF NewStream, Stream, StreamStates, BlockKinds, ConnOK
  <1> HIDE DEF new
  <1>3. strs \in [Live(conn) \cup {id} -> Stream] /\ DOMAIN strs = Live(conn) \cup {id}
        /\ strs[id] = new
    BY <1>2 DEF ConnOK
  <1>4. c1 = [conn EXCEPT !.streams = strs, !.nextId = id + 2]
    BY DEF OpenStream, SetStream, ConnOK, new
  <1> HIDE DEF strs
  <1>5. /\ ConnOK(c1) /\ Live(c1) = Live(conn) \cup {id} /\ c1.nextId = id + 2
        /\ c1.streams[id] = new
    <2>1. id + 2 \in Nat
      BY DEF ConnOK
    <2>2. c1.streams = strs /\ c1.nextId = id + 2 /\ Live(c1) = Live(conn) \cup {id}
      BY <1>3, <1>4 DEF ConnOK, Live
    <2>3. ConnOK(c1)
      BY <1>1, <1>3, <1>4, <2>1, <2>2 DEF ConnOK
    <2> QED BY <1>3, <2>2, <2>3
  <1> HIDE DEF c1
  <1> DEFINE staged == [c1.streams[id] EXCEPT !.state = SendData(@, len = 0), !.pending = len]
  <1>6. SendData(new.state, len = 0) \in StreamStates
    BY DEF SendData, StreamStates, new, NewStream
  <1>7. staged \in Stream
    BY <1>2, <1>5, <1>6 DEF Stream
  <1> HIDE DEF staged
  <1>8. StageRequest(c1, id, len) = SetStream(c1, id, staged)
    BY DEF StageRequest, staged
  <1>9. /\ ConnOK(SetStream(c1, id, staged)) /\ Live(SetStream(c1, id, staged)) = Live(c1)
        /\ SetStream(c1, id, staged).nextId = c1.nextId
    <2>1. id \in Live(c1)
      BY <1>5
    <2> HIDE DEF id
    <2> QED BY ONLY <1>5, <1>7, <2>1, SetStreamOK
  <1> QED BY <1>1, <1>5, <1>8, <1>9 DEF c1

\* The queue moves on by one request, which gets the result o.
LEMMA RefuseAccounted ==
    ASSUME NEW live, NEW hd \in Reqs, NEW map, NEW res \in [Reqs -> Outcomes],
           map \in [DOMAIN map -> Reqs],
           Accounted(live, hd, map, res), NEW o \in Outcomes \ {"none"}
    PROVE  Accounted(live, hd + 1, map, [res EXCEPT ![hd] = o])
  BY BatchAssumption DEF Accounted, Reqs

\* ... or a stream of its own.
LEMMA IssueAccounted ==
    ASSUME head \in Reqs, idToIdx \in [DOMAIN idToIdx -> Reqs],
           Accounted(Live(conn), head, idToIdx, results), conn.nextId \notin Live(conn)
    PROVE  LET id == conn.nextId
               map == With(idToIdx, id, head)
           IN  /\ Accounted(Live(conn) \cup {id}, head + 1, map, results)
               /\ map \in [DOMAIN idToIdx \cup {id} -> Reqs]
               /\ DOMAIN map = DOMAIN idToIdx \cup {id}
  <1> DEFINE id == conn.nextId
             map == With(idToIdx, id, head)
  <1> HIDE DEF id
  <1>0. id \notin DOMAIN idToIdx
    BY DEF Accounted, id
  <1>1. /\ DOMAIN map = DOMAIN idToIdx \cup {id} /\ map[id] = head
        /\ \A i \in DOMAIN idToIdx : map[i] = idToIdx[i]
        /\ map \in [DOMAIN idToIdx \cup {id} -> Reqs]
    BY <1>0 DEF With
  <1> HIDE DEF map
  <1>2. \A i \in DOMAIN map : map[i] < head + 1
    BY <1>1, BatchAssumption DEF Accounted, Reqs
  <1>3. \A i, j \in DOMAIN map : map[i] = map[j] => i = j
    BY <1>1, BatchAssumption DEF Accounted, Reqs
  <1>4. ASSUME NEW r \in Reqs
        PROVE  results[r] = "none" <=> (r >= head + 1 \/ \E i \in DOMAIN map : map[i] = r)
    <2>1. r >= head <=> (r >= head + 1 \/ r = head)
      BY BatchAssumption DEF Reqs
    <2>2. (\E i \in DOMAIN map : map[i] = r) <=> (r = head \/ \E i \in DOMAIN idToIdx : idToIdx[i] = r)
      BY <1>1
    <2> QED BY <2>1, <2>2 DEF Accounted
  <1>5. Accounted(Live(conn) \cup {id}, head + 1, map, results)
    BY <1>1, <1>2, <1>3, <1>4 DEF Accounted
  <1> QED BY <1>1, <1>5 DEF map, id

LEMMA StartInv ==
    ASSUME DriverInv, NEW w, StartOne(w)
    PROVE  DriverInv'
  <1> USE DEF DriverInv
  <1>1. ConnOK(conn) /\ head \in Reqs /\ head + 1 \in 1..(N + 1) /\ BodyLen[head] \in Nat
    BY BatchAssumption DEF TypeOK, ConnOK, StartOne, Reqs
  <1>2. Accounted(Live(conn), head, idToIdx, results)
    BY AccountedDef DEF StartOne
  <1>3. /\ pc' = pc /\ phase' = phase /\ got' = got /\ head' = head + 1 /\ pc = "start"
        /\ results \in [Reqs -> Outcomes] /\ idToIdx \in [DOMAIN idToIdx -> Reqs]
        /\ DOMAIN idToIdx \subseteq StreamIds
    BY DEF StartOne, TypeOK
  <1> DEFINE id == conn.nextId
  <1>4. CASE CanOpenStream(conn) /\ w
    <2>1. /\ conn' = StageRequest(OpenStream(conn), id, BodyLen[head])
          /\ idToIdx' = With(idToIdx, id, head)
          /\ results' = results
      BY <1>4 DEF StartOne
    <2>2. /\ id \in StreamIds /\ id \notin Live(conn) /\ ConnOK(conn')
          /\ Live(conn') = Live(conn) \cup {id} /\ conn'.nextId = id + 2
      BY <1>1, <1>4, <2>1, OpenStreamOK
    <2>3. /\ Accounted(Live(conn'), head', idToIdx', results')
          /\ idToIdx' \in [DOMAIN idToIdx' -> Reqs] /\ DOMAIN idToIdx' = DOMAIN idToIdx \cup {id}
      <3>1. /\ Accounted(Live(conn) \cup {id}, head + 1, With(idToIdx, id, head), results)
            /\ With(idToIdx, id, head) \in [DOMAIN idToIdx \cup {id} -> Reqs]
            /\ DOMAIN With(idToIdx, id, head) = DOMAIN idToIdx \cup {id}
        BY <1>1, <1>2, <1>3, <2>2, IssueAccounted
      <3> QED BY <1>3, <2>1, <2>2, <3>1
    <2>4. TypeOK'
      BY <1>1, <1>3, <2>1, <2>2, <2>3 DEF TypeOK, ConnOK
    <2>5. EveryRequestAccounted'
      BY <2>3 DEF EveryRequestAccounted, Accounted, InFlight
    <2>6. NoInternalError'
      BY <2>1 DEF NoInternalError
    <2>7. IdsIssued'
      BY <1>1, <2>2 DEF IdsIssued, ConnOK, StreamIds
    <2>8. Positions'
      BY <1>3, <1>4 DEF Positions
    <2> QED BY <2>4, <2>5, <2>6, <2>7, <2>8
  <1>5. CASE ~(CanOpenStream(conn) /\ w)
    <2>1. /\ idToIdx' = idToIdx
          /\ \E o \in {"fatal", "noopen"} : results' = [results EXCEPT ![head] = o]
          /\ conn' = IF CanOpenStream(conn) THEN DropStreams(OpenStream(conn), {id}) ELSE conn
      BY <1>5 DEF StartOne
    <2>2. /\ ConnOK(conn') /\ Live(conn') = Live(conn)
          /\ conn'.nextId \in {conn.nextId, conn.nextId + 2}
      <3>1. CASE CanOpenStream(conn)
        <4>1. /\ id \notin Live(conn) /\ ConnOK(OpenStream(conn)) /\ OpenStream(conn).nextId = id + 2
              /\ Live(OpenStream(conn)) = Live(conn) \cup {id}
          BY <1>1, <3>1, OpenStreamOK
        <4>2. conn' = DropStreams(OpenStream(conn), {id})
          BY <2>1, <3>1
        <4> QED BY <4>1, <4>2, DropStreamsOK
      <3>2. CASE ~CanOpenStream(conn)
        BY <1>1, <2>1, <3>2
      <3> QED BY <3>1, <3>2
    <2>3. Accounted(Live(conn'), head', idToIdx', results') /\ results' \in [Reqs -> Outcomes]
      <3>1. PICK o \in {"fatal", "noopen"} : results' = [results EXCEPT ![head] = o]
        BY <2>1
      <3>2. o \in Outcomes \ {"none"}
        BY DEF Outcomes
      <3>3. Accounted(Live(conn), head + 1, idToIdx, [results EXCEPT ![head] = o])
        BY <1>1, <1>2, <1>3, <3>2, RefuseAccounted
      <3> QED BY <1>1, <1>3, <2>1, <2>2, <3>1, <3>2, <3>3
    <2>4. TypeOK'
      BY <1>1, <1>3, <2>1, <2>2, <2>3 DEF TypeOK, ConnOK
    <2>5. EveryRequestAccounted'
      BY <2>3 DEF EveryRequestAccounted, Accounted, InFlight
    <2>6. NoInternalError'
      BY <1>1, <1>3, <2>1 DEF NoInternalError
    <2>7. IdsIssued'
      BY <1>1, <2>2 DEF IdsIssued, ConnOK, StreamIds
    <2>8. Positions'
      BY <1>3, <2>1, <2>2 DEF Positions
    <2> QED BY <2>4, <2>5, <2>6, <2>7, <2>8
  <1> QED BY <1>4, <1>5

\* The exit of start_queued: a batch with nothing in flight and nothing to
\* start fails the rest of its queue, so no slot is left empty.
LEMMA StartStopInv ==
    ASSUME DriverInv, StartStop
    PROVE  DriverInv'
  <1> USE DEF DriverInv
  <1>1. Accounted(Live(conn), head, idToIdx, results) /\ ConnOK(conn)
    BY AccountedDef DEF StartStop, TypeOK, ConnOK
  <1>2. CASE phase = "retry" /\ DOMAIN idToIdx = {}
    <2> DEFINE res == [r \in Reqs |-> IF r >= head /\ results[r] = "none" THEN "noopen" ELSE results[r]]
    <2>1. res \in [Reqs -> Outcomes \ {"none", "internal"}]
      BY <1>1, <1>2 DEF Accounted, TypeOK, NoInternalError, Outcomes
    <2>2. Return(PruneCompletedStreams(conn), res) /\ head' = N + 1
      BY <1>2 DEF StartStop
    <2> HIDE DEF res
    <2>3. /\ conn' = PruneCompletedStreams(conn) /\ pc' = "done"
          /\ results' \in [Reqs -> Outcomes] /\ NoInternalError'
      BY <2>1, <2>2, ReturnOK
    <2>4. UNCHANGED <<phase, idToIdx, got>> /\ head' \in 1..(N + 1)
      BY <2>2, BatchAssumption DEF StartStop
    <2> QED BY <1>1, <2>3, <2>4, PruneOK, DoneInv
  <1>3. CASE ~(phase = "retry" /\ DOMAIN idToIdx = {})
    <2>1. pc' = "pump" /\ UNCHANGED <<conn, results, head, phase, idToIdx, got>> /\ pc = "start"
      BY <1>3 DEF StartStop
    <2>2. TypeOK' /\ NoInternalError' /\ IdsIssued'
      BY <2>1 DEF TypeOK, NoInternalError, IdsIssued
    <2>3. EveryRequestAccounted'
      BY <2>1 DEF EveryRequestAccounted, InFlight
    <2>4. phase # "retry"
      BY <1>1, <1>3, <2>1 DEF Positions, Accounted
    <2>5. head <= N => ~CanOpenStream(conn)
      BY BatchAssumption DEF StartStop, TypeOK, CanOpenStream
    <2> QED BY <2>1, <2>2, <2>3, <2>4, <2>5 DEF Positions
  <1> QED BY <1>2, <1>3

\* A failed DATA write, flush or send_data: everything outstanding fails.
LEMMA SendErrorInv ==
    ASSUME DriverInv, pc = "pump", NEW c, ConnOK(c), Live(c) = Live(conn), c.nextId = conn.nextId,
           SendError(c), UNCHANGED <<phase, head, idToIdx, got>>
    PROVE  DriverInv'
  <1> USE DEF DriverInv
  <1>1. Accounted(Live(conn), head, idToIdx, results)
    BY AccountedDef
  <1>2. results \in [Reqs -> Outcomes \ {"internal"}]
    BY DEF TypeOK, NoInternalError
  <1>3. FailAllOutstanding(results, idToIdx, head) \in [Reqs -> Outcomes \ {"none", "internal"}]
    BY <1>1, <1>2, FailAllFills
  <1> DEFINE d == IF phase = "prime" THEN c ELSE PruneCompletedStreams(c)
  <1>4. Return(d, FailAllOutstanding(results, idToIdx, head))
    BY DEF SendError, Positions
  <1>5. ConnOK(d) /\ Live(d) \subseteq Live(conn) /\ d.nextId = conn.nextId
    BY PruneOK
  <1> HIDE DEF d
  <1>6. conn' = d /\ pc' = "done" /\ results' \in [Reqs -> Outcomes] /\ NoInternalError'
    BY <1>3, <1>4, ReturnOK
  <1>7. head' \in 1..(N + 1)
    BY DEF TypeOK
  <1> QED BY <1>5, <1>6, <1>7, DoneInv

\* One DATA frame leaves the set of streams, the limits and the ids alone, and
\* never takes more than is parked.
LEMMA PumpChunkInv ==
    ASSUME DriverInv, PumpChunk
    PROVE  DriverInv'
  <1> USE DEF DriverInv
  <1>1. ConnOK(conn) /\ pc = "pump" /\ UNCHANGED <<phase, head, idToIdx, got>>
    BY DEF TypeOK, ConnOK, PumpChunk
  <1>2. PICK id \in Sendable :
          LET s == conn.streams[id]
              n == ChunkSize(conn, id, s.pending)
              last == n = s.pending
              c1 == SendChunk(conn, id, n, last)
          IN  IF SendData(s.state, last) = "Err"
              THEN SendError(c1)
              ELSE /\ conn' = SetStream(c1, id, [c1.streams[id] EXCEPT !.pending = @ - n])
                   /\ UNCHANGED <<pc, results>>
    BY DEF PumpChunk
  <1> DEFINE s == conn.streams[id]
             n == ChunkSize(conn, id, s.pending)
             last == n = s.pending
             c1 == SendChunk(conn, id, n, last)
             b == [conn EXCEPT !.send = @ - n]
             st == IF SendData(s.state, last) = "Err" THEN s.state ELSE SendData(s.state, last)
             s1 == [s EXCEPT !.send = @ - n, !.state = st]
  <1>3. id \in Live(conn) /\ s \in Stream /\ s.pending \in Nat /\ s.send \in Int
    BY <1>1, StreamOK DEF Sendable, Stream
  <1>4. n \in Nat /\ n <= s.pending
    <2>1. conn.mfs \in Nat /\ SendBudget(conn, id) \in Int
      BY <1>1, <1>3 DEF SendBudget, Smaller, ConnOK
    <2> QED BY <1>3, <2>1 DEF ChunkSize, NextDataChunkSize, Smaller
  <1>5. st \in StreamStates
    BY <1>3 DEF SendData, StreamStates, Stream
  <1> HIDE DEF n, last, st
  <1>6. conn.send - n \in Int /\ s.send - n \in Int /\ s.pending - n \in Nat
    BY <1>1, <1>3, <1>4 DEF ConnOK
  <1>7. s1 \in Stream /\ s1.pending = s.pending
    BY <1>3, <1>5, <1>6 DEF Stream
  <1>8. /\ ConnOK(b) /\ Live(b) = Live(conn) /\ b.nextId = conn.nextId /\ b.mcs = conn.mcs
        /\ b.goaway = conn.goaway /\ b.streams = conn.streams
    BY <1>1, <1>6 DEF ConnOK, Live
  <1>9. c1 = SetStream(b, id, s1)
    BY <1>3 DEF SendChunk, st, Stream
  <1> HIDE DEF s, s1, b, c1
  <1>10. /\ ConnOK(c1) /\ Live(c1) = Live(conn) /\ c1.nextId = conn.nextId /\ c1.mcs = conn.mcs
         /\ c1.goaway = conn.goaway /\ c1.streams[id] = s1
    BY <1>3, <1>7, <1>8, <1>9, SetStreamOK
  <1>11. CASE SendError(c1)
    BY <1>1, <1>10, <1>11, SendErrorInv
  <1>12. CASE /\ conn' = SetStream(c1, id, [s1 EXCEPT !.pending = s.pending - n])
              /\ UNCHANGED <<pc, results>>
    <2> DEFINE s2 == [s1 EXCEPT !.pending = s.pending - n]
    <2>1. s2 \in Stream
      BY <1>6, <1>7 DEF Stream
    <2> HIDE DEF s2
    <2>2. conn' = SetStream(c1, id, s2)
      BY <1>12 DEF s2
    <2>3. /\ ConnOK(conn') /\ Live(conn') = Live(conn) /\ conn'.nextId = conn.nextId
          /\ conn'.mcs = conn.mcs /\ conn'.goaway = conn.goaway
      BY <1>3, <1>10, <2>1, <2>2, SetStreamOK
    <2>4. TypeOK' /\ NoInternalError' /\ IdsIssued'
      BY <1>1, <1>12, <2>3 DEF TypeOK, ConnOK, NoInternalError, IdsIssued
    <2>5. EveryRequestAccounted'
      BY <1>1, <1>12, <2>3 DEF EveryRequestAccounted, InFlight
    <2>6. Positions'
      BY <1>1, <1>12, <2>3 DEF Positions, CanOpenStream, AtStreamLimit
    <2> QED BY <2>4, <2>5, <2>6
  <1> QED
    <2>1. c1.streams[id].pending = s.pending
      BY <1>7, <1>10
    <2> QED BY <1>2, <1>10, <1>11, <1>12, <2>1 DEF c1, n, last, s

LEMMA PumpEndInv ==
    ASSUME DriverInv, PumpDone \/ PumpFails
    PROVE  DriverInv'
  <1> USE DEF DriverInv
  <1>1. CASE PumpFails
    <2>1. ConnOK(conn)
      BY DEF TypeOK, ConnOK
    <2> QED BY <1>1, <2>1, SendErrorInv DEF PumpFails
  <1>2. CASE PumpDone
    <2>1. /\ pc = "pump" /\ pc' = "top" /\ phase' = "loop"
          /\ UNCHANGED <<conn, head, idToIdx, results, got>>
      BY <1>2 DEF PumpDone
    <2>2. TypeOK' /\ NoInternalError' /\ IdsIssued'
      BY <2>1 DEF TypeOK, NoInternalError, IdsIssued
    <2>3. EveryRequestAccounted'
      BY <2>1 DEF EveryRequestAccounted, InFlight
    <2> QED BY <2>1, <2>2, <2>3 DEF Positions
  <1> QED BY <1>1, <1>2

\* The head of the frame loop.  Its exit for "nothing queued, nothing in
\* flight, yet an empty slot" is never taken, and its retry opens no stream.
LEMMA TopInv ==
    ASSUME DriverInv, Top
    PROVE  DriverInv'
  <1> USE DEF DriverInv
  <1>1. Accounted(Live(conn), head, idToIdx, results) /\ ConnOK(conn) /\ pc = "top"
    BY AccountedDef DEF Top, TypeOK, ConnOK
  <1>2. UNCHANGED <<head, idToIdx, got>> /\ head' \in 1..(N + 1)
    BY DEF Top, TypeOK
  <1>3. CASE \A r \in Reqs : results[r] # "none"
    <2>1. results \in [Reqs -> Outcomes \ {"none", "internal"}]
      BY <1>3 DEF TypeOK, NoInternalError
    <2>2. Return(PruneCompletedStreams(conn), results) /\ UNCHANGED phase
      BY <1>3 DEF Top
    <2>3. /\ conn' = PruneCompletedStreams(conn) /\ pc' = "done"
          /\ results' \in [Reqs -> Outcomes] /\ NoInternalError'
      BY <2>1, <2>2, ReturnOK
    <2> QED BY <1>1, <1>2, <2>2, <2>3, PruneOK, DoneInv
  <1>4. CASE ~\A r \in Reqs : results[r] # "none"
    <2>1. DOMAIN idToIdx = {} => head <= N
      BY <1>1, <1>4, BatchAssumption DEF Accounted, Reqs, TypeOK
    <2>2. CASE DOMAIN idToIdx # {}
      <3>1. pc' = "read" /\ UNCHANGED <<conn, results, phase>>
        BY <1>4, <2>2 DEF Top
      <3>2. TypeOK' /\ NoInternalError' /\ IdsIssued'
        BY <1>2, <3>1 DEF TypeOK, NoInternalError, IdsIssued
      <3>3. EveryRequestAccounted'
        BY <1>1, <1>2, <3>1 DEF EveryRequestAccounted, InFlight
      <3>4. Positions'
        BY <1>1, <2>2, <3>1 DEF Positions, Accounted
      <3> QED BY <3>2, <3>3, <3>4
    <2>3. CASE DOMAIN idToIdx = {}
      <3>1. pc' = "start" /\ phase' = "retry" /\ UNCHANGED <<conn, results>>
        BY <1>4, <2>1, <2>3, BatchAssumption DEF Top, TypeOK
      <3>2. TypeOK' /\ NoInternalError' /\ IdsIssued'
        BY <1>2, <3>1 DEF TypeOK, NoInternalError, IdsIssued
      <3>3. EveryRequestAccounted'
        BY <1>1, <1>2, <3>1 DEF EveryRequestAccounted, InFlight
      <3>4. Live(conn) = {} /\ ~CanOpenStream(conn)
        BY <1>1, <2>1, <2>3 DEF Positions, Accounted
      <3>5. Positions'
        BY <3>1, <3>4 DEF Positions
      <3> QED BY <3>2, <3>3, <3>5
    <2> QED BY <2>2, <2>3
  <1> QED BY <1>3, <1>4

\* A dispatch error: either one stream's, which alone is resolved, or fatal.
LEMMA AfterErrorInv ==
    ASSUME DriverInv, pc = "read", NEW r, ConnOK(r.conn), Live(r.conn) = Live(conn),
           r.conn.nextId = conn.nextId, AfterError(r), UNCHANGED <<phase, head>>
    PROVE  DriverInv'
  <1> USE DEF DriverInv
  <1>1. Accounted(Live(conn), head, idToIdx, results) /\ head \in Int
    BY AccountedDef, BatchAssumption DEF TypeOK
  <1>2. /\ results \in [Reqs -> Outcomes \ {"internal"}] /\ results \in [Reqs -> Outcomes]
        /\ idToIdx \in [DOMAIN idToIdx -> Reqs] /\ DOMAIN idToIdx \subseteq StreamIds
        /\ head' \in 1..(N + 1) /\ got \in [Reqs -> Nat]
    BY DEF TypeOK, NoInternalError
  <1>3. CASE Cardinality(Culprits(r.conn)) = 1
    <2> DEFINE id == CHOOSE i \in Culprits(r.conn) : TRUE
    <2>1. Culprits(r.conn) # {}
      BY <1>3, FS_EmptySet
    <2>2. id \in DOMAIN idToIdx
      BY <2>1 DEF Culprits
    <2>3. /\ conn' = DropStreams(r.conn, {id}) /\ idToIdx' = Without(idToIdx, {id})
          /\ results' = [results EXCEPT ![idToIdx[id]] = "streamerr"]
          /\ pc' = "start" /\ got' = got
      BY <1>3 DEF AfterError
    <2> HIDE DEF id
    <2>4. results' = Resolve(idToIdx, results, {id}, "streamerr")
      BY <1>2, <2>2, <2>3 DEF Resolve
    <2>5. /\ "streamerr" \in Outcomes \ {"none"} /\ {id} \in SUBSET Live(conn)
          /\ Books(Live(conn), head, idToIdx, results)
      BY <1>1, <1>2, <2>2 DEF Outcomes, Books, Accounted
    <2>6. Books(Live(conn) \ {id}, head, idToIdx', results')
      <3>1. Books(Live(conn) \ {id}, head, Without(idToIdx, {id}),
                  Resolve(idToIdx, results, {id}, "streamerr"))
        BY ONLY <2>5, ResolveAccounted
      <3> QED BY <2>3, <2>4, <3>1
    <2>7. /\ ConnOK(conn') /\ Live(conn') = Live(conn) \ {id} /\ conn'.nextId = conn.nextId
      BY <2>3, DropStreamsOK
    <2>8. TypeOK'
      BY <1>2, <2>3, <2>6, <2>7 DEF TypeOK, ConnOK, Books
    <2>9. EveryRequestAccounted'
      <3>1. Accounted(Live(conn'), head', idToIdx', results')
        BY <2>6, <2>7 DEF Books
      <3> QED BY ONLY <3>1 DEF EveryRequestAccounted, Accounted, InFlight
    <2>10. NoInternalError' /\ IdsIssued'
      BY <1>2, <2>3, <2>7 DEF NoInternalError, IdsIssued
    <2>11. Positions'
      BY <2>3 DEF Positions
    <2> QED BY <2>8, <2>9, <2>10, <2>11
  <1>4. CASE Cardinality(Culprits(r.conn)) # 1
    <2>1. /\ Return(PruneCompletedStreams(r.conn), FailAllOutstanding(results, idToIdx, head))
          /\ UNCHANGED <<idToIdx, got>>
      BY <1>4 DEF AfterError
    <2>2. FailAllOutstanding(results, idToIdx, head) \in [Reqs -> Outcomes \ {"none", "internal"}]
      BY <1>1, <1>2, FailAllFills
    <2>3. /\ conn' = PruneCompletedStreams(r.conn) /\ pc' = "done"
          /\ results' \in [Reqs -> Outcomes] /\ NoInternalError'
      BY <2>1, <2>2, ReturnOK
    <2>4. ConnOK(conn') /\ Live(conn') \subseteq Live(conn) /\ conn'.nextId = conn.nextId
      BY <2>3, PruneOK
    <2> QED BY <1>2, <2>1, <2>3, <2>4, DoneInv
  <1> QED BY <1>3, <1>4

\* A dispatched frame: the streams a GOAWAY abandons are resolved, then the
\* stream the frame completed, if it is still tracked.
LEMMA AfterFrameInv ==
    ASSUME DriverInv, pc = "read", NEW r, NEW id, Handled(conn, id, r), AfterFrame(r, id),
           UNCHANGED <<phase, head>>
    PROVE  DriverInv'
  <1> USE DEF DriverInv
  <1> DEFINE doomed == IF r.conn.goaway = None THEN {} ELSE Doomed(r.conn)
             c1 == DropStreams(r.conn, doomed)
             map1 == Without(idToIdx, doomed)
             res1 == Resolve(idToIdx, results, doomed, "goaway")
             live1 == Live(conn) \ doomed
             done == r.out = "done" /\ id \in DOMAIN map1
  <1>1. Accounted(Live(conn), head, idToIdx, results)
    BY AccountedDef
  <1>2. /\ head' \in 1..(N + 1) /\ got \in [Reqs -> Nat] /\ phase = "loop"
        /\ Books(Live(conn), head, idToIdx, results)
    BY <1>1, BatchAssumption DEF TypeOK, Books, Positions
  <1>3. doomed \in SUBSET Live(conn)
    BY <1>1 DEF Doomed, Accounted
  <1>4. "goaway" \in Outcomes \ {"none", "internal"}
    BY DEF Outcomes
  <1>5. doomed # {} => ~CanOpenStream(c1)
    <2> SUFFICES ASSUME NEW i \in doomed PROVE ~CanOpenStream(c1)
      OBVIOUS
    <2>1. r.conn.goaway # None /\ i > r.conn.goaway /\ i \in Live(conn)
      BY <1>3 DEF Doomed
    <2>2. i < conn.nextId /\ i \in StreamIds /\ conn.nextId \in Nat /\ r.conn.goaway \in Nat
      BY <2>1 DEF IdsIssued, TypeOK, Handled, ConnOK
    <2>3. c1.goaway = r.conn.goaway /\ c1.nextId = conn.nextId
      BY DropStreamsOK DEF Handled
    <2> HIDE DEF c1, doomed
    <2> QED BY <2>1, <2>2, <2>3 DEF CanOpenStream, StreamIds
  <1>6. ConnOK(c1) /\ Live(c1) = live1 /\ c1.nextId = conn.nextId
    BY DropStreamsOK DEF Handled
  <1>7. Books(live1, head, map1, res1)
    <2> HIDE DEF doomed
    <2> QED BY ONLY <1>2, <1>3, <1>4, ResolveAccounted
  <1>8. \A q \in Reqs : res1[q] # "internal"
    BY <1>4 DEF Resolve, NoInternalError
  <1>9. /\ done => /\ conn' = DropStreams(c1, {id}) /\ idToIdx' = Without(map1, {id})
                   /\ results' = [res1 EXCEPT ![map1[id]] = BuildResponse(c1.streams[id])]
                   /\ got' = [got EXCEPT ![map1[id]] = c1.streams[id].body]
                   /\ pc' = "start"
        /\ ~done => /\ conn' = c1 /\ idToIdx' = map1 /\ results' = res1 /\ got' = got
                    /\ pc' = "pump"
    BY DEF AfterFrame, Resolve
  <1> HIDE DEF doomed, c1, map1, res1, done
  <1>10. CASE done
    <2> DEFINE o == BuildResponse(c1.streams[id])
               map2 == Without(map1, {id})
               res2 == Resolve(map1, res1, {id}, o)
    <2>1. id \in live1 /\ map1[id] \in Reqs /\ {id} \in SUBSET live1
      BY <1>7, <1>10 DEF Books, Accounted, done
    <2>2. o \in Outcomes \ {"none"} /\ o # "internal"
      BY DEF BuildResponse, Outcomes
    <2>3. c1.streams[id].body \in Nat
      <3>1. c1.streams[id] \in Stream
        BY <1>6, <2>1, StreamOK
      <3> QED BY <3>1, SizeAssumption DEF Stream
    <2> HIDE DEF o
    <2>4. results' = res2
      <3>1. res1 \in [Reqs -> Outcomes]
        BY <1>7 DEF Books
      <3> QED BY <1>9, <1>10, <2>1, <3>1 DEF Resolve, o
    <2>5. Books(live1 \ {id}, head, map2, res2)
      BY ONLY <1>7, <2>1, <2>2, ResolveAccounted
    <2>6. ConnOK(conn') /\ Live(conn') = live1 \ {id} /\ conn'.nextId = conn.nextId
      BY <1>6, <1>9, <1>10, DropStreamsOK
    <2>7. idToIdx' = map2 /\ got' \in [Reqs -> Nat] /\ pc' = "start"
      BY <1>2, <1>9, <1>10, <2>1, <2>3
    <2> HIDE DEF map2, res2, live1
    <2>8. Books(Live(conn'), head, idToIdx', results')
      BY <2>4, <2>5, <2>6, <2>7
    <2>9. TypeOK'
      BY <1>2, <2>6, <2>7, <2>8 DEF TypeOK, ConnOK, Books
    <2>10. EveryRequestAccounted'
      <3>1. Accounted(Live(conn'), head', idToIdx', results')
        BY <2>8 DEF Books
      <3> QED BY ONLY <3>1 DEF EveryRequestAccounted, Accounted, InFlight
    <2>11. NoInternalError'
      BY <1>8, <2>2, <2>4 DEF NoInternalError, res2, Resolve
    <2>12. IdsIssued'
      BY <2>6 DEF IdsIssued, live1
    <2>13. Positions'
      BY <1>2, <2>7 DEF Positions
    <2> QED BY <2>9, <2>10, <2>11, <2>12, <2>13
  <1>11. CASE ~done
    <2>1. /\ conn' = c1 /\ idToIdx' = map1 /\ results' = res1 /\ got' = got /\ pc' = "pump"
      BY <1>9, <1>11
    <2>2. Books(Live(conn'), head, idToIdx', results')
      BY <1>6, <1>7, <2>1
    <2>3. TypeOK'
      BY <1>2, <1>6, <2>1, <2>2 DEF TypeOK, ConnOK, Books
    <2>4. EveryRequestAccounted'
      <3>1. Accounted(Live(conn'), head', idToIdx', results')
        BY <2>2 DEF Books
      <3> QED BY ONLY <3>1 DEF EveryRequestAccounted, Accounted, InFlight
    <2>5. NoInternalError' /\ IdsIssued'
      BY <1>6, <1>8, <2>1 DEF NoInternalError, IdsIssued
    <2>6. Live(conn') = {} => ~CanOpenStream(conn')
      BY <1>5, <1>6, <2>1 DEF Positions
    <2>7. Positions'
      BY <1>2, <2>1, <2>6 DEF Positions
    <2> QED BY <2>3, <2>4, <2>5, <2>7
  <1> QED BY <1>10, <1>11

LEMMA ReadInv ==
    ASSUME DriverInv, ReadFrame \/ ReadFails
    PROVE  DriverInv'
  <1>1. ConnOK(conn)
    BY DEF DriverInv, TypeOK, ConnOK
  <1>2. CASE ReadFails
    <2>1. AfterError(Failed(conn)) /\ Failed(conn).conn = conn /\ pc = "read" /\ UNCHANGED <<phase, head>>
      BY <1>2 DEF ReadFails, Failed, Result
    <2> QED BY <1>1, <2>1, AfterErrorInv
  <1>3. CASE ReadFrame
    <2>1. PICK f \in Frames, w \in Writes : Read(f, w)
      BY <1>3 DEF ReadFrame
    <2>2. PICK r \in ProcessFrame(conn, f, w) :
            IF r.out = "err" THEN AfterError(r) ELSE AfterFrame(r, f.id)
      BY <2>1 DEF Read
    <2>3. w \in BOOLEAN
      BY Zenon DEF Writes
    <2>4. Handled(conn, f.id, r)
      BY <1>1, <2>3, FramesOK, FrameHandled
    <2>5. pc = "read" /\ UNCHANGED <<phase, head>>
      BY <2>1 DEF Read
    <2>6. CASE AfterError(r)
      BY <2>4, <2>5, <2>6, AfterErrorInv DEF Handled
    <2>7. CASE AfterFrame(r, f.id)
      BY <2>4, <2>5, <2>7, AfterFrameInv
    <2> QED BY <2>2, <2>6, <2>7
  <1> QED BY <1>2, <1>3

\* Every step of the driver keeps the invariant.
LEMMA NextInv == DriverInv /\ [Next]_vars => DriverInv'
  <1> SUFFICES ASSUME DriverInv, [Next]_vars PROVE DriverInv'
    OBVIOUS
  <1>1. CASE Start
    BY <1>1, StartInv DEF Start
  <1>2. CASE StartStop
    BY <1>2, StartStopInv
  <1>3. CASE PumpChunk
    BY <1>3, PumpChunkInv
  <1>4. CASE PumpDone \/ PumpFails
    BY <1>4, PumpEndInv
  <1>5. CASE Top
    BY <1>5, TopInv
  <1>6. CASE ReadFrame \/ ReadFails
    BY <1>6, ReadInv
  <1>7. CASE UNCHANGED vars
    BY <1>7 DEF vars, DriverInv, TypeOK, EveryRequestAccounted, InFlight, NoInternalError,
                IdsIssued, Positions
  <1> QED BY <1>1, <1>2, <1>3, <1>4, <1>5, <1>6, <1>7 DEF Next, Finished

----------------------------------------------------------------------------
(* The theorems.                                                           *)

\* For every batch and every peer the inductive invariant always holds.
THEOREM DriverInvariance == Spec => []DriverInv
  <1>1. Init => DriverInv
    BY InitInv
  <1>2. DriverInv /\ [Next]_vars => DriverInv'
    BY NextInv
  <1> QED BY <1>1, <1>2, PTL DEF Spec

\* Type correctness of the connection and of run_multiplexed's bookkeeping,
\* with the header and body buffers of every stream within their caps.
THEOREM TypeCorrect == Spec => []TypeOK
  <1>1. DriverInv => TypeOK
    BY DEF DriverInv
  <1> QED BY <1>1, DriverInvariance, PTL

\* run_multiplexed never loses a request, gives it two streams, or fills a slot
\* of a request that is still outstanding, whatever the peer sends.
THEOREM RequestsAccounted == Spec => []EveryRequestAccounted
  <1>1. DriverInv => EveryRequestAccounted
    BY DEF DriverInv
  <1> QED BY <1>1, DriverInvariance, PTL

\* collect_results never has to invent its "internal" error.
THEOREM NeverInternalError == Spec => []NoInternalError
  <1>1. DriverInv => NoInternalError
    BY DEF DriverInv
  <1> QED BY <1>1, DriverInvariance, PTL

(***************************************************************************)
(* What is proved of run_multiplexed with a peer that keeps to RFC 9113,    *)
(* for every batch: that the connection and the peer's own ledger agree on  *)
(* every stream, and what follows of flow control, GOAWAY, RST_STREAM, the  *)
(* stream limit and the responses that are delivered.                       *)
(*                                                                         *)
(* Left out is a header block that ends the stream and is split over        *)
(* CONTINUATIONs: it closes the stream before the block is there, and the   *)
(* code then takes the stream for one that failed.                          *)
(***************************************************************************)

\* The peer keeps to the protocol and ends no stream with a split header block.
Orderly == Strict /\ "splitend" \notin Features

PeerStream ==
    [open : BOOLEAN, clientEnded : BOOLEAN, ended : BOOLEAN, reset : BOOLEAN,
     block : BlockKinds \cup {"none"}, hdrs : BlockKinds \cup {"none"}, sent : Int, credit : Int,
     window : Int, req : Nat]
PeerTyped(p) == p \in [credit : Int, window : Int, last : Nat, streams : [StreamIds -> PeerStream]]

\* A stream whose response is under way: what the client keeps of it (s) is what
\* the peer has in its ledger (p).
InStep(s, p, iws) ==
    /\ p.open /\ ~p.ended /\ ~p.reset /\ ~s.fin
    /\ s.state = (IF p.clientEnded THEN "HalfClosedLocal" ELSE "Open")
    /\ p.clientEnded <=> s.pending = 0
    /\ s.recv = p.credit /\ s.recv >= OurInitialWindow \div 2
    /\ s.send = p.window /\ s.basis = iws
    /\ s.resp = p.hdrs /\ p.hdrs \in {"none", "info", "final"} /\ s.body = p.sent
    /\ p.block = "none" => s.hdrLen = 0
    /\ p.block # "none" => s.hdrKind = p.block /\ p.block \in {"info", "final"} /\ p.hdrs # "final"
    /\ s.hdrLen < MaxHeadersBuf \/ MaxHeadersBuf = 1

\* A stream whose response is there.
Answered(s, p) ==
    /\ p.open /\ p.ended /\ p.block = "none" /\ p.hdrs = "final" /\ p.sent = s.body
    /\ s.fin /\ s.resp \in {"final", "nostatus"}
    /\ "trailers" \notin Features => s.resp = "final"

\* The connection's own windows and GOAWAY.
LinkAgrees(c, p) ==
    /\ c.recv = p.credit /\ c.recv >= OurInitialWindow \div 2
    /\ c.send = p.window /\ c.send >= 0
    /\ p.last = IF c.goaway = None THEN StreamIdLimit ELSE c.goaway

\* A header block is open at both ends or at neither.
Blocks(c, p) ==
    /\ \A i \in StreamIds : p.streams[i].block # "none" => i = c.expecting /\ i \in Live(c)
    /\ c.expecting # NoStream => p.streams[c.expecting].block # "none"

\* A stream the client let go of is one the peer sends nothing more on.
LetGo(c, p) ==
    \A i \in StreamIds \ Live(c) : p.streams[i].open => p.streams[i].ended \/ p.streams[i].reset \/ i > p.last

\* The two ends agree, but for the streams fin whose response is about to be delivered.
Agree(c, p, fin) ==
    /\ LinkAgrees(c, p) /\ Blocks(c, p) /\ LetGo(c, p)
    /\ \A i \in Live(c) \ fin : InStep(c.streams[i], p.streams[i], c.iws) /\ i <= p.last
    /\ \A i \in fin : i \in Live(c) /\ Answered(c.streams[i], p.streams[i])

\* An error that nothing blames a stream for: a write failed, a header block met a
\* buffer of one fragment, or the body grew above MAX_RESPONSE_BYTES.
Refused(f, w, r) ==
    /\ r.out = "err" /\ f.typ # "RST_STREAM" /\ Culprits(r.conn) = {}
    /\ \/ ~w \/ MaxHeadersBuf = 1
       \/ f.typ = "DATA" /\ f.id \in StreamIds /\ PeerSent(f, r).streams[f.id].sent > MaxResponseBytes

\* A frame is dispatched as the peer expects, or else it is refused.
Served(f, w, r) ==
    \/ /\ r.out \in {"continue", "done"}
       /\ Agree(r.conn, PeerSent(f, r), IF r.out = "done" THEN {f.id} ELSE {})
    \/ Refused(f, w, r)

\* What the ledger remembers whatever frame the peer sends: the requests, and the
\* responses that have ended.  Only a response on one of the streams ends may end.
Kept(p, q, ends) ==
    /\ PeerTyped(q) /\ q.last <= p.last
    /\ \A i \in StreamIds :
        /\ q.streams[i].open = p.streams[i].open /\ q.streams[i].req = p.streams[i].req
        /\ q.streams[i].clientEnded = p.streams[i].clientEnded
        /\ p.streams[i].ended => /\ q.streams[i].ended /\ q.streams[i].hdrs = p.streams[i].hdrs
                                 /\ q.streams[i].sent = p.streams[i].sent
        /\ q.streams[i].ended => \/ p.streams[i].ended
                                 \/ /\ i \in ends /\ p.streams[i].open
                                    /\ "patient" \in Features => p.streams[i].clientEnded

\* The stream whose response a frame may end: then its request is done, or DATA is refused.
Ending(f, r) == IF r.out = "done" \/ (f.typ = "DATA" /\ r.out = "err") THEN {f.id} ELSE {}

----------------------------------------------------------------------------
(* Lemmas about agreement.                                                  *)

LEMMA IdsPositive == 0 \notin StreamIds /\ StreamIds \subseteq Int /\ \A i \in StreamIds : i < StreamIdLimit
  BY SizeAssumption DEF StreamIds

\* One stream's turn: everything else stays as it is.
LEMMA StaysInStep ==
    ASSUME NEW c, NEW p, Agree(c, p, {}), NEW id \in Live(c), NEW d, NEW q,
           Live(d) = Live(c), d.iws = c.iws, q.last = p.last,
           \A i \in Live(c) : i # id => d.streams[i] = c.streams[i],
           \A i \in StreamIds : i # id => q.streams[i] = p.streams[i],
           Live(c) \subseteq StreamIds, LinkAgrees(d, q), Blocks(d, q),
           InStep(d.streams[id], q.streams[id], c.iws)
    PROVE  Agree(d, q, {})
  <1>1. LetGo(d, q)
    BY DEF Agree, LetGo
  <1>2. ASSUME NEW i \in Live(d) PROVE InStep(d.streams[i], q.streams[i], d.iws) /\ i <= q.last
    BY <1>2 DEF Agree
  <1> QED BY <1>1, <1>2 DEF Agree

LEMMA IsAnswered ==
    ASSUME NEW c, NEW p, Agree(c, p, {}), NEW id \in Live(c), NEW d, NEW q,
           Live(d) = Live(c), d.iws = c.iws, q.last = p.last,
           \A i \in Live(c) : i # id => d.streams[i] = c.streams[i],
           \A i \in StreamIds : i # id => q.streams[i] = p.streams[i],
           Live(c) \subseteq StreamIds, LinkAgrees(d, q), Blocks(d, q),
           Answered(d.streams[id], q.streams[id])
    PROVE  Agree(d, q, {id})
  <1>1. LetGo(d, q)
    BY DEF Agree, LetGo
  <1>2. ASSUME NEW i \in Live(d) \ {id} PROVE InStep(d.streams[i], q.streams[i], d.iws) /\ i <= q.last
    BY <1>2 DEF Agree
  <1>3. \A i \in {id} : i \in Live(d) /\ Answered(d.streams[i], q.streams[i])
    OBVIOUS
  <1> QED BY <1>1, <1>2, <1>3 DEF Agree

\* The client forgets streams the peer sends nothing more on.
LEMMA DropAgrees ==
    ASSUME NEW c, ConnOK(c), NEW p, NEW fin, NEW ids,
           LinkAgrees(c, p), Blocks(c, p), LetGo(c, p), fin \subseteq ids,
           \A i \in Live(c) \ ids : InStep(c.streams[i], p.streams[i], c.iws) /\ i <= p.last,
           \A i \in ids : i \in StreamIds => p.streams[i].block = "none" /\ (p.streams[i].ended \/ p.streams[i].reset \/ i > p.last)
    PROVE  Agree(DropStreams(c, ids), p, {})
  <1> DEFINE strs == [i \in Live(c) \ ids |-> c.streams[i]]
             d == DropStreams(c, ids)
  <1>1. DOMAIN strs = Live(c) \ ids /\ \A i \in Live(c) \ ids : strs[i] = c.streams[i]
    OBVIOUS
  <1>2. d = [c EXCEPT !.streams = strs]
    BY DEF DropStreams
  <1> HIDE DEF strs, d
  <1>3. /\ Live(d) = Live(c) \ ids /\ d.iws = c.iws /\ d.send = c.send /\ d.recv = c.recv
        /\ d.goaway = c.goaway /\ d.expecting = c.expecting
        /\ \A i \in Live(c) \ ids : d.streams[i] = c.streams[i]
    BY <1>1, <1>2 DEF Live, ConnOK
  <1>4. LinkAgrees(d, p)
    BY <1>3 DEF LinkAgrees
  <1>5. Blocks(d, p)
    BY <1>3 DEF Blocks
  <1>6. LetGo(d, p)
    BY <1>3 DEF LetGo
  <1> QED BY <1>3, <1>4, <1>5, <1>6 DEF Agree, d

\* A stream that is in step is not closed: no error is taken for its own.
LEMMA NoCulprits ==
    ASSUME NEW c, NEW p, Agree(c, p, {}), NEW d, Live(d) = Live(c),
           \A i \in Live(c) : d.streams[i].state = c.streams[i].state \/ Complete(d.streams[i])
                              \/ d.streams[i].state # "Closed"
    PROVE  Culprits(d) = {}
  BY DEF Culprits, Agree, InStep

LEMMA SetStreamFields ==
    ASSUME NEW c, ConnOK(c), NEW id \in Live(c), NEW s
    PROVE  LET d == SetStream(c, id, s)
           IN  /\ Live(d) = Live(c) /\ d.streams[id] = s
               /\ \A i \in Live(c) : i # id => d.streams[i] = c.streams[i]
               /\ d.iws = c.iws /\ d.mfs = c.mfs /\ d.send = c.send /\ d.recv = c.recv
               /\ d.goaway = c.goaway /\ d.expecting = c.expecting
  <1> DEFINE strs == [i \in Live(c) \cup {id} |-> IF i = id THEN s ELSE c.streams[i]]
  <1>1. DOMAIN strs = Live(c) /\ strs[id] = s /\ \A i \in Live(c) : i # id => strs[i] = c.streams[i]
    OBVIOUS
  <1>2. SetStream(c, id, s) = [c EXCEPT !.streams = strs]
    BY DEF SetStream
  <1> HIDE DEF strs
  <1> QED BY <1>1, <1>2 DEF ConnOK, Live

LEMMA KeptOnStream ==
    ASSUME NEW p, PeerTyped(p), NEW q, NEW id \in StreamIds, q.last = p.last, PeerTyped(q),
           \A i \in StreamIds : i # id => q.streams[i] = p.streams[i],
           q.streams[id].open = p.streams[id].open, q.streams[id].req = p.streams[id].req,
           q.streams[id].clientEnded = p.streams[id].clientEnded,
           p.streams[id].ended => /\ q.streams[id].ended /\ q.streams[id].hdrs = p.streams[id].hdrs
                                  /\ q.streams[id].sent = p.streams[id].sent,
           NEW ends, q.streams[id].ended => \/ p.streams[id].ended
                                            \/ /\ id \in ends /\ p.streams[id].open
                                               /\ "patient" \in Features => p.streams[id].clientEnded
    PROVE  Kept(p, q, ends)
  <1>1. q.last <= p.last
    BY DEF PeerTyped
  <1> QED BY <1>1 DEF Kept

\* A stream replaced together with expecting_continuation, and the ledger's side.
Replaced(c, id, s, e) == [SetStream(c, id, s) EXCEPT !.expecting = e]
OnStream(p, id, q) == [p EXCEPT !.streams[id] = q]

LEMMA ReplacedFields ==
    ASSUME NEW c, ConnOK(c), NEW id \in Live(c), NEW s, NEW e
    PROVE  LET d == Replaced(c, id, s, e)
           IN  /\ Live(d) = Live(c) /\ d.streams[id] = s
               /\ \A i \in Live(c) : i # id => d.streams[i] = c.streams[i]
               /\ d.iws = c.iws /\ d.send = c.send /\ d.recv = c.recv
               /\ d.goaway = c.goaway /\ d.expecting = e
  <1> DEFINE strs == [i \in Live(c) \cup {id} |-> IF i = id THEN s ELSE c.streams[i]]
  <1>1. DOMAIN strs = Live(c) /\ strs[id] = s /\ \A i \in Live(c) : i # id => strs[i] = c.streams[i]
    OBVIOUS
  <1>2. SetStream(c, id, s) = [c EXCEPT !.streams = strs]
    BY DEF SetStream
  <1> HIDE DEF strs
  <1> QED BY <1>1, <1>2 DEF ConnOK, Live, Replaced

\* The ledger after a frame on a stream that carries no body bytes.
LEMMA OnStreamFields ==
    ASSUME NEW p, PeerTyped(p), NEW id \in StreamIds, NEW q \in PeerStream
    PROVE  LET u == OnStream(p, id, q)
           IN  /\ PeerTyped(u) /\ u.streams[id] = q
               /\ \A i \in StreamIds : i # id => u.streams[i] = p.streams[i]
               /\ u.credit = p.credit /\ u.window = p.window /\ u.last = p.last
  <1> DEFINE strs == [p.streams EXCEPT ![id] = q]
  <1>1. /\ strs \in [StreamIds -> PeerStream] /\ strs[id] = q
        /\ \A i \in StreamIds : i # id => strs[i] = p.streams[i]
    BY DEF PeerTyped
  <1>2. OnStream(p, id, q) = [p EXCEPT !.streams = strs]
    BY DEF OnStream
  <1> HIDE DEF strs
  <1> QED BY <1>1, <1>2 DEF PeerTyped

----------------------------------------------------------------------------
(* One lemma per kind of frame.                                             *)

\* Outside a header block no stream has one open.
LEMMA NoBlockOpen ==
    ASSUME ConnOK(conn), Agree(conn, peer, {}), NEW f, Legal(f), f.typ # "CONTINUATION"
    PROVE  conn.expecting = NoStream /\ \A i \in StreamIds : peer.streams[i].block = "none"
  <1>1. \A i \in StreamIds : peer.streams[i].block = "none"
    BY DEF Legal
  <1>2. conn.expecting \in StreamIds \cup {NoStream}
    BY DEF ConnOK
  <1> QED BY <1>1, <1>2 DEF Agree, Blocks

\* What a conforming peer sends of a response is for a stream that is in step.
LEMMA SentOnLive ==
    ASSUME ConnOK(conn), Agree(conn, peer, {}), NEW f, FrameOK(f), Legal(f), f.typ \in {"HEADERS", "DATA"}
    PROVE  /\ f.id \in StreamIds /\ f.id \in Live(conn) /\ f.id <= peer.last
           /\ InStep(conn.streams[f.id], peer.streams[f.id], conn.iws)
  <1>1. f.id \in StreamIds
    BY DEF FrameOK
  <1>2. /\ peer.streams[f.id].open /\ ~peer.streams[f.id].ended /\ ~peer.streams[f.id].reset
        /\ f.id <= peer.last
    BY DEF Legal
  <1>a. f.id \in Live(conn)
    <2> SUFFICES ASSUME f.id \notin Live(conn) PROVE FALSE
      OBVIOUS
    <2>1. f.id > peer.last
      BY <1>1, <1>2 DEF Agree, LetGo
    <2>2. peer.last \in Int
      BY SizeAssumption DEF Agree, LinkAgrees, ConnOK, None
    <2> QED BY <1>1, <1>2, <2>1, <2>2, IdsPositive
  <1> QED BY <1>1, <1>2, <1>a DEF Agree

LEMMA Replenished ==
    ASSUME NEW n \in Int
    PROVE  ReplenishIncrement(n) \in Nat /\ n + ReplenishIncrement(n) >= OurInitialWindow \div 2
  BY WindowAssumption DEF ReplenishIncrement

\* process_data of bytes there is credit for.
LEMMA DataAccepted ==
    ASSUME NEW c, ConnOK(c), NEW f, FrameOK(f), f.typ = "DATA", NEW w \in BOOLEAN, f.id \in Live(c), ~f.bad,
           c.streams[f.id].state \in {"Open", "HalfClosedLocal"},
           c.recv >= f.len, c.streams[f.id].recv >= f.len,
           c.streams[f.id].body + (f.len - f.pad) <= MaxResponseBytes
    PROVE  LET r == ProcessData(c, f, w)
               s == c.streams[f.id]
               t == r.conn.streams[f.id]
           IN  /\ r.g0 \in Nat /\ r.gs \in Nat
               /\ Live(r.conn) = Live(c) /\ \A i \in Live(c) : i # f.id => r.conn.streams[i] = c.streams[i]
               /\ r.conn.iws = c.iws /\ r.conn.send = c.send /\ r.conn.goaway = c.goaway
               /\ r.conn.expecting = c.expecting
               /\ r.conn.recv = c.recv - f.len + r.g0 /\ r.conn.recv >= OurInitialWindow \div 2
               /\ t.send = s.send /\ t.basis = s.basis /\ t.resp = s.resp /\ t.hdrLen = s.hdrLen
               /\ t.hdrKind = s.hdrKind /\ t.pending = s.pending
               /\ t.body = s.body + (f.len - f.pad) /\ t.fin = (s.fin \/ f.endStream)
               /\ t.state = RecvData(s.state, f.endStream)
               /\ w => t.recv = s.recv - f.len + r.gs /\ t.recv >= OurInitialWindow \div 2
               /\ r.out = IF w THEN IF Complete(t) THEN "done" ELSE "continue" ELSE "err"
  <1> DEFINE s == c.streams[f.id]
             b0 == [c EXCEPT !.recv = @ - f.len]
             g0 == ReplenishIncrement(b0.recv)
             st == RecvData(s.state, f.endStream)
             s1 == [s EXCEPT !.recv = @ - f.len]
             gs == ReplenishIncrement(s1.recv)
             gain == IF w \/ g0 = 0 THEN gs ELSE 0
             s2 == [s1 EXCEPT !.body = @ + (f.len - f.pad), !.fin = s.fin \/ f.endStream,
                              !.state = st, !.recv = @ + gain]
             b2 == [b0 EXCEPT !.recv = @ + g0]
             c2 == SetStream(b2, f.id, s2)
  <1>1. s \in Stream /\ f.len \in Nat /\ f.pad \in 0..f.len /\ c.recv \in Int
    BY StreamOK DEF FrameOK, ConnOK
  <1>2. b0.recv = c.recv - f.len /\ b0.recv \in Nat /\ g0 \in Nat /\ b0.recv + g0 >= OurInitialWindow \div 2
    BY <1>1, Replenished DEF ConnOK
  <1>3. s1.recv = s.recv - f.len /\ s1.recv \in Nat /\ gs \in Nat /\ s1.recv + gs >= OurInitialWindow \div 2
    BY <1>1, Replenished DEF Stream
  <1>4. st # "Err" /\ s.state # "Closed"
    BY DEF RecvData
  <1>5. ProcessData(c, f, w) = [conn |-> c2, out |-> IF w THEN Outcome(c2, f.id) ELSE "err", g0 |-> g0, gs |-> gs]
    <2>1. ~(b0.recv < 0) /\ ~(s1.recv < 0) /\ ~(s.body + (f.len - f.pad) > MaxResponseBytes)
      BY <1>1, <1>2, <1>3, SizeAssumption DEF Stream
    <2> HIDE DEF s2, b2
    <2> QED BY <1>4, <2>1 DEF ProcessData, s2, b2
  <1>6. /\ s2.send = s.send /\ s2.basis = s.basis /\ s2.resp = s.resp /\ s2.hdrLen = s.hdrLen
        /\ s2.hdrKind = s.hdrKind /\ s2.pending = s.pending
        /\ s2.body = s.body + (f.len - f.pad) /\ s2.fin = (s.fin \/ f.endStream) /\ s2.state = st
        /\ s2.recv = s1.recv + gain
    <2> HIDE DEF st, gs, g0, gain
    <2> QED BY <1>1 DEF Stream
  <1>7. ConnOK(b2) /\ Live(b2) = Live(c) /\ b2.streams = c.streams /\ b2.iws = c.iws /\ b2.send = c.send
        /\ b2.goaway = c.goaway /\ b2.expecting = c.expecting /\ b2.recv = b0.recv + g0
    <2>1. c.recv - f.len \in Int
      BY <1>1
    <2>2. /\ ConnOK(b0) /\ Live(b0) = Live(c) /\ b0.streams = c.streams /\ b0.iws = c.iws /\ b0.send = c.send
          /\ b0.goaway = c.goaway /\ b0.expecting = c.expecting
      BY <2>1 DEF ConnOK, Live
    <2>3. b0.recv + g0 \in Int
      BY <1>2
    <2> HIDE DEF g0, b0
    <2> QED BY <2>2, <2>3 DEF ConnOK, Live
  <1> HIDE DEF b2, s2
  <1>8. /\ Live(c2) = Live(c) /\ c2.streams[f.id] = s2
        /\ \A i \in Live(c) : i # f.id => c2.streams[i] = c.streams[i]
        /\ c2.iws = c.iws /\ c2.send = c.send /\ c2.goaway = c.goaway /\ c2.expecting = c.expecting
        /\ c2.recv = b0.recv + g0
    BY <1>7, SetStreamFields
  <1> HIDE DEF c2
  <1>9. w => s2.recv = s.recv - f.len + gs /\ s2.recv >= OurInitialWindow \div 2
    BY <1>3, <1>6
  <1> HIDE DEF gs, g0, b0, s1, gain
  <1> QED BY <1>2, <1>3, <1>5, <1>6, <1>8, <1>9 DEF Outcome

\* DATA that keeps the body within MAX_RESPONSE_BYTES.
LEMMA FittingDataServed ==
    ASSUME ConnOK(conn), PeerTyped(peer), Agree(conn, peer, {}), NEW f, FrameOK(f), Legal(f), f.typ = "DATA",
           conn.streams[f.id].body + (f.len - f.pad) <= MaxResponseBytes,
           NEW w \in BOOLEAN, NEW r \in ProcessFrame(conn, f, w)
    PROVE  Served(f, w, r) /\ Kept(peer, PeerSent(f, r), Ending(f, r))
  <1> DEFINE id == f.id
             s == conn.streams[f.id]
             q == peer.streams[f.id]
             t == r.conn.streams[f.id]
  <1>1. /\ id \in StreamIds /\ id \in Live(conn) /\ InStep(s, q, conn.iws) /\ id <= peer.last
        /\ conn.expecting = NoStream /\ \A i \in StreamIds : peer.streams[i].block = "none"
    BY SentOnLive, NoBlockOpen
  <1>2. r = ProcessData(conn, f, w)
    BY <1>1, IdsPositive DEF ProcessFrame, ProcessStreamFrame
  <1>3. s \in Stream /\ q \in PeerStream /\ f.len \in Nat /\ f.pad \in 0..f.len /\ f.endStream \in BOOLEAN
    BY <1>1, StreamOK DEF FrameOK, PeerTyped
  <1>4. ~f.bad /\ q.hdrs = "final" /\ f.len <= q.credit /\ f.len <= peer.credit
    BY DEF Legal
  <1>5. s.state \in {"Open", "HalfClosedLocal"} /\ conn.recv >= f.len /\ s.recv >= f.len
    BY <1>1, <1>3, <1>4, SizeAssumption DEF InStep, Agree, LinkAgrees, Stream, PeerStream, ConnOK
  <1>6. /\ r.g0 \in Nat /\ r.gs \in Nat
        /\ Live(r.conn) = Live(conn) /\ \A i \in Live(conn) : i # id => r.conn.streams[i] = conn.streams[i]
        /\ r.conn.iws = conn.iws /\ r.conn.send = conn.send /\ r.conn.goaway = conn.goaway
        /\ r.conn.expecting = conn.expecting
        /\ r.conn.recv = conn.recv - f.len + r.g0 /\ r.conn.recv >= OurInitialWindow \div 2
        /\ t.send = s.send /\ t.basis = s.basis /\ t.resp = s.resp /\ t.hdrLen = s.hdrLen
        /\ t.hdrKind = s.hdrKind /\ t.pending = s.pending
        /\ t.body = s.body + (f.len - f.pad) /\ t.fin = (s.fin \/ f.endStream)
        /\ t.state = RecvData(s.state, f.endStream)
        /\ w => t.recv = s.recv - f.len + r.gs /\ t.recv >= OurInitialWindow \div 2
        /\ r.out = IF w THEN IF Complete(t) THEN "done" ELSE "continue" ELSE "err"
    BY <1>1, <1>2, <1>4, <1>5, DataAccepted
  <1> DEFINE q2 == [q EXCEPT !.ended = @ \/ f.endStream, !.sent = @ + (f.len - f.pad),
                             !.credit = @ - f.len + r.gs]
             p2 == PeerSent(f, r)
  <1>7. /\ q2 \in PeerStream /\ q2.open = q.open /\ q2.clientEnded = q.clientEnded /\ q2.reset = q.reset
        /\ q2.block = q.block /\ q2.hdrs = q.hdrs /\ q2.window = q.window
        /\ q2.req = q.req
        /\ q2.ended = (q.ended \/ f.endStream) /\ q2.sent = q.sent + (f.len - f.pad)
        /\ q2.credit = q.credit - f.len + r.gs
    <2>1. q.sent + (f.len - f.pad) \in Int /\ q.credit - f.len + r.gs \in Int
      BY <1>3, <1>6 DEF PeerStream
    <2>2. (q.ended \/ f.endStream) \in BOOLEAN
      OBVIOUS
    <2> HIDE DEF q
    <2> QED BY <1>3, <2>1, <2>2 DEF PeerStream
  <1>8. /\ p2.streams[id] = q2 /\ \A i \in StreamIds : i # id => p2.streams[i] = peer.streams[i]
        /\ p2.credit = peer.credit - f.len + r.g0 /\ p2.window = peer.window /\ p2.last = peer.last
        /\ PeerTyped(p2)
    <2> DEFINE strs == [peer.streams EXCEPT ![id] = q2]
    <2>1. p2 = [peer EXCEPT !.streams = strs, !.credit = @ - f.len + r.g0]
      BY <1>1, IdsPositive DEF PeerSent, PeerTyped
    <2> HIDE DEF q2, p2
    <2>2. /\ strs[id] = q2 /\ \A i \in StreamIds : i # id => strs[i] = peer.streams[i]
          /\ strs \in [StreamIds -> PeerStream]
      BY <1>1, <1>7 DEF PeerTyped
    <2>3. peer.credit - f.len + r.g0 \in Int
      BY <1>3, <1>6 DEF PeerTyped
    <2> HIDE DEF strs, id
    <2> QED BY <2>1, <2>2, <2>3 DEF PeerTyped
  <1> HIDE DEF q2, p2
  <1>9. LinkAgrees(r.conn, p2)
    BY <1>6, <1>8 DEF Agree, LinkAgrees
  <1>10. Blocks(r.conn, p2)
    BY <1>1, <1>6, <1>7, <1>8 DEF Agree, Blocks
  <1>14. /\ Live(conn) \subseteq StreamIds /\ Live(r.conn) = Live(conn) /\ r.conn.iws = conn.iws
         /\ \A i \in Live(conn) : i # id => r.conn.streams[i] = conn.streams[i]
    BY <1>6 DEF ConnOK
  <1>11. ASSUME ~w PROVE Served(f, w, r)
    <2>1. \A i \in Live(conn) : r.conn.streams[i].state = conn.streams[i].state \/ Complete(r.conn.streams[i])
                              \/ r.conn.streams[i].state # "Closed"
      <3>1. t.state = "Closed" => Complete(t)
        BY <1>1, <1>4, <1>5, <1>6 DEF RecvData, Complete, InStep
      <3> QED BY <1>6, <3>1
    <2>2. Culprits(r.conn) = {}
      BY <1>6, <2>1, NoCulprits
    <2> QED BY <1>6, <1>11, <2>2 DEF Served, Refused
  <1>12. ASSUME w, f.endStream PROVE Served(f, w, r)
    <2>1. Complete(t) /\ Answered(t, q2)
      <3>1. t.state \in {"Closed", "HalfClosedRemote"}
        BY <1>5, <1>6, <1>12 DEF RecvData
      <3>2. t.fin /\ t.resp = "final" /\ t.body = q2.sent
        BY <1>1, <1>4, <1>6, <1>7, <1>12 DEF InStep
      <3>3. q2.open /\ q2.ended /\ q2.block = "none" /\ q2.hdrs = "final"
        BY <1>1, <1>4, <1>7, <1>12 DEF InStep
      <3> HIDE DEF t, q2
      <3> QED BY <3>1, <3>2, <3>3 DEF Complete, Answered
    <2>2. Agree(r.conn, p2, {id})
      <3>1. Answered(r.conn.streams[id], p2.streams[id])
        BY <1>8, <2>1
      <3>2. p2.last = peer.last /\ \A i \in StreamIds : i # id => p2.streams[i] = peer.streams[i]
        BY <1>8
      <3> HIDE DEF id
      <3> QED BY <1>1, <1>14, <1>9, <1>10, <3>1, <3>2, IsAnswered
    <2> QED BY <1>6, <1>12, <2>1, <2>2 DEF Served, p2
  <1>13. ASSUME w, ~f.endStream PROVE Served(f, w, r)
    <2>1. InStep(t, q2, conn.iws)
      BY <1>1, <1>3, <1>4, <1>5, <1>6, <1>7, <1>13 DEF RecvData, InStep
    <2>2. ~Complete(t)
      BY <2>1 DEF Complete, InStep
    <2>3. Agree(r.conn, p2, {})
      BY <1>1, <1>14, <1>8, <1>9, <1>10, <2>1, StaysInStep
    <2> QED BY <1>6, <1>13, <2>2, <2>3 DEF Served, p2
  <1>15. Kept(peer, p2, Ending(f, r))
    <2>1. ~q.ended
      BY <1>1 DEF InStep
    <2>2. /\ p2.streams[id].open = q.open /\ p2.streams[id].req = q.req
          /\ p2.streams[id].clientEnded = q.clientEnded
      BY <1>7, <1>8
    <2>3. ASSUME p2.streams[id].ended PROVE id \in Ending(f, r) /\ q.open /\ ("patient" \in Features => q.clientEnded)
      <3>1. f.endStream
        BY <1>1, <1>7, <1>8, <2>3 DEF InStep
      <3>2. "patient" \in Features => q.clientEnded
        BY <3>1 DEF Legal, Patient
      <3>3. w => Complete(t)
        BY <1>1, <1>4, <1>5, <1>6, <3>1 DEF RecvData, Complete, InStep
      <3> QED BY <1>1, <1>6, <3>2, <3>3 DEF Ending, InStep
    <2> QED BY <1>1, <1>8, <2>1, <2>2, <2>3, KeptOnStream
  <1> QED BY <1>11, <1>12, <1>13, <1>15 DEF p2

\* DATA above MAX_RESPONSE_BYTES: the error leaves its stream open, so that no stream
\* is blamed for it.
LEMMA OversizedDataRefused ==
    ASSUME ConnOK(conn), PeerTyped(peer), Agree(conn, peer, {}), NEW f, FrameOK(f), Legal(f), f.typ = "DATA",
           conn.streams[f.id].body + (f.len - f.pad) > MaxResponseBytes,
           NEW w \in BOOLEAN, NEW r \in ProcessFrame(conn, f, w)
    PROVE  Refused(f, w, r) /\ Kept(peer, PeerSent(f, r), Ending(f, r))
  <1> DEFINE id == f.id
             s == conn.streams[f.id]
             q == peer.streams[f.id]
             b0 == [conn EXCEPT !.recv = @ - f.len]
             s1 == [s EXCEPT !.recv = @ - f.len]
             b1 == SetStream(b0, f.id, s1)
  <1>1. /\ id \in StreamIds /\ id \in Live(conn) /\ InStep(s, q, conn.iws) /\ id <= peer.last
        /\ conn.expecting = NoStream /\ \A i \in StreamIds : peer.streams[i].block = "none"
    BY SentOnLive, NoBlockOpen
  <1>2. r = ProcessData(conn, f, w)
    BY <1>1, IdsPositive DEF ProcessFrame, ProcessStreamFrame
  <1>3. s \in Stream /\ q \in PeerStream /\ f.len \in Nat /\ f.pad \in 0..f.len /\ f.endStream \in BOOLEAN
    BY <1>1, StreamOK DEF FrameOK, PeerTyped
  <1>4. ~f.bad /\ q.hdrs = "final" /\ f.len <= q.credit /\ f.len <= peer.credit
    BY DEF Legal
  <1>5. s.state \in {"Open", "HalfClosedLocal"} /\ conn.recv >= f.len
    BY <1>1, <1>3, <1>4 DEF InStep, Agree, LinkAgrees, PeerStream, ConnOK
  <1>6. /\ ConnOK(b0) /\ Live(b0) = Live(conn) /\ b0.streams = conn.streams /\ ~(b0.recv < 0)
    <2>1. conn.recv - f.len \in Nat
      BY <1>3, <1>5 DEF ConnOK
    <2> QED BY <2>1 DEF ConnOK, Live
  <1>7. s1.state = s.state
    BY <1>3 DEF Stream
  <1> HIDE DEF b0, s1
  <1>8. r = Failed(b1)
    <2>1. RecvData(s.state, f.endStream) # "Err" /\ s.state # "Closed"
      BY <1>5 DEF RecvData
    <2> QED BY <1>1, <1>2, <1>6, <2>1 DEF ProcessData, b0, s1
  <1>9. /\ Live(b1) = Live(conn) /\ b1.streams[id] = s1
        /\ \A i \in Live(conn) : i # id => b1.streams[i] = conn.streams[i]
    BY <1>1, <1>6, SetStreamFields
  <1> HIDE DEF b1
  <1>10. r.conn = b1 /\ r.out = "err" /\ r.g0 = 0 /\ r.gs = 0
    BY <1>8 DEF Failed, Result
  <1>11. Culprits(r.conn) = {}
    <2>1. \A i \in Live(conn) : b1.streams[i].state = conn.streams[i].state
      BY <1>7, <1>9
    <2> QED BY <1>9, <1>10, <2>1, NoCulprits
  <1> DEFINE q2 == [q EXCEPT !.ended = @ \/ f.endStream, !.sent = @ + (f.len - f.pad),
                             !.credit = @ - f.len + r.gs]
             p2 == PeerSent(f, r)
  <1>12. /\ q2 \in PeerStream /\ q2.open = q.open /\ q2.clientEnded = q.clientEnded /\ q2.req = q.req
         /\ q2.ended = (q.ended \/ f.endStream) /\ q2.sent = q.sent + (f.len - f.pad)
    <2>1. q.sent + (f.len - f.pad) \in Int /\ q.credit - f.len + r.gs \in Int
      BY <1>3, <1>10 DEF PeerStream
    <2>2. (q.ended \/ f.endStream) \in BOOLEAN
      OBVIOUS
    <2> HIDE DEF q
    <2> QED BY <1>3, <2>1, <2>2 DEF PeerStream
  <1>13. /\ p2.streams[id] = q2 /\ \A i \in StreamIds : i # id => p2.streams[i] = peer.streams[i]
         /\ p2.last = peer.last /\ PeerTyped(p2)
    <2> DEFINE strs == [peer.streams EXCEPT ![id] = q2]
    <2>1. p2 = [peer EXCEPT !.streams = strs, !.credit = @ - f.len + r.g0]
      BY <1>1, IdsPositive DEF PeerSent, PeerTyped
    <2> HIDE DEF q2, p2
    <2>2. /\ strs[id] = q2 /\ \A i \in StreamIds : i # id => strs[i] = peer.streams[i]
          /\ strs \in [StreamIds -> PeerStream]
      BY <1>1, <1>12 DEF PeerTyped
    <2>3. peer.credit - f.len + r.g0 \in Int
      BY <1>3, <1>10 DEF PeerTyped
    <2> HIDE DEF strs, id
    <2> QED BY <2>1, <2>2, <2>3 DEF PeerTyped
  <1> HIDE DEF q2, p2
  <1>14. Refused(f, w, r)
    <2>1. p2.streams[id].sent > MaxResponseBytes
      BY <1>1, <1>12, <1>13 DEF InStep
    <2> QED BY <1>1, <1>10, <1>11, <2>1 DEF Refused, p2
  <1>15. Kept(peer, p2, Ending(f, r))
    <2>1. ~q.ended /\ q.open
      BY <1>1 DEF InStep
    <2>2. /\ p2.streams[id].open = q.open /\ p2.streams[id].req = q.req
          /\ p2.streams[id].clientEnded = q.clientEnded
      BY <1>12, <1>13
    <2>3. p2.streams[id].ended => id \in Ending(f, r) /\ ("patient" \in Features => q.clientEnded)
      BY <1>10, <1>12, <1>13, <2>1 DEF Ending, Legal, Patient
    <2> QED BY <1>1, <1>13, <2>1, <2>2, <2>3, KeptOnStream
  <1> QED BY <1>14, <1>15 DEF p2

LEMMA DataServed ==
    ASSUME ConnOK(conn), PeerTyped(peer), Agree(conn, peer, {}), NEW f, FrameOK(f), Legal(f), f.typ = "DATA",
           NEW w \in BOOLEAN, NEW r \in ProcessFrame(conn, f, w)
    PROVE  Served(f, w, r) /\ Kept(peer, PeerSent(f, r), Ending(f, r))
  <1>1. CASE conn.streams[f.id].body + (f.len - f.pad) <= MaxResponseBytes
    BY <1>1, FittingDataServed
  <1>2. CASE conn.streams[f.id].body + (f.len - f.pad) > MaxResponseBytes
    BY <1>2, OversizedDataRefused DEF Served
  <1>3. conn.streams[f.id].body + (f.len - f.pad) \in Int /\ MaxResponseBytes \in Int
    BY SentOnLive, StreamOK, SizeAssumption DEF FrameOK, Stream
  <1> QED BY <1>1, <1>2, <1>3

\* A header block, or its first fragment.
LEMMA HeadersServed ==
    ASSUME "splitend" \notin Features, ConnOK(conn), PeerTyped(peer), Agree(conn, peer, {}),
           NEW f \in Frames, FrameOK(f), Legal(f), f.typ = "HEADERS", NEW w \in BOOLEAN, NEW r \in ProcessFrame(conn, f, w)
    PROVE  Served(f, w, r) /\ Kept(peer, PeerSent(f, r), Ending(f, r))
  <1> DEFINE id == f.id
             s == conn.streams[id]
             q == peer.streams[id]
             st == RecvHeaders(s.state, f.endStream)
             buffered == [s EXCEPT !.hdrLen = @ + 1, !.hdrKind = f.kind]
             marked == [buffered EXCEPT !.fin = s.fin \/ f.endStream]
             decoded == [marked EXCEPT !.hdrLen = 0, !.resp = f.kind, !.state = st]
             parted == [marked EXCEPT !.state = st]
             q2 == [q EXCEPT !.ended = @ \/ f.endStream,
                             !.block = IF f.endHeaders THEN "none" ELSE f.kind,
                             !.hdrs = IF f.endHeaders /\ @ # "final" THEN f.kind ELSE @]
             p2 == PeerSent(f, r)
             t == IF f.endHeaders THEN decoded ELSE parted
             e == IF f.endHeaders THEN NoStream ELSE id
             c2 == Replaced(conn, id, t, e)
  <1>1. /\ id \in StreamIds /\ id \in Live(conn) /\ InStep(s, q, conn.iws) /\ id <= peer.last
        /\ conn.expecting = NoStream /\ \A i \in StreamIds : peer.streams[i].block = "none"
    BY SentOnLive, NoBlockOpen
  <1>2. /\ s \in Stream /\ q \in PeerStream /\ f.endStream \in BOOLEAN /\ f.endHeaders \in BOOLEAN
        /\ f.kind \in BlockKinds
    BY <1>1, StreamOK DEF FrameOK, PeerTyped
  <1>3. /\ f.kind # "garbage" /\ ~f.bad
        /\ f.kind = "nostatus" => q.hdrs = "final" /\ f.endStream
        /\ f.kind # "nostatus" => q.hdrs # "final"
        /\ f.kind = "info" => ~f.endStream
    BY DEF Legal
  <1>4. (f.endStream => f.endHeaders) /\ (f.kind = "nostatus" => "trailers" \in Features)
    <2>1. f \in HeadersFrames
      <3> USE <1>1, IdsPositive DEF Frames
      <3>1. f \notin ContinuationFrames
        BY DEF ContinuationFrames, Continuation
      <3>2. f \notin DataFrames
        BY DEF DataFrames, Data
      <3>3. f \notin WindowUpdateFrames
        BY DEF WindowUpdateFrames, WindowUpdate
      <3>4. f \notin SettingsFrames
        BY DEF SettingsFrames, Settings
      <3>5. f \notin OtherFrames
        BY DEF OtherFrames, Rst, PushPromise, Goaway, Ping
      <3> QED BY <3>1, <3>2, <3>3, <3>4, <3>5
    <2>2. PICK k \in Kinds, i \in Issued, es \in BOOLEAN, eh \in BOOLEAN, bad \in Bad : f = Headers(i, k, es, eh, bad)
      BY <2>1 DEF HeadersFrames
    <2>3. f.kind \in Kinds
      BY <2>2 DEF Headers
    <2> QED BY <2>1, <2>3 DEF HeadersFrames, Has, Kinds
  <1>5. /\ st # "Err" /\ s.state # "Closed" /\ HeaderRoom(s) /\ s.hdrLen = 0
        /\ st = IF f.endStream THEN IF s.state = "Open" THEN "HalfClosedRemote" ELSE "Closed" ELSE s.state
    BY <1>1, <1>2, SizeAssumption DEF RecvHeaders, RecvData, InStep, HeaderRoom
  <1>6. /\ t.recv = s.recv /\ t.send = s.send /\ t.basis = s.basis /\ t.body = s.body /\ t.pending = s.pending
        /\ t.state = st /\ t.fin = (s.fin \/ f.endStream) /\ t.hdrKind = f.kind
        /\ t.hdrLen = (IF f.endHeaders THEN 0 ELSE 1) /\ t.resp = (IF f.endHeaders THEN f.kind ELSE s.resp)
    <2>1. /\ buffered.recv = s.recv /\ buffered.send = s.send /\ buffered.basis = s.basis /\ buffered.body = s.body
          /\ buffered.pending = s.pending /\ buffered.hdrLen = 1 /\ buffered.hdrKind = f.kind
          /\ buffered.resp = s.resp /\ DOMAIN buffered = DOMAIN s
      BY <1>2, <1>5 DEF Stream
    <2> HIDE DEF buffered, st
    <2> QED BY <1>2, <2>1 DEF Stream
  <1>7. /\ r.conn = c2 /\ r.out = Outcome(c2, id) 
    <2> HIDE DEF c2, st, marked, decoded, parted
    <2>1. r = ProcessHeaders(conn, f)
      BY <1>1, IdsPositive DEF ProcessFrame, ProcessStreamFrame
    <2>2. r = Result(c2, Outcome(c2, id))
      BY <1>1, <1>3, <1>5, <2>1 DEF ProcessHeaders, c2, st, marked, decoded, parted, Replaced
    <2> QED BY <2>2 DEF Result
  <1>8. /\ q2 \in PeerStream /\ q2.open = q.open /\ q2.clientEnded = q.clientEnded /\ q2.reset = q.reset
        /\ q2.credit = q.credit /\ q2.window = q.window /\ q2.sent = q.sent /\ q2.req = q.req
        /\ q2.ended = (q.ended \/ f.endStream)
        /\ q2.block = (IF f.endHeaders THEN "none" ELSE f.kind)
        /\ q2.hdrs = (IF f.endHeaders /\ q.hdrs # "final" THEN f.kind ELSE q.hdrs)
    <2> HIDE DEF q
    <2> QED BY <1>2 DEF PeerStream
  <1>9. p2 = OnStream(peer, id, q2)
    BY <1>1, IdsPositive DEF PeerSent, PeerTyped, OnStream
  <1> HIDE DEF e, t, st, c2, q2, p2, buffered, marked, decoded, parted
  <1>10. /\ PeerTyped(p2) /\ p2.streams[id] = q2
         /\ \A i \in StreamIds : i # id => p2.streams[i] = peer.streams[i]
         /\ p2.credit = peer.credit /\ p2.window = peer.window /\ p2.last = peer.last
    BY <1>1, <1>8, <1>9, OnStreamFields
  <1>11. /\ Live(c2) = Live(conn) /\ c2.streams[id] = t
         /\ \A i \in Live(conn) : i # id => c2.streams[i] = conn.streams[i]
         /\ c2.iws = conn.iws /\ c2.send = conn.send /\ c2.recv = conn.recv
         /\ c2.goaway = conn.goaway /\ c2.expecting = e
    BY <1>1, ReplacedFields DEF c2
  <1>12. LinkAgrees(c2, p2)
    BY <1>10, <1>11 DEF Agree, LinkAgrees
  <1>13. Blocks(c2, p2)
    BY <1>1, <1>2, <1>8, <1>10, <1>11 DEF Blocks, BlockKinds, NoStream, e
  <1>14. Live(conn) \subseteq StreamIds
    BY DEF ConnOK
  <1>15. Kept(peer, p2, Ending(f, r))
    <2>1. ~q.ended
      BY <1>1 DEF InStep
    <2>2. /\ p2.streams[id].open = q.open /\ p2.streams[id].req = q.req
          /\ p2.streams[id].clientEnded = q.clientEnded
      BY <1>8, <1>10
    <2>3. ASSUME p2.streams[id].ended PROVE id \in Ending(f, r) /\ q.open /\ ("patient" \in Features => q.clientEnded)
      <3>1. f.endStream
        BY <1>1, <1>8, <1>10, <2>3 DEF InStep
      <3>2. "patient" \in Features => q.clientEnded
        BY <3>1 DEF Legal, Patient
      <3>3. Complete(t)
        BY <1>1, <1>2, <1>4, <1>5, <1>6, <3>1 DEF InStep, Complete, BlockKinds
      <3> QED BY <1>1, <1>7, <1>11, <3>2, <3>3 DEF Ending, Outcome, InStep
    <2> QED BY <1>1, <1>10, <2>1, <2>2, <2>3, KeptOnStream
  <1>16. ASSUME f.endStream PROVE Served(f, w, r)
    <2>1. Complete(t) /\ Answered(t, q2)
      BY <1>1, <1>2, <1>3, <1>4, <1>5, <1>6, <1>8, <1>16 DEF InStep, Complete, Answered, BlockKinds
    <2>2. Agree(c2, p2, {id})
      <3>1. Answered(c2.streams[id], p2.streams[id])
        BY <1>10, <1>11, <2>1
      <3> QED BY <1>1, <1>10, <1>11, <1>12, <1>13, <1>14, <3>1, IsAnswered
    <2> QED BY <1>7, <1>11, <2>1, <2>2 DEF Served, p2, Outcome
  <1>17. ASSUME ~f.endStream PROVE Served(f, w, r)
    <2>1. InStep(t, q2, conn.iws)
      BY <1>1, <1>2, <1>3, <1>5, <1>6, <1>8, <1>17, SizeAssumption DEF InStep, BlockKinds
    <2>2. ~Complete(t)
      BY <2>1 DEF Complete, InStep
    <2>3. Agree(c2, p2, {})
      <3>1. InStep(c2.streams[id], p2.streams[id], conn.iws)
        BY <1>10, <1>11, <2>1
      <3> QED BY <1>1, <1>10, <1>11, <1>12, <1>13, <1>14, <3>1, StaysInStep
    <2> QED BY <1>7, <1>11, <2>2, <2>3 DEF Served, p2, Outcome
  <1> QED BY <1>2, <1>15, <1>16, <1>17 DEF p2

\* A further fragment of a header block, or its last one.
LEMMA ContinuationServed ==
    ASSUME ConnOK(conn), PeerTyped(peer), Agree(conn, peer, {}),
           NEW f, FrameOK(f), Legal(f), f.typ = "CONTINUATION", NEW w \in BOOLEAN, NEW r \in ProcessFrame(conn, f, w)
    PROVE  Served(f, w, r) /\ Kept(peer, PeerSent(f, r), Ending(f, r))
  <1> DEFINE id == f.id
             s == conn.streams[id]
             q == peer.streams[id]
             more == [s EXCEPT !.hdrLen = @ + 1]
             decoded == [s EXCEPT !.hdrLen = 0, !.resp = IF s.state # "Closed" THEN s.hdrKind ELSE @]
             q2 == IF f.endHeaders THEN [q EXCEPT !.block = "none", !.hdrs = IF @ # "final" THEN q.block ELSE @]
                                   ELSE q
             p2 == PeerSent(f, r)
             t == IF f.endHeaders THEN decoded ELSE more
             e == IF f.endHeaders THEN NoStream ELSE id
             c2 == Replaced(conn, id, t, e)
  <1>1. id \in StreamIds /\ q.block # "none" /\ (f.endHeaders \/ ~FullBlock(id))
    BY DEF FrameOK, Legal
  <1>2. /\ id \in Live(conn) /\ InStep(s, q, conn.iws) /\ id <= peer.last /\ conn.expecting = id
        /\ \A i \in StreamIds : i # id => peer.streams[i].block = "none"
    BY <1>1 DEF Agree, Blocks
  <1>3. /\ s \in Stream /\ q \in PeerStream /\ f.endHeaders \in BOOLEAN /\ r = ProcessContinuation(conn, f)
        /\ s.state \in {"Open", "HalfClosedLocal"}
    BY <1>1, <1>2, StreamOK, IdsPositive DEF FrameOK, PeerTyped, ProcessFrame, ProcessStreamFrame, InStep
  <1>4. CASE ~HeaderRoom(s)
    <2>1. MaxHeadersBuf = 1
      BY <1>2, <1>3, <1>4, SizeAssumption DEF InStep, HeaderRoom, Stream
    <2>2. r.conn = conn /\ r.out = "err"
      BY <1>2, <1>3, <1>4 DEF ProcessContinuation, Failed, Result
    <2>3. Culprits(conn) = {}
      BY NoCulprits
    <2>4. Kept(peer, p2, Ending(f, r))
      <3>1. /\ q2 \in PeerStream /\ q2.open = q.open /\ q2.clientEnded = q.clientEnded /\ q2.req = q.req
            /\ q2.ended = q.ended
        BY <1>3 DEF PeerStream
      <3>2. p2 = OnStream(peer, id, q2)
        BY <1>1, IdsPositive DEF PeerSent, PeerTyped, OnStream
      <3> HIDE DEF q2, p2
      <3>3. /\ PeerTyped(p2) /\ p2.streams[id] = q2
            /\ \A i \in StreamIds : i # id => p2.streams[i] = peer.streams[i]
            /\ p2.last = peer.last
        BY <1>1, <3>1, <3>2, OnStreamFields
      <3>4. ~q.ended /\ ~p2.streams[id].ended
        BY <1>2, <3>1, <3>3 DEF InStep
      <3> QED BY <1>1, <3>1, <3>3, <3>4, KeptOnStream
    <2> QED BY <2>1, <2>2, <2>3, <2>4 DEF Served, Refused
  <1>5. CASE HeaderRoom(s)
    <2>1. /\ t.recv = s.recv /\ t.send = s.send /\ t.basis = s.basis /\ t.body = s.body /\ t.pending = s.pending
          /\ t.state = s.state /\ t.fin = s.fin /\ t.hdrKind = s.hdrKind
          /\ t.hdrLen = (IF f.endHeaders THEN 0 ELSE s.hdrLen + 1)
          /\ t.resp = (IF f.endHeaders THEN s.hdrKind ELSE s.resp)
      <3> HIDE DEF s
      <3> QED BY <1>3 DEF Stream
    <2>2. r.conn = c2 /\ r.out = Outcome(c2, id)
      <3>1. s.hdrKind # "garbage"
        BY <1>1, <1>2 DEF InStep
      <3>2. r = Result(c2, Outcome(c2, id))
        <4>1. CASE f.endHeaders
          BY <1>2, <1>3, <1>5, <3>1, <4>1 DEF ProcessContinuation, Replaced
        <4>2. CASE ~f.endHeaders
          <5> DEFINE c1 == SetStream(conn, id, more)
          <5>1. c1.expecting = id
            BY <1>2, SetStreamFields
          <5>2. c1 = [c1 EXCEPT !.expecting = id]
            <6>1. ConnOK(c1)
              <7>1. s.hdrLen + 1 \in 0..MaxHeadersBuf
                BY <1>3, <1>5, SizeAssumption DEF HeaderRoom, Stream
              <7>2. more \in Stream
                BY <1>3, <7>1 DEF Stream
              <7> HIDE DEF more
              <7> QED BY <1>2, <7>2, SetStreamOK
            <6> HIDE DEF c1
            <6> QED BY <5>1, <6>1 DEF ConnOK
          <5>3. c2 = c1
            BY <4>2, <5>2 DEF Replaced
          <5>4. r = Result(c1, Outcome(c1, id))
            BY <1>2, <1>3, <1>5, <4>2 DEF ProcessContinuation
          <5> QED BY <5>3, <5>4
        <4> QED BY <4>1, <4>2
      <3> QED BY <3>2 DEF Result
    <2>3. /\ q2 \in PeerStream /\ q2.open = q.open /\ q2.clientEnded = q.clientEnded /\ q2.reset = q.reset
          /\ q2.credit = q.credit /\ q2.window = q.window /\ q2.sent = q.sent /\ q2.req = q.req
          /\ q2.ended = q.ended
          /\ q2.block = (IF f.endHeaders THEN "none" ELSE q.block)
          /\ q2.hdrs = (IF f.endHeaders /\ q.hdrs # "final" THEN q.block ELSE q.hdrs)
      <3> HIDE DEF q
      <3> QED BY <1>3 DEF PeerStream
    <2>4. p2 = OnStream(peer, id, q2)
      BY <1>1, IdsPositive DEF PeerSent, PeerTyped, OnStream
    <2> HIDE DEF e, t, c2, q2, p2, more, decoded
    <2>5. /\ PeerTyped(p2) /\ p2.streams[id] = q2
          /\ \A i \in StreamIds : i # id => p2.streams[i] = peer.streams[i]
          /\ p2.credit = peer.credit /\ p2.window = peer.window /\ p2.last = peer.last
      BY <1>1, <2>3, <2>4, OnStreamFields
    <2>6. /\ Live(c2) = Live(conn) /\ c2.streams[id] = t
          /\ \A i \in Live(conn) : i # id => c2.streams[i] = conn.streams[i]
          /\ c2.iws = conn.iws /\ c2.send = conn.send /\ c2.recv = conn.recv
          /\ c2.goaway = conn.goaway /\ c2.expecting = e
      BY <1>2, ReplacedFields DEF c2
    <2>7. LinkAgrees(c2, p2)
      BY <2>5, <2>6 DEF Agree, LinkAgrees
    <2>8. Blocks(c2, p2)
      BY <1>1, <1>2, <1>3, <2>3, <2>5, <2>6 DEF Blocks, NoStream, e
    <2>9. Live(conn) \subseteq StreamIds
      BY DEF ConnOK
    <2>10. Kept(peer, p2, Ending(f, r))
      <3>1. ~q.ended /\ ~p2.streams[id].ended
        BY <1>2, <2>3, <2>5 DEF InStep
      <3>2. /\ p2.streams[id].open = q.open /\ p2.streams[id].req = q.req
            /\ p2.streams[id].clientEnded = q.clientEnded
        BY <2>3, <2>5
      <3> QED BY <1>1, <2>5, <3>1, <3>2, KeptOnStream
    <2>11. InStep(t, q2, conn.iws)
      <3>1. ~f.endHeaders => s.hdrLen + 1 < MaxHeadersBuf
        BY <1>1, <1>2, <1>3, SizeAssumption DEF FullBlock, Stream
      <3> QED BY <1>1, <1>2, <1>3, <2>1, <2>3, <3>1, SizeAssumption DEF InStep, BlockKinds
    <2>12. Agree(c2, p2, {})
      <3>1. InStep(c2.streams[id], p2.streams[id], conn.iws)
        BY <2>5, <2>6, <2>11
      <3> QED BY <1>2, <2>5, <2>6, <2>7, <2>8, <2>9, <3>1, StaysInStep
    <2>13. ~Complete(t)
      BY <2>11 DEF Complete, InStep
    <2> QED BY <2>2, <2>6, <2>10, <2>12, <2>13 DEF Served, p2, Outcome
  <1> QED BY <1>4, <1>5

\* Only the connection's own windows change.
LEMMA StreamsUntouched ==
    ASSUME NEW c, NEW p, Agree(c, p, {}), NEW d, NEW q, d.streams = c.streams, d.iws = c.iws,
           d.expecting = c.expecting, q.streams = p.streams, q.last = p.last, LinkAgrees(d, q)
    PROVE  Agree(d, q, {})
  <1>1. Live(d) = Live(c)
    BY DEF Live
  <1>2. Blocks(d, q) /\ LetGo(d, q)
    BY <1>1 DEF Agree, Blocks, LetGo
  <1> QED BY <1>1, <1>2 DEF Agree

\* Credit for a stream, or for one the client has let go of.
LEMMA StreamCreditServed ==
    ASSUME ConnOK(conn), PeerTyped(peer), Agree(conn, peer, {}), NEW f, FrameOK(f), Legal(f),
           f.typ = "WINDOW_UPDATE", f.id # 0, NEW w \in BOOLEAN, NEW r \in ProcessFrame(conn, f, w)
    PROVE  Served(f, w, r) /\ Kept(peer, PeerSent(f, r), Ending(f, r))
  <1> DEFINE id == f.id
             s == conn.streams[id]
             q == peer.streams[id]
             t == [s EXCEPT !.send = @ + f.inc]
             q2 == [q EXCEPT !.window = @ + f.inc]
             p2 == PeerSent(f, r)
             c2 == SetStream(conn, id, t)
  <1>1. /\ id \in StreamIds /\ conn.expecting = NoStream /\ \A i \in StreamIds : peer.streams[i].block = "none"
    BY NoBlockOpen DEF FrameOK
  <1>2. /\ f.inc \in Nat /\ f.inc > 0 /\ ~f.bad /\ q.open /\ ~q.reset /\ q.window + f.inc <= WindowMax
    BY <1>1, IdsPositive DEF Legal, FrameOK
  <1>3. q \in PeerStream /\ r = StreamWindowUpdate(conn, f)
    BY <1>1, IdsPositive DEF PeerTyped, ProcessFrame, ProcessStreamFrame
  <1>4. /\ q2 \in PeerStream /\ q2.open = q.open /\ q2.clientEnded = q.clientEnded /\ q2.reset = q.reset
        /\ q2.credit = q.credit /\ q2.window = q.window + f.inc /\ q2.sent = q.sent /\ q2.req = q.req
        /\ q2.ended = q.ended /\ q2.block = q.block /\ q2.hdrs = q.hdrs
    <2>1. q.window + f.inc \in Int
      BY <1>2, <1>3 DEF PeerStream
    <2> HIDE DEF q
    <2> QED BY <1>3, <2>1 DEF PeerStream
  <1>5. p2 = OnStream(peer, id, q2)
    BY <1>1, IdsPositive DEF PeerSent, PeerTyped, OnStream
  <1> HIDE DEF q2, p2
  <1>6. /\ PeerTyped(p2) /\ p2.streams[id] = q2
        /\ \A i \in StreamIds : i # id => p2.streams[i] = peer.streams[i]
        /\ p2.credit = peer.credit /\ p2.window = peer.window /\ p2.last = peer.last
    BY <1>1, <1>4, <1>5, OnStreamFields
  <1>7. Kept(peer, p2, Ending(f, r))
    <2>1. /\ p2.streams[id].open = q.open /\ p2.streams[id].req = q.req
          /\ p2.streams[id].clientEnded = q.clientEnded
          /\ p2.streams[id].ended = q.ended /\ p2.streams[id].hdrs = q.hdrs /\ p2.streams[id].sent = q.sent
      BY <1>4, <1>6
    <2> QED BY <1>1, <1>6, <2>1, KeptOnStream
  <1>8. CASE id \in Live(conn)
    <2>1. s \in Stream /\ InStep(s, q, conn.iws) /\ id <= peer.last
      BY <1>8, StreamOK DEF Agree
    <2>2. /\ t.recv = s.recv /\ t.basis = s.basis /\ t.body = s.body /\ t.pending = s.pending
          /\ t.state = s.state /\ t.fin = s.fin /\ t.hdrKind = s.hdrKind /\ t.hdrLen = s.hdrLen
          /\ t.resp = s.resp /\ t.send = s.send + f.inc
      <3> HIDE DEF s
      <3> QED BY <2>1 DEF Stream
    <2>3. r.conn = c2 /\ r.out = "continue"
      <3>1. WindowUpdateOk(s.send, f.inc)
        BY <1>2, <2>1 DEF WindowUpdateOk, InStep
      <3>2. r = Result(c2, "continue")
        BY <1>2, <1>3, <1>8, <3>1 DEF StreamWindowUpdate
      <3> QED BY <3>2 DEF Result
    <2> HIDE DEF c2, t
    <2>4. /\ Live(c2) = Live(conn) /\ c2.streams[id] = t
          /\ \A i \in Live(conn) : i # id => c2.streams[i] = conn.streams[i]
          /\ c2.iws = conn.iws /\ c2.send = conn.send /\ c2.recv = conn.recv
          /\ c2.goaway = conn.goaway /\ c2.expecting = conn.expecting
      BY <1>8, SetStreamFields DEF c2
    <2>5. LinkAgrees(c2, p2)
      BY <1>6, <2>4 DEF Agree, LinkAgrees
    <2>6. Blocks(c2, p2)
      BY <1>1, <1>4, <1>6, <2>4 DEF Blocks
    <2>7. InStep(t, q2, conn.iws)
      BY <1>4, <2>1, <2>2 DEF InStep
    <2>8. Live(conn) \subseteq StreamIds
      BY DEF ConnOK
    <2>9. Agree(c2, p2, {})
      <3>1. InStep(c2.streams[id], p2.streams[id], conn.iws)
        BY <1>6, <2>4, <2>7
      <3> QED BY <1>6, <1>8, <2>4, <2>5, <2>6, <2>8, <3>1, StaysInStep
    <2> QED BY <1>7, <2>3, <2>9 DEF Served, p2
  <1>9. CASE id \notin Live(conn)
    <2>1. r.conn = conn /\ r.out = "continue"
      BY <1>2, <1>3, <1>9 DEF StreamWindowUpdate, Result
    <2>2. LinkAgrees(conn, p2) /\ Blocks(conn, p2)
      BY <1>1, <1>4, <1>6 DEF Agree, LinkAgrees, Blocks
    <2>3. LetGo(conn, p2)
      BY <1>1, <1>4, <1>6 DEF Agree, LetGo
    <2>4. \A i \in Live(conn) : InStep(conn.streams[i], p2.streams[i], conn.iws) /\ i <= p2.last
      <3>1. Live(conn) \subseteq StreamIds
        BY DEF ConnOK
      <3> QED BY <1>6, <1>9, <3>1 DEF Agree
    <2>5. Agree(conn, p2, {})
      BY <2>2, <2>3, <2>4 DEF Agree
    <2> QED BY <1>7, <2>1, <2>5 DEF Served, p2
  <1> QED BY <1>8, <1>9

\* Credit for the connection.
LEMMA LinkCreditServed ==
    ASSUME ConnOK(conn), PeerTyped(peer), Agree(conn, peer, {}), NEW f, FrameOK(f), Legal(f),
           f.typ = "WINDOW_UPDATE", f.id = 0, NEW w \in BOOLEAN, NEW r \in ProcessFrame(conn, f, w)
    PROVE  Served(f, w, r) /\ Kept(peer, PeerSent(f, r), Ending(f, r))
  <1> DEFINE p2 == PeerSent(f, r)
             c2 == [conn EXCEPT !.send = @ + f.inc]
  <1>1. f.inc \in Nat /\ f.inc > 0 /\ ~f.bad /\ peer.window + f.inc <= WindowMax /\ conn.expecting = NoStream
    BY NoBlockOpen DEF Legal, FrameOK
  <1>2. r.conn = c2 /\ r.out = "continue"
    <2>1. WindowUpdateOk(conn.send, f.inc)
      BY <1>1 DEF WindowUpdateOk, Agree, LinkAgrees
    <2>2. r = Result(c2, "continue")
      BY <1>1, <2>1 DEF ProcessFrame, ProcessConnFrame
    <2> QED BY <2>2 DEF Result
  <1>3. p2 = [peer EXCEPT !.window = @ + f.inc]
    BY DEF PeerSent
  <1>4. /\ PeerTyped(p2) /\ p2.streams = peer.streams /\ p2.credit = peer.credit
        /\ p2.window = peer.window + f.inc /\ p2.last = peer.last
    <2>1. peer.window + f.inc \in Int
      BY <1>1 DEF PeerTyped
    <2> HIDE DEF p2
    <2> QED BY <1>3, <2>1 DEF PeerTyped
  <1>5. /\ c2.streams = conn.streams /\ c2.iws = conn.iws /\ c2.expecting = conn.expecting
        /\ c2.recv = conn.recv /\ c2.send = conn.send + f.inc /\ c2.goaway = conn.goaway
    BY DEF ConnOK
  <1> HIDE DEF p2, c2
  <1>6. LinkAgrees(c2, p2)
    BY <1>1, <1>4, <1>5 DEF Agree, LinkAgrees, ConnOK
  <1>7. Agree(c2, p2, {})
    BY <1>4, <1>5, <1>6, StreamsUntouched
  <1>8. Kept(peer, p2, Ending(f, r))
    BY <1>4 DEF Kept, PeerTyped
  <1> QED BY <1>2, <1>7, <1>8 DEF Served, p2

LEMMA PingServed ==
    ASSUME ConnOK(conn), PeerTyped(peer), Agree(conn, peer, {}), NEW f, FrameOK(f), Legal(f),
           f.typ = "PING", f.id = 0, ~f.ack, NEW w \in BOOLEAN, NEW r \in ProcessFrame(conn, f, w)
    PROVE  Served(f, w, r) /\ Kept(peer, PeerSent(f, r), Ending(f, r))
  <1>1. conn.expecting = NoStream
    BY NoBlockOpen
  <1>2. r.conn = conn /\ r.out = IF w THEN "continue" ELSE "err"
    BY <1>1 DEF ProcessFrame, ProcessConnFrame, Result
  <1>3. PeerSent(f, r) = peer
    BY DEF PeerSent
  <1>4. Kept(peer, peer, Ending(f, r))
    BY DEF Kept, PeerTyped
  <1>5. Culprits(conn) = {}
    BY NoCulprits
  <1> QED BY <1>2, <1>3, <1>4, <1>5 DEF Served, Refused

\* One stream of ShiftWindows.
ShiftedStream(s, v) == [s EXCEPT !.send = ShiftedWindow(s, v), !.basis = v]

LEMMA ShiftedStreamFields ==
    ASSUME NEW s \in Stream, NEW v
    PROVE  LET t == ShiftedStream(s, v)
           IN  /\ t.recv = s.recv /\ t.body = s.body /\ t.pending = s.pending /\ t.state = s.state
               /\ t.fin = s.fin /\ t.hdrKind = s.hdrKind /\ t.hdrLen = s.hdrLen /\ t.resp = s.resp
               /\ t.send = s.send + (v - s.basis) /\ t.basis = v
  BY DEF ShiftedStream, ShiftedWindow, Stream

\* ShiftWindows of every stream.
LEMMA ShiftedFields ==
    ASSUME NEW c, ConnOK(c), NEW d, d = ShiftWindows(c, Live(c))
    PROVE  /\ Live(d) = Live(c) /\ d.iws = c.iws /\ d.send = c.send /\ d.recv = c.recv
           /\ d.goaway = c.goaway /\ d.expecting = c.expecting
           /\ \A i \in Live(c) : d.streams[i] = ShiftedStream(c.streams[i], c.iws)
  <1> DEFINE strs == [i \in Live(c) |-> IF i \in Live(c) THEN ShiftedStream(c.streams[i], c.iws) ELSE c.streams[i]]
  <1>1. DOMAIN strs = Live(c) /\ \A i \in Live(c) : strs[i] = ShiftedStream(c.streams[i], c.iws)
    OBVIOUS
  <1>2. d = [c EXCEPT !.streams = strs]
    BY DEF ShiftWindows, ShiftedStream
  <1> HIDE DEF strs
  <1>3. /\ Live(d) = Live(c) /\ d.iws = c.iws /\ d.send = c.send /\ d.recv = c.recv
        /\ d.goaway = c.goaway /\ d.expecting = c.expecting /\ d.streams = strs
    BY <1>1, <1>2 DEF ConnOK, Live
  <1> QED BY <1>1, <1>3

\* What the SETTINGS arm leaves of a connection that is in step: the streams'
\* windows shifted by what the initial window changed by.
LEMMA SettingsApplied ==
    ASSUME ConnOK(conn), Agree(conn, peer, {}), NEW f, FrameOK(f), Legal(f), f.typ = "SETTINGS", ~f.ack, f.id = 0,
           NEW w \in BOOLEAN, NEW r \in ProcessFrame(conn, f, w)
    PROVE  LET d == r.conn
               v == IF f.iws = Keep THEN conn.iws ELSE f.iws
           IN  /\ r.out = IF w THEN "continue" ELSE "err"
               /\ Live(d) = Live(conn) /\ d.iws = v /\ d.send = conn.send /\ d.recv = conn.recv
               /\ d.goaway = conn.goaway /\ d.expecting = conn.expecting
               /\ \A i \in Live(conn) :
                    LET s == conn.streams[i]
                        t == d.streams[i]
                    IN  /\ t.recv = s.recv /\ t.body = s.body /\ t.pending = s.pending /\ t.state = s.state
                        /\ t.fin = s.fin /\ t.hdrKind = s.hdrKind /\ t.hdrLen = s.hdrLen /\ t.resp = s.resp
                        /\ t.send = s.send + (v - conn.iws) /\ t.basis = v
  <1> DEFINE v == IF f.iws = Keep THEN conn.iws ELSE f.iws
             m == IF f.mcs = Keep THEN conn.mcs ELSE f.mcs
             z == IF f.mfs = Keep THEN conn.mfs ELSE f.mfs
             c3 == [conn EXCEPT !.mcs = m, !.iws = v, !.mfs = z]
             a == ApplySettingsPayload(conn, f)
             over == {i \in Live(conn) : ShiftedWindow(conn.streams[i], c3.iws) > WindowMax}
             d == IF c3.iws # conn.iws THEN ShiftWindows(c3, Live(conn)) ELSE c3
  <1>1. /\ conn.expecting = NoStream /\ ~f.bad /\ f.iws <= WindowMax
        /\ f.mfs # Keep => f.mfs \in MinFrameSize..MaxFrameSize
        /\ f.iws # Keep => \A i \in StreamIds : peer.streams[i].open =>
                              peer.streams[i].window + (f.iws - conn.iws) <= WindowMax
        /\ f.mcs \in Nat \cup {Keep} /\ f.iws \in Nat \cup {Keep} /\ f.mfs \in Nat \cup {Keep}
    BY NoBlockOpen DEF Legal, FrameOK
  <1>2. m \in Nat /\ v \in Nat /\ z \in Nat
    BY <1>1 DEF ConnOK
  <1>3. a = Result(c3, "continue")
    <2>1. ~(f.iws > WindowMax)
      BY <1>1, WindowAssumption DEF Keep
    <2> QED BY <1>1, <2>1 DEF ApplySettingsPayload, ConnOK
  <1> HIDE DEF m, v, z
  <1>4. /\ ConnOK(c3) /\ Live(c3) = Live(conn) /\ c3.streams = conn.streams /\ c3.iws = v
        /\ c3.send = conn.send /\ c3.recv = conn.recv /\ c3.goaway = conn.goaway
        /\ c3.expecting = conn.expecting
    BY <1>2 DEF ConnOK, Live
  <1> HIDE DEF c3
  <1>5. \A i \in Live(conn) : /\ conn.streams[i] \in Stream /\ conn.streams[i].basis = conn.iws
                               /\ conn.streams[i].send = peer.streams[i].window /\ peer.streams[i].open
                               /\ i \in StreamIds
    BY StreamOK DEF Agree, InStep, ConnOK
  <1>6. c3.iws # conn.iws => over = {}
    <2> SUFFICES ASSUME c3.iws # conn.iws, NEW i \in Live(conn), ShiftedWindow(conn.streams[i], c3.iws) > WindowMax
                 PROVE FALSE
      OBVIOUS
    <2>1. v # conn.iws
      BY <1>4
    <2>2. f.iws # Keep /\ v = f.iws
      BY <2>1 DEF v
    <2>3. peer.streams[i].window + (f.iws - conn.iws) <= WindowMax
      BY <1>1, <1>5, <2>2
    <2>4. conn.streams[i].send \in Int /\ conn.iws \in Int
      BY <1>5 DEF Stream, ConnOK
    <2> QED BY <1>2, <1>4, <1>5, <2>2, <2>3, <2>4, WindowAssumption DEF ShiftedWindow
  <1>7. r.conn = d /\ r.out = IF w THEN "continue" ELSE "err"
    <2>1. r \in ProcessSettings(conn, f, w)
      BY <1>1 DEF ProcessFrame, ProcessConnFrame
    <2>2. a.conn = c3 /\ a.out = "continue"
      BY <1>3 DEF Result
    <2>3. r = Result(d, IF w THEN "continue" ELSE "err")
      <3> HIDE DEF a
      <3> QED BY <1>6, <2>1, <2>2 DEF ProcessSettings, a
    <2> QED BY <2>3 DEF Result
  <1>8. CASE c3.iws = conn.iws
    BY <1>4, <1>5, <1>7, <1>8 DEF v, Stream, ConnOK
  <1>9. CASE c3.iws # conn.iws
    <2>1. d = ShiftWindows(c3, Live(c3))
      BY <1>4, <1>9
    <2> HIDE DEF d
    <2>2. /\ Live(d) = Live(c3) /\ d.iws = c3.iws /\ d.send = c3.send /\ d.recv = c3.recv
          /\ d.goaway = c3.goaway /\ d.expecting = c3.expecting
          /\ \A i \in Live(c3) : d.streams[i] = ShiftedStream(c3.streams[i], c3.iws)
      BY <1>4, <2>1, ShiftedFields
    <2>3. ASSUME NEW i \in Live(conn)
          PROVE  LET s == conn.streams[i]
                     t == d.streams[i]
                 IN  /\ t.recv = s.recv /\ t.body = s.body /\ t.pending = s.pending /\ t.state = s.state
                     /\ t.fin = s.fin /\ t.hdrKind = s.hdrKind /\ t.hdrLen = s.hdrLen /\ t.resp = s.resp
                     /\ t.send = s.send + (v - conn.iws) /\ t.basis = v
      <3> DEFINE s == conn.streams[i]
      <3>1. d.streams[i] = ShiftedStream(s, v)
        BY <1>4, <2>2
      <3>2. s \in Stream /\ s.basis = conn.iws
        BY <1>5
      <3> HIDE DEF s
      <3> QED BY <3>1, <3>2, ShiftedStreamFields DEF s
    <2> QED BY <1>4, <1>7, <2>2, <2>3 DEF v
  <1> QED BY <1>8, <1>9

LEMMA SettingsServed ==
    ASSUME ConnOK(conn), PeerTyped(peer), Agree(conn, peer, {}), NEW f, FrameOK(f), Legal(f),
           f.typ = "SETTINGS", ~f.ack, f.id = 0, NEW w \in BOOLEAN, NEW r \in ProcessFrame(conn, f, w)
    PROVE  Served(f, w, r) /\ Kept(peer, PeerSent(f, r), Ending(f, r))
  <1> DEFINE d == r.conn
             v == IF f.iws = Keep THEN conn.iws ELSE f.iws
             p2 == PeerSent(f, r)
             moved(i) == IF peer.streams[i].open THEN [peer.streams[i] EXCEPT !.window = @ + (v - conn.iws)]
                         ELSE peer.streams[i]
             strs == [i \in StreamIds |-> moved(i)]
  <1>1. /\ r.out = IF w THEN "continue" ELSE "err"
        /\ Live(d) = Live(conn) /\ d.iws = v /\ d.send = conn.send /\ d.recv = conn.recv
        /\ d.goaway = conn.goaway /\ d.expecting = conn.expecting
        /\ \A i \in Live(conn) :
             /\ d.streams[i].recv = conn.streams[i].recv /\ d.streams[i].body = conn.streams[i].body
             /\ d.streams[i].pending = conn.streams[i].pending /\ d.streams[i].state = conn.streams[i].state
             /\ d.streams[i].fin = conn.streams[i].fin /\ d.streams[i].hdrKind = conn.streams[i].hdrKind
             /\ d.streams[i].hdrLen = conn.streams[i].hdrLen /\ d.streams[i].resp = conn.streams[i].resp
             /\ d.streams[i].send = conn.streams[i].send + (v - conn.iws) /\ d.streams[i].basis = v
    BY SettingsApplied
  <1>2. v \in Int /\ conn.iws \in Int /\ f.iws \in Nat \cup {Keep}
    BY DEF ConnOK, FrameOK, Keep
  <1>3. ASSUME NEW i \in StreamIds
        PROVE  /\ moved(i) \in PeerStream
               /\ moved(i).open = peer.streams[i].open /\ moved(i).clientEnded = peer.streams[i].clientEnded
               /\ moved(i).ended = peer.streams[i].ended /\ moved(i).reset = peer.streams[i].reset
               /\ moved(i).block = peer.streams[i].block /\ moved(i).hdrs = peer.streams[i].hdrs
               /\ moved(i).sent = peer.streams[i].sent /\ moved(i).credit = peer.streams[i].credit
               /\ moved(i).req = peer.streams[i].req
               /\ peer.streams[i].open => moved(i).window = peer.streams[i].window + (v - conn.iws)
    <2>1. peer.streams[i] \in PeerStream
      BY DEF PeerTyped
    <2>2. PICK n \in Int : n = peer.streams[i].window + (v - conn.iws)
      BY <1>2, <2>1 DEF PeerStream
    <2>3. moved(i) = IF peer.streams[i].open THEN [peer.streams[i] EXCEPT !.window = n] ELSE peer.streams[i]
      BY <2>2
    <2> HIDE DEF moved, v
    <2> QED BY <2>1, <2>2, <2>3 DEF PeerStream
  <1> HIDE DEF moved
  <1>4. p2 = [peer EXCEPT !.streams = strs]
    <2>1. CASE f.iws = Keep
      <3>1. p2 = peer
        BY <2>1 DEF PeerSent
      <3>2. \A i \in StreamIds : strs[i] = peer.streams[i]
        <4> SUFFICES ASSUME NEW i \in StreamIds PROVE moved(i) = peer.streams[i]
          OBVIOUS
        <4>1. peer.streams[i] \in PeerStream /\ v - conn.iws = 0
          BY <1>2, <2>1 DEF PeerTyped
        <4>2. peer.streams[i].window + (v - conn.iws) = peer.streams[i].window
          BY <4>1 DEF PeerStream
        <4> HIDE DEF v
        <4> QED BY <4>1, <4>2 DEF moved, PeerStream
      <3>3. strs = peer.streams
        BY <3>2 DEF PeerTyped
      <3> HIDE DEF strs
      <3> QED BY <3>1, <3>3 DEF PeerTyped
    <2>2. CASE f.iws # Keep
      BY <2>2 DEF PeerSent, moved
    <2> QED BY <2>1, <2>2
  <1>5. strs \in [StreamIds -> PeerStream]
    BY <1>3
  <1>6. \A i \in StreamIds : strs[i] = moved(i)
    OBVIOUS
  <1> HIDE DEF strs, p2
  <1>7. /\ PeerTyped(p2) /\ p2.credit = peer.credit /\ p2.window = peer.window /\ p2.last = peer.last
        /\ \A i \in StreamIds : p2.streams[i] = moved(i)
    BY <1>4, <1>5, <1>6 DEF PeerTyped
  <1>8. Kept(peer, p2, Ending(f, r))
    BY <1>3, <1>7 DEF Kept, PeerTyped
  <1>9. CASE ~w
    <2>1. Culprits(r.conn) = {}
      BY <1>1, NoCulprits
    <2> QED BY <1>1, <1>8, <1>9, <2>1 DEF Served, Refused, p2
  <1>10. CASE w
    <2>1. LinkAgrees(d, p2) /\ Blocks(d, p2) /\ LetGo(d, p2)
      BY <1>1, <1>3, <1>7 DEF Agree, LinkAgrees, Blocks, LetGo, ConnOK
    <2>2. ASSUME NEW i \in Live(conn) PROVE InStep(d.streams[i], p2.streams[i], v) /\ i <= p2.last
      <3>1. i \in StreamIds
        BY DEF ConnOK
      <3>2. InStep(conn.streams[i], peer.streams[i], conn.iws) /\ i <= peer.last
        BY DEF Agree
      <3>3. /\ d.streams[i].recv = conn.streams[i].recv /\ d.streams[i].body = conn.streams[i].body
            /\ d.streams[i].pending = conn.streams[i].pending /\ d.streams[i].state = conn.streams[i].state
            /\ d.streams[i].fin = conn.streams[i].fin /\ d.streams[i].hdrKind = conn.streams[i].hdrKind
            /\ d.streams[i].hdrLen = conn.streams[i].hdrLen /\ d.streams[i].resp = conn.streams[i].resp
            /\ d.streams[i].send = conn.streams[i].send + (v - conn.iws) /\ d.streams[i].basis = v
        BY <1>1
      <3>4. p2.streams[i] = moved(i)
        BY <1>7, <3>1
      <3> HIDE DEF d, v
      <3> QED BY <1>3, <1>7, <3>1, <3>2, <3>3, <3>4 DEF InStep
    <2>3. Agree(d, p2, {})
      BY <1>1, <2>1, <2>2 DEF Agree
    <2> QED BY <1>1, <1>8, <1>10, <2>3 DEF Served, p2
  <1> QED BY <1>9, <1>10

\* RST_STREAM closes its stream unfinished, which makes that stream the one culprit.
Reset(f, r) ==
    /\ f.typ = "RST_STREAM" /\ f.id \in Live(conn) /\ r.out = "err" /\ Culprits(r.conn) = {f.id}
    /\ Agree(DropStreams(r.conn, {f.id}), PeerSent(f, r), {})

LEMMA RstServed ==
    ASSUME ConnOK(conn), PeerTyped(peer), Agree(conn, peer, {}), DOMAIN idToIdx = Live(conn), NEW f, FrameOK(f),
           Legal(f), f.typ = "RST_STREAM", NEW w \in BOOLEAN, NEW r \in ProcessFrame(conn, f, w)
    PROVE  (Served(f, w, r) \/ Reset(f, r)) /\ Kept(peer, PeerSent(f, r), Ending(f, r))
  <1> DEFINE id == f.id
             s == conn.streams[id]
             q == peer.streams[id]
             t == [s EXCEPT !.state = "Closed"]
             q2 == [q EXCEPT !.reset = TRUE]
             p2 == PeerSent(f, r)
             c2 == SetStream(conn, id, t)
  <1>1. /\ id \in StreamIds /\ conn.expecting = NoStream /\ \A i \in StreamIds : peer.streams[i].block = "none"
    BY NoBlockOpen DEF FrameOK
  <1>2. q \in PeerStream /\ r = ProcessRst(conn, f)
    BY <1>1, IdsPositive DEF PeerTyped, ProcessFrame, ProcessStreamFrame
  <1>4. /\ q2 \in PeerStream /\ q2.open = q.open /\ q2.clientEnded = q.clientEnded /\ q2.reset
        /\ q2.sent = q.sent /\ q2.req = q.req
        /\ q2.ended = q.ended /\ q2.block = q.block /\ q2.hdrs = q.hdrs
    <2> HIDE DEF q
    <2> QED BY <1>2 DEF PeerStream
  <1>5. p2 = OnStream(peer, id, q2)
    BY <1>1, IdsPositive DEF PeerSent, PeerTyped, OnStream
  <1> HIDE DEF q2, p2
  <1>6. /\ PeerTyped(p2) /\ p2.streams[id] = q2
        /\ \A i \in StreamIds : i # id => p2.streams[i] = peer.streams[i]
        /\ p2.credit = peer.credit /\ p2.window = peer.window /\ p2.last = peer.last
    BY <1>1, <1>4, <1>5, OnStreamFields
  <1>7. Kept(peer, p2, Ending(f, r))
    <2>1. /\ p2.streams[id].open = q.open /\ p2.streams[id].req = q.req
          /\ p2.streams[id].clientEnded = q.clientEnded
          /\ p2.streams[id].ended = q.ended /\ p2.streams[id].hdrs = q.hdrs /\ p2.streams[id].sent = q.sent
      BY <1>4, <1>6
    <2> QED BY <1>1, <1>6, <2>1, KeptOnStream
  <1>8. CASE id \in Live(conn)
    <2>1. s \in Stream /\ InStep(s, q, conn.iws)
      BY <1>8, StreamOK DEF Agree
    <2>2. t \in Stream /\ t.state = "Closed" /\ t.fin = s.fin
      <3> HIDE DEF s
      <3> QED BY <2>1 DEF Stream, StreamStates
    <2>3. r.conn = c2 /\ r.out = "err"
      <3>1. s.state # "Closed" /\ s.state # "Idle"
        BY <2>1 DEF InStep
      <3>2. r = Failed(c2)
        BY <1>2, <1>8, <3>1 DEF ProcessRst, RecvRst
      <3> QED BY <3>2 DEF Failed, Result
    <2> HIDE DEF t
    <2>4. /\ Live(c2) = Live(conn) /\ c2.streams[id] = t
          /\ \A i \in Live(conn) : i # id => c2.streams[i] = conn.streams[i]
          /\ c2.iws = conn.iws /\ c2.send = conn.send /\ c2.recv = conn.recv
          /\ c2.goaway = conn.goaway /\ c2.expecting = conn.expecting
      BY <1>8, SetStreamFields
    <2>5. ConnOK(c2)
      BY <1>8, <2>2, SetStreamOK
    <2> HIDE DEF c2
    <2>6. Culprits(c2) = {id}
      <3>1. id \in Culprits(c2)
        BY <1>8, <2>1, <2>2, <2>4 DEF Culprits, Complete, InStep
      <3>2. \A i \in Live(conn) : i # id => c2.streams[i].state # "Closed"
        BY <2>4 DEF Agree, InStep
      <3> QED BY <2>4, <3>1, <3>2 DEF Culprits
    <2>7. LinkAgrees(c2, p2)
      BY <1>6, <2>4 DEF Agree, LinkAgrees
    <2>8. Blocks(c2, p2)
      BY <1>1, <1>4, <1>6, <2>4 DEF Blocks
    <2>9. LetGo(c2, p2)
      BY <1>6, <1>8, <2>4 DEF Agree, LetGo
    <2>10. \A i \in Live(c2) \ {id} : InStep(c2.streams[i], p2.streams[i], c2.iws) /\ i <= p2.last
      BY <1>6, <2>4 DEF Agree, ConnOK
    <2>11. \A i \in {id} : i \in StreamIds =>
              p2.streams[i].block = "none" /\ (p2.streams[i].ended \/ p2.streams[i].reset \/ i > p2.last)
      BY <1>1, <1>4, <1>6
    <2>12. Agree(DropStreams(c2, {id}), p2, {})
      BY <2>5, <2>7, <2>8, <2>9, <2>10, <2>11, DropAgrees
    <2> QED BY <1>7, <1>8, <2>3, <2>6, <2>12 DEF Reset, p2
  <1>9. CASE id \notin Live(conn)
    <2>1. r.conn = conn /\ r.out = "continue"
      BY <1>2, <1>9 DEF ProcessRst, Result
    <2>2. LinkAgrees(conn, p2) /\ Blocks(conn, p2)
      BY <1>1, <1>4, <1>6 DEF Agree, LinkAgrees, Blocks
    <2>3. LetGo(conn, p2)
      BY <1>1, <1>4, <1>6 DEF Agree, LetGo
    <2>4. \A i \in Live(conn) : InStep(conn.streams[i], p2.streams[i], conn.iws) /\ i <= p2.last
      <3>1. Live(conn) \subseteq StreamIds
        BY DEF ConnOK
      <3> QED BY <1>6, <1>9, <3>1 DEF Agree
    <2>5. Agree(conn, p2, {})
      BY <2>2, <2>3, <2>4 DEF Agree
    <2> QED BY <1>7, <2>1, <2>5 DEF Served, p2
  <1> QED BY <1>8, <1>9

\* A frame that is dispatched: what is left when the streams a GOAWAY abandons are gone.
DoomedBy(c) == IF c.goaway = None THEN {} ELSE Doomed(c)
Goes(f, r) ==
    /\ r.out \in {"continue", "done"}
    /\ Agree(DropStreams(r.conn, DoomedBy(r.conn)), PeerSent(f, r), IF r.out = "done" THEN {f.id} ELSE {})
    /\ DoomedBy(r.conn) \subseteq {i \in Live(conn) : i > PeerSent(f, r).last}
    /\ r.out = "done" => f.id \notin DoomedBy(r.conn)

LEMMA GoawayServed ==
    ASSUME ConnOK(conn), PeerTyped(peer), Agree(conn, peer, {}), DOMAIN idToIdx = Live(conn), NEW f, FrameOK(f),
           Legal(f), f.typ = "GOAWAY", f.id = 0, NEW w \in BOOLEAN, NEW r \in ProcessFrame(conn, f, w)
    PROVE  Goes(f, r) /\ Kept(peer, PeerSent(f, r), Ending(f, r))
  <1> DEFINE p2 == PeerSent(f, r)
             strs == [i \in Live(conn) |-> IF i > f.last THEN [conn.streams[i] EXCEPT !.state = "Closed"]
                                           ELSE conn.streams[i]]
             c2 == r.conn
             ids == {i \in Live(conn) : i > f.last}
  <1>1. f.last \in Nat /\ f.last <= peer.last /\ conn.expecting = NoStream
        /\ \A i \in StreamIds : peer.streams[i].block = "none"
    BY NoBlockOpen DEF FrameOK, Legal
  <1>2. r = ProcessGoaway(conn, f)
    BY <1>1 DEF ProcessFrame, ProcessConnFrame
  <1>3. ConnOK(c2) /\ Live(c2) = Live(conn)
    BY <1>2, GoawayHandled DEF Handled
  <1>4. c2 = [conn EXCEPT !.goaway = f.last, !.streams = strs] /\ r.out = "continue"
    BY <1>2 DEF ProcessGoaway, Result
  <1>5. /\ \A i \in Live(conn) : ~(i > f.last) => strs[i] = conn.streams[i]
        /\ \A i \in Live(conn) : strs[i].fin = conn.streams[i].fin
    BY StreamOK DEF Stream
  <1> HIDE DEF strs, c2
  <1>6. /\ c2.streams = strs /\ c2.iws = conn.iws /\ c2.send = conn.send /\ c2.recv = conn.recv
        /\ c2.goaway = f.last /\ c2.expecting = conn.expecting
    BY <1>4 DEF ConnOK
  <1>7. p2 = [peer EXCEPT !.last = f.last]
    BY DEF PeerSent
  <1> HIDE DEF p2
  <1>8. PeerTyped(p2) /\ p2.streams = peer.streams /\ p2.credit = peer.credit /\ p2.window = peer.window
        /\ p2.last = f.last
    BY <1>1, <1>7 DEF PeerTyped
  <1>9. Kept(peer, p2, Ending(f, r))
    BY <1>1, <1>8 DEF Kept
  <1>10. DoomedBy(c2) = ids
    <2>1. c2.goaway # None
      BY <1>1, <1>6 DEF None
    <2>2. \A i \in Live(conn) : ~c2.streams[i].fin
      BY <1>5, <1>6 DEF Agree, InStep
    <2> QED BY <1>3, <1>6, <2>1, <2>2 DEF DoomedBy, Doomed
  <1>11. LinkAgrees(c2, p2)
    BY <1>1, <1>6, <1>8 DEF Agree, LinkAgrees, None
  <1>12. Blocks(c2, p2)
    BY <1>1, <1>3, <1>6, <1>8 DEF Blocks
  <1>13. LetGo(c2, p2)
    <2> SUFFICES ASSUME NEW i \in StreamIds \ Live(conn), peer.streams[i].open
                 PROVE  peer.streams[i].ended \/ peer.streams[i].reset \/ i > f.last
      BY <1>3, <1>8 DEF LetGo
    <2>1. peer.streams[i].ended \/ peer.streams[i].reset \/ i > peer.last
      BY DEF Agree, LetGo
    <2>2. i \in Int /\ peer.last \in Int
      BY IdsPositive DEF PeerTyped
    <2> QED BY <1>1, <2>1, <2>2
  <1>14. \A i \in Live(c2) \ ids : InStep(c2.streams[i], p2.streams[i], c2.iws) /\ i <= p2.last
    <2> SUFFICES ASSUME NEW i \in Live(conn), ~(i > f.last)
                 PROVE  InStep(c2.streams[i], p2.streams[i], c2.iws) /\ i <= p2.last
      BY <1>3
    <2>1. i \in Int
      BY IdsPositive DEF ConnOK
    <2> QED BY <1>1, <1>5, <1>6, <1>8, <2>1 DEF Agree
  <1>15. \A i \in ids : i \in StreamIds =>
            p2.streams[i].block = "none" /\ (p2.streams[i].ended \/ p2.streams[i].reset \/ i > p2.last)
    BY <1>1, <1>8
  <1> HIDE DEF ids
  <1>16. Agree(DropStreams(c2, ids), p2, {})
    BY <1>3, <1>11, <1>12, <1>13, <1>14, <1>15, DropAgrees
  <1> QED BY <1>4, <1>8, <1>9, <1>10, <1>16 DEF Goes, p2, c2, ids

\* While the two ends agree no stream is above the last GOAWAY.
LEMMA NoneDoomed ==
    ASSUME NEW c, ConnOK(c), NEW p, PeerTyped(p), NEW fin, Agree(c, p, fin), DOMAIN idToIdx = Live(c)
    PROVE  DoomedBy(c) = {} /\ DropStreams(c, DoomedBy(c)) = c
  <1>1. DoomedBy(c) = {}
    <2> SUFFICES ASSUME c.goaway # None, NEW i \in Doomed(c) PROVE FALSE
      BY DEF DoomedBy
    <2>1. i \in Live(c) /\ i > c.goaway /\ p.last = c.goaway /\ i \in Int /\ p.last \in Int
      <3>1. i \in Live(c) /\ i > c.goaway
        BY DEF Doomed
      <3>2. LinkAgrees(c, p)
        BY DEF Agree
      <3>3. i \in Int
        BY <3>1, IdsPositive DEF ConnOK
      <3> QED BY <3>1, <3>2, <3>3 DEF LinkAgrees, PeerTyped
    <2>2. CASE i \in fin
      <3>1. c.streams[i].fin /\ c.streams[i].resp # "none"
        BY <2>2 DEF Agree, Answered
      <3> QED BY <2>1, <3>1 DEF Doomed
    <2>3. CASE i \notin fin
      BY <2>1, <2>3 DEF Agree
    <2> QED BY <2>2, <2>3
  <1>2. DropStreams(c, {}) = c
    <2> DEFINE strs == [i \in Live(c) \ {} |-> c.streams[i]]
    <2>1. strs = c.streams
      BY DEF ConnOK
    <2>2. DropStreams(c, {}) = [c EXCEPT !.streams = strs]
      BY DEF DropStreams
    <2> HIDE DEF strs
    <2> QED BY <2>1, <2>2 DEF ConnOK
  <1> QED BY <1>1, <1>2

\* The kinds of frame there are, and which of them are the connection's.
LEMMA FrameKinds ==
    ASSUME NEW f \in Frames
    PROVE  /\ f.typ \in {"HEADERS", "CONTINUATION", "DATA", "WINDOW_UPDATE", "SETTINGS", "RST_STREAM",
                         "PUSH_PROMISE", "GOAWAY", "PING"}
           /\ f.typ \in {"SETTINGS", "PING"} => ~f.ack /\ f.id = 0
           /\ f.typ = "GOAWAY" => f.id = 0
  <1>1. CASE f \in HeadersFrames
    BY <1>1 DEF HeadersFrames, Headers
  <1>2. CASE f \in ContinuationFrames
    BY <1>2 DEF ContinuationFrames, Continuation
  <1>3. CASE f \in DataFrames
    BY <1>3 DEF DataFrames, Data
  <1>4. CASE f \in WindowUpdateFrames
    BY <1>4 DEF WindowUpdateFrames, WindowUpdate
  <1>5. CASE f \in SettingsFrames
    BY <1>5 DEF SettingsFrames, Settings
  <1>6. CASE f \in OtherFrames
    BY <1>6 DEF OtherFrames, Rst, PushPromise, Goaway, Ping
  <1> QED BY <1>1, <1>2, <1>3, <1>4, <1>5, <1>6 DEF Frames

\* Every frame a conforming peer sends is dispatched with the two ends still
\* agreeing, resets one stream, or meets a failing write.
LEMMA FrameServed ==
    ASSUME "splitend" \notin Features, ConnOK(conn), PeerTyped(peer), Agree(conn, peer, {}),
           DOMAIN idToIdx = Live(conn), NEW f \in Frames, Legal(f), NEW w \in BOOLEAN,
           NEW r \in ProcessFrame(conn, f, w)
    PROVE  /\ Kept(peer, PeerSent(f, r), Ending(f, r))
           /\ \/ Goes(f, r)
              \/ Reset(f, r)
              \/ Refused(f, w, r)
  <1>1. FrameOK(f)
    BY FramesOK
  <1>2. CASE f.typ = "GOAWAY"
    BY <1>1, <1>2, FrameKinds, GoawayServed
  <1>3. CASE f.typ # "GOAWAY"
    <2>1. f.typ # "PUSH_PROMISE"
      BY DEF Legal
    <2>2. (Served(f, w, r) \/ Reset(f, r)) /\ Kept(peer, PeerSent(f, r), Ending(f, r))
      <3>1. CASE f.typ = "HEADERS"
        BY <1>1, <3>1, HeadersServed
      <3>2. CASE f.typ = "CONTINUATION"
        BY <1>1, <3>2, ContinuationServed
      <3>3. CASE f.typ = "DATA"
        BY <1>1, <3>3, DataServed
      <3>4. CASE f.typ = "WINDOW_UPDATE"
        BY <1>1, <3>4, StreamCreditServed, LinkCreditServed
      <3>5. CASE f.typ = "SETTINGS"
        BY <1>1, <3>5, FrameKinds, SettingsServed
      <3>6. CASE f.typ = "RST_STREAM"
        BY <1>1, <3>6, RstServed
      <3>7. CASE f.typ = "PING"
        BY <1>1, <3>7, FrameKinds, PingServed
      <3> QED BY <1>3, <2>1, <3>1, <3>2, <3>3, <3>4, <3>5, <3>6, <3>7, FrameKinds
    <2>3. ASSUME r.out \in {"continue", "done"},
                 Agree(r.conn, PeerSent(f, r), IF r.out = "done" THEN {f.id} ELSE {})
          PROVE  Goes(f, r)
      <3>1. ConnOK(r.conn) /\ Live(r.conn) = Live(conn)
        BY <1>1, FrameHandled DEF Handled
      <3>2. PeerTyped(PeerSent(f, r))
        BY <2>2 DEF Kept
      <3>3. DoomedBy(r.conn) = {} /\ DropStreams(r.conn, DoomedBy(r.conn)) = r.conn
        BY <2>3, <3>1, <3>2, NoneDoomed
      <3> QED BY <2>3, <3>3 DEF Goes
    <2> QED BY <2>2, <2>3 DEF Served
  <1> QED BY <1>2, <1>3

----------------------------------------------------------------------------
(* The inductive invariant.                                                 *)

\* The past, which no agreement of the present shows: the requests the ledger
\* has, those among them that were answered and those a GOAWAY abandoned.
Remembered(p, next, hd, res, g) ==
    /\ \A i \in StreamIds :
        LET q == p.streams[i]
        IN  /\ q.open => i < next /\ q.req \in Reqs /\ q.req < hd
            /\ q.ended => q.open
            /\ q.open /\ res[q.req] = "goaway" => i > p.last
    /\ \A i, j \in StreamIds :
        p.streams[i].open /\ p.streams[j].open /\ p.streams[i].req = p.streams[j].req => i = j
    /\ \A r \in Reqs : res[r] = "ok" =>
        \E i \in StreamIds :
            LET q == p.streams[i]
            IN  q.open /\ q.req = r /\ q.ended /\ q.hdrs = "final" /\ q.sent = g[r]

\* The stream of a request is the one the peer has for it.
SameRequests(c, p, map) == \A i \in Live(c) : p.streams[i].req = map[i]

AgreeInv ==
    /\ PeerTyped(peer) /\ Remembered(peer, conn.nextId, head, results, got)
    /\ pc # "done" => Agree(conn, peer, {}) /\ SameRequests(conn, peer, idToIdx)

\* A frame and what came of it, as far as the past goes.
LEMMA ReadRemembered ==
    ASSUME NEW p, PeerTyped(p), NEW next, NEW hd, NEW res, NEW g, Remembered(p, next, hd, res, g),
           NEW q, NEW ends, Kept(p, q, ends),
           NEW res2, NEW g2,
           \A r \in Reqs : res2[r] = "ok" =>
              \/ res[r] = "ok" /\ g2[r] = g[r]
              \/ \E i \in StreamIds : /\ q.streams[i].open /\ q.streams[i].req = r /\ q.streams[i].ended
                                      /\ q.streams[i].hdrs = "final" /\ q.streams[i].sent = g2[r],
           \A r \in Reqs : res2[r] = "goaway" =>
              \/ res[r] = "goaway"
              \/ \E i \in StreamIds : q.streams[i].open /\ q.streams[i].req = r /\ i > q.last
    PROVE  Remembered(q, next, hd, res2, g2)
  <1>1. ASSUME NEW i \in StreamIds
        PROVE  /\ q.streams[i].open => i < next /\ q.streams[i].req \in Reqs /\ q.streams[i].req < hd
               /\ q.streams[i].ended => q.streams[i].open
    BY DEF Remembered, Kept
  <1>2. ASSUME NEW i \in StreamIds, NEW j \in StreamIds, q.streams[i].open, q.streams[j].open,
               q.streams[i].req = q.streams[j].req
        PROVE  i = j
    BY <1>2 DEF Remembered, Kept
  <1>3. ASSUME NEW i \in StreamIds, q.streams[i].open, res2[q.streams[i].req] = "goaway" PROVE i > q.last
    <2>1. q.streams[i].req \in Reqs
      BY <1>1, <1>3
    <2>2. CASE res[q.streams[i].req] = "goaway"
      <3>1. i > p.last /\ q.last <= p.last
        BY <1>3, <2>2 DEF Remembered, Kept
      <3>2. i \in Int /\ p.last \in Int /\ q.last \in Int
        BY IdsPositive DEF PeerTyped, Kept
      <3> QED BY <3>1, <3>2
    <2>3. CASE res[q.streams[i].req] # "goaway"
      BY <1>2, <1>3, <2>1, <2>3
    <2> QED BY <2>2, <2>3
  <1>4. ASSUME NEW r \in Reqs, res2[r] = "ok"
        PROVE  \E i \in StreamIds : /\ q.streams[i].open /\ q.streams[i].req = r /\ q.streams[i].ended
                                      /\ q.streams[i].hdrs = "final" /\ q.streams[i].sent = g2[r]
    <2>1. CASE res[r] = "ok" /\ g2[r] = g[r]
      <3>1. PICK i \in StreamIds : /\ p.streams[i].open /\ p.streams[i].req = r /\ p.streams[i].ended
                                    /\ p.streams[i].hdrs = "final" /\ p.streams[i].sent = g[r]
        BY <2>1 DEF Remembered
      <3> QED BY <2>1, <3>1 DEF Kept
    <2> QED BY <1>4, <2>1
  <1> QED BY <1>1, <1>2, <1>3, <1>4 DEF Remembered

\* Leaving run_multiplexed gives no request an answer, and abandons none.
LEMMA ReturnKeeps ==
    ASSUME NEW c, NEW res, Return(c, res), NEW r \in Reqs
    PROVE  /\ results'[r] = "ok" <=> res[r] = "ok"
           /\ results'[r] = "goaway" <=> res[r] = "goaway"
           /\ results'[r] = "fatal" <=> res[r] = "fatal"
  BY DEF Return, CollectResults

LEMMA FailAllKeeps ==
    ASSUME NEW res, NEW map, NEW hd, NEW r \in Reqs
    PROVE  LET res2 == FailAllOutstanding(res, map, hd)
           IN  /\ res2[r] = "ok" <=> res[r] = "ok"
               /\ res2[r] = "goaway" <=> res[r] = "goaway"
  BY DEF FailAllOutstanding

LEMMA KeptItself == ASSUME NEW p, PeerTyped(p) PROVE Kept(p, p, {})
  BY DEF Kept, PeerTyped

\* A step on which the driver only gives up.
LEMMA GivesUp ==
    ASSUME AgreeInv, pc' = "done", UNCHANGED <<peer, got>>, conn'.nextId = conn.nextId, head' >= head,
           conn.nextId \in Nat, head \in Nat, head' \in Nat,
           \A r \in Reqs : /\ results'[r] = "ok" => results[r] = "ok"
                           /\ results'[r] = "goaway" => results[r] = "goaway"
    PROVE  AgreeInv'
  <1>1. Remembered(peer, conn.nextId, head, results', got)
    BY KeptItself, ReadRemembered DEF AgreeInv
  <1>2. \A i \in StreamIds : peer.streams[i].open => peer.streams[i].req < head'
    BY <1>1 DEF Remembered, Reqs
  <1>3. Remembered(peer', conn'.nextId, head', results', got')
    BY <1>1, <1>2 DEF Remembered
  <1> QED BY <1>3 DEF AgreeInv

----------------------------------------------------------------------------
(* One lemma per action.                                                    *)

LEMMA DroppedFields ==
    ASSUME NEW c, ConnOK(c), NEW ids
    PROVE  \A i \in Live(c) \ ids : DropStreams(c, ids).streams[i] = c.streams[i]
  <1> DEFINE strs == [i \in Live(c) \ ids |-> c.streams[i]]
  <1>1. DropStreams(c, ids) = [c EXCEPT !.streams = strs] /\ \A i \in Live(c) \ ids : strs[i] = c.streams[i]
    BY DEF DropStreams
  <1> HIDE DEF strs
  <1> QED BY <1>1 DEF ConnOK

\* A frame that is dispatched and does not end the connection.
LEMMA GoesAgrees ==
    ASSUME DriverInv, AgreeInv, pc = "read", NEW f, NEW r, NEW ends, Handled(conn, f.id, r), Goes(f, r),
           Kept(peer, PeerSent(f, r), ends), AfterFrame(r, f.id), peer' = PeerSent(f, r), head' = head
    PROVE  /\ AgreeInv' /\ pc' # "done"
           /\ r.out = "done" /\ "trailers" \notin Features =>
                f.id \in Live(conn) /\ results'[peer.streams[f.id].req] = "ok"
           /\ \A q \in Reqs : results'[q] = "fatal" => results[q] = "fatal"
           /\ \A q \in Reqs : results'[q] # results[q] =>
                \/ \E i \in DoomedBy(r.conn) : idToIdx[i] = q
                \/ f.id \in DOMAIN idToIdx /\ idToIdx[f.id] = q
  <1> DEFINE doomed == DoomedBy(r.conn)
             c1 == DropStreams(r.conn, doomed)
             map1 == Without(idToIdx, doomed)
             res1 == [q \in Reqs |-> IF \E i \in doomed : idToIdx[i] = q THEN "goaway" ELSE results[q]]
             p2 == PeerSent(f, r)
             id == f.id
             done == r.out = "done" /\ id \in DOMAIN map1
  <1>1. /\ DOMAIN idToIdx = Live(conn) /\ Live(conn) \subseteq StreamIds /\ conn.nextId \in Nat
        /\ idToIdx \in [DOMAIN idToIdx -> Reqs] /\ results \in [Reqs -> Outcomes] /\ got \in [Reqs -> Nat]
        /\ \A i, j \in DOMAIN idToIdx : idToIdx[i] = idToIdx[j] => i = j
    BY DEF DriverInv, TypeOK, EveryRequestAccounted
  <1>2. /\ PeerTyped(peer) /\ Remembered(peer, conn.nextId, head, results, got)
        /\ Agree(conn, peer, {}) /\ SameRequests(conn, peer, idToIdx)
    BY DEF AgreeInv
  <1>3. /\ ConnOK(r.conn) /\ Live(r.conn) = Live(conn) /\ r.conn.nextId = conn.nextId
    BY DEF Handled
  <1>4. /\ doomed \subseteq Live(conn) /\ \A i \in doomed : i > p2.last
        /\ Agree(c1, p2, IF r.out = "done" THEN {id} ELSE {})
        /\ r.out \in {"continue", "done"} /\ PeerTyped(p2)
        /\ \A i \in StreamIds : p2.streams[i].open = peer.streams[i].open /\ p2.streams[i].req = peer.streams[i].req
    BY DEF Goes, Kept
  <1>5. /\ done => /\ conn' = DropStreams(c1, {id}) /\ idToIdx' = Without(map1, {id})
                   /\ results' = [res1 EXCEPT ![map1[id]] = BuildResponse(c1.streams[id])]
                   /\ got' = [got EXCEPT ![map1[id]] = c1.streams[id].body]
                   /\ pc' = "start"
        /\ ~done => /\ conn' = c1 /\ idToIdx' = map1 /\ results' = res1 /\ got' = got
                    /\ pc' = "pump"
    BY DEF AfterFrame, DoomedBy
  <1> HIDE DEF doomed
  <1>6. /\ DOMAIN map1 = Live(conn) \ doomed /\ \A i \in Live(conn) \ doomed : map1[i] = idToIdx[i]
        /\ res1 \in [Reqs -> Outcomes]
        /\ \A q \in Reqs : res1[q] # results[q] => res1[q] = "goaway" /\ \E i \in doomed : idToIdx[i] = q
    BY <1>1 DEF Without, Outcomes
  <1>7. ConnOK(c1) /\ Live(c1) = Live(conn) \ doomed /\ c1.nextId = conn.nextId
    BY <1>3, DropStreamsOK
  <1> HIDE DEF c1, map1, res1, p2, id
  <1>8. r.out = "done" => done
    BY <1>4, <1>6, <1>7 DEF Agree
  <1>9. ASSUME NEW q \in Reqs, res1[q] = "goaway", results[q] # "goaway"
        PROVE  \E i \in StreamIds : p2.streams[i].open /\ p2.streams[i].req = q /\ i > p2.last
    <2>1. PICK i \in doomed : idToIdx[i] = q
      BY <1>6, <1>9
    <2>2. i \in Live(conn) /\ i \in StreamIds /\ i > p2.last
      BY <1>1, <1>4
    <2>3. peer.streams[i].open /\ peer.streams[i].req = q
      BY <1>2, <2>1, <2>2 DEF Agree, InStep, SameRequests
    <2> QED BY <1>4, <2>2, <2>3
  <1>10. CASE done
    <2>1. id \in Live(c1) /\ Answered(c1.streams[id], p2.streams[id]) /\ map1[id] = idToIdx[id]
          /\ idToIdx[id] \in Reqs /\ id \in StreamIds /\ id \in Live(conn)
      BY <1>1, <1>4, <1>6, <1>7, <1>10 DEF Agree
    <2>2. /\ Agree(conn', peer', {}) /\ Live(conn') = Live(c1) \ {id} /\ conn'.nextId = conn.nextId
      <3>1. LinkAgrees(c1, p2) /\ Blocks(c1, p2) /\ LetGo(c1, p2)
        BY <1>4 DEF Agree
      <3>2. \A i \in Live(c1) \ {id} : InStep(c1.streams[i], p2.streams[i], c1.iws) /\ i <= p2.last
        BY <1>4, <1>10 DEF Agree
      <3>3. \A i \in {id} : i \in StreamIds =>
              p2.streams[i].block = "none" /\ (p2.streams[i].ended \/ p2.streams[i].reset \/ i > p2.last)
        BY <2>1 DEF Answered
      <3>4. Agree(DropStreams(c1, {id}), p2, {})
        BY <1>7, <3>1, <3>2, <3>3, DropAgrees
      <3> QED BY <1>5, <1>7, <1>10, <3>4, DropStreamsOK DEF p2
    <2>3. SameRequests(conn', peer', idToIdx')
      <3> SUFFICES ASSUME NEW i \in Live(conn') PROVE peer'.streams[i].req = idToIdx'[i]
        BY DEF SameRequests
      <3>1. i \in Live(conn) \ doomed /\ i # id /\ i \in StreamIds
        BY <1>1, <1>7, <2>2
      <3>2. idToIdx'[i] = idToIdx[i]
        BY <1>5, <1>6, <1>10, <3>1 DEF Without
      <3>3. peer.streams[i].req = idToIdx[i]
        BY <1>2, <3>1 DEF SameRequests
      <3> QED BY <1>4, <3>1, <3>2, <3>3 DEF p2
    <2>4. /\ results'[idToIdx[id]] = BuildResponse(c1.streams[id]) /\ got'[idToIdx[id]] = c1.streams[id].body
          /\ \A q \in Reqs : q # idToIdx[id] => results'[q] = res1[q] /\ got'[q] = got[q]
      BY <1>1, <1>5, <1>6, <1>10, <2>1
    <2>5. ASSUME NEW q \in Reqs, results'[q] = "ok"
          PROVE  \/ results[q] = "ok" /\ got'[q] = got[q]
                 \/ \E i \in StreamIds : /\ p2.streams[i].open /\ p2.streams[i].req = q /\ p2.streams[i].ended
                                         /\ p2.streams[i].hdrs = "final" /\ p2.streams[i].sent = got'[q]
      <3>1. CASE q = idToIdx[id]
        <4>1. p2.streams[id].req = q
          BY <1>2, <1>4, <2>1, <3>1 DEF SameRequests
        <4> QED BY <2>1, <2>4, <3>1, <4>1 DEF Answered
      <3>2. CASE q # idToIdx[id]
        BY <1>6, <2>4, <2>5, <3>2
      <3> QED BY <3>1, <3>2
    <2>6. BuildResponse(c1.streams[id]) \in {"ok", "badresponse"}
      BY DEF BuildResponse
    <2>7. ASSUME NEW q \in Reqs, results'[q] = "goaway"
          PROVE  \/ results[q] = "goaway"
                 \/ \E i \in StreamIds : p2.streams[i].open /\ p2.streams[i].req = q /\ i > p2.last
      BY <1>9, <2>4, <2>6, <2>7
    <2>8. Remembered(p2, conn.nextId, head, results', got')
      BY <1>2, <2>5, <2>7, ReadRemembered DEF p2
    <2>9. "trailers" \notin Features => results'[peer.streams[id].req] = "ok"
      <3>1. peer.streams[id].req = idToIdx[id]
        BY <1>2, <2>1 DEF SameRequests
      <3> QED BY <2>1, <2>4, <3>1 DEF Answered, BuildResponse
    <2>10. AgreeInv'
      BY <1>4, <2>2, <2>3, <2>8 DEF AgreeInv, p2
    <2> QED BY <1>1, <1>5, <1>6, <1>10, <2>1, <2>4, <2>6, <2>9, <2>10 DEF id, doomed
  <1>11. CASE ~done
    <2>1. conn' = c1 /\ idToIdx' = map1 /\ results' = res1 /\ got' = got /\ pc' = "pump" /\ r.out # "done"
      BY <1>5, <1>8, <1>11
    <2>2. Agree(conn', peer', {})
      BY <1>4, <2>1 DEF p2
    <2>3. SameRequests(conn', peer', idToIdx')
      <3> SUFFICES ASSUME NEW i \in Live(conn') PROVE peer'.streams[i].req = idToIdx'[i]
        BY DEF SameRequests
      <3>1. i \in Live(conn) \ doomed /\ i \in StreamIds
        BY <1>1, <1>7, <2>1
      <3>2. idToIdx'[i] = idToIdx[i]
        BY <1>6, <2>1, <3>1
      <3>3. peer.streams[i].req = idToIdx[i]
        BY <1>2, <3>1 DEF SameRequests
      <3> QED BY <1>4, <3>1, <3>2, <3>3 DEF p2
    <2>4. ASSUME NEW q \in Reqs, results'[q] = "ok" PROVE results[q] = "ok" /\ got'[q] = got[q]
      BY <1>6, <2>1, <2>4
    <2>5. ASSUME NEW q \in Reqs, results'[q] = "goaway"
          PROVE  \/ results[q] = "goaway"
                 \/ \E i \in StreamIds : p2.streams[i].open /\ p2.streams[i].req = q /\ i > p2.last
      BY <1>9, <2>1, <2>5
    <2>6. Remembered(p2, conn.nextId, head, results', got')
      BY <1>2, <2>4, <2>5, ReadRemembered DEF p2
    <2>7. AgreeInv'
      BY <1>4, <1>7, <2>1, <2>2, <2>3, <2>6 DEF AgreeInv, p2
    <2> QED BY <1>6, <2>1, <2>7 DEF doomed
  <1> QED BY <1>10, <1>11

\* RST_STREAM: its own request fails, and that is all.
LEMMA ResetAgrees ==
    ASSUME DriverInv, AgreeInv, pc = "read", NEW f, NEW r, NEW ends, Handled(conn, f.id, r), Reset(f, r),
           Kept(peer, PeerSent(f, r), ends), AfterError(r), peer' = PeerSent(f, r), head' = head
    PROVE  /\ AgreeInv' /\ pc' # "done"
           /\ \A q \in Reqs : results'[q] # results[q] =>
                results'[q] = "streamerr" /\ f.id \in DOMAIN idToIdx /\ idToIdx[f.id] = q
  <1> DEFINE p2 == PeerSent(f, r)
             id == f.id
  <1>1. /\ DOMAIN idToIdx = Live(conn) /\ Live(conn) \subseteq StreamIds
        /\ idToIdx \in [DOMAIN idToIdx -> Reqs] /\ results \in [Reqs -> Outcomes]
    BY DEF DriverInv, TypeOK, EveryRequestAccounted
  <1>2. /\ PeerTyped(peer) /\ Remembered(peer, conn.nextId, head, results, got)
        /\ Agree(conn, peer, {}) /\ SameRequests(conn, peer, idToIdx)
    BY DEF AgreeInv
  <1>3. id \in Live(conn) /\ Culprits(r.conn) = {id} /\ Agree(DropStreams(r.conn, {id}), p2, {})
    BY DEF Reset
  <1>4. Cardinality(Culprits(r.conn)) = 1 /\ (CHOOSE i \in Culprits(r.conn) : TRUE) = id
    BY <1>3, FS_Singleton
  <1>5. /\ conn' = DropStreams(r.conn, {id}) /\ idToIdx' = Without(idToIdx, {id})
        /\ results' = [results EXCEPT ![idToIdx[id]] = "streamerr"]
        /\ pc' = "start" /\ got' = got
    BY <1>4 DEF AfterError
  <1>6. Live(conn') = Live(conn) \ {id} /\ conn'.nextId = conn.nextId
    BY <1>5, DropStreamsOK DEF Handled
  <1>7. /\ PeerTyped(p2)
        /\ \A i \in StreamIds : p2.streams[i].open = peer.streams[i].open /\ p2.streams[i].req = peer.streams[i].req
    BY DEF Kept
  <1> HIDE DEF p2, id
  <1>8. SameRequests(conn', peer', idToIdx')
    <2> SUFFICES ASSUME NEW i \in Live(conn') PROVE peer'.streams[i].req = idToIdx'[i]
      BY DEF SameRequests
    <2>1. i \in Live(conn) \ {id} /\ i \in StreamIds
      BY <1>1, <1>6
    <2>2. idToIdx'[i] = idToIdx[i]
      BY <1>1, <1>5, <2>1 DEF Without
    <2>3. peer.streams[i].req = idToIdx[i]
      BY <1>2, <2>1 DEF SameRequests
    <2> QED BY <1>7, <2>1, <2>2, <2>3 DEF p2
  <1>9. idToIdx[id] \in Reqs
    BY <1>1, <1>3
  <1>10. \A q \in Reqs : results'[q] # results[q] => results'[q] = "streamerr" /\ q = idToIdx[id]
    BY <1>1, <1>5, <1>9
  <1>11. Remembered(p2, conn.nextId, head, results', got)
    <2>1. \A q \in Reqs : results'[q] = "ok" => results[q] = "ok"
      BY <1>10
    <2>2. \A q \in Reqs : results'[q] = "goaway" => results[q] = "goaway"
      BY <1>10
    <2> QED BY <1>2, <2>1, <2>2, ReadRemembered DEF p2
  <1>12. AgreeInv'
    BY <1>3, <1>5, <1>6, <1>7, <1>8, <1>11 DEF AgreeInv, p2
  <1> QED BY <1>1, <1>3, <1>5, <1>10, <1>12 DEF id

\* An error nothing blames on one stream ends the batch.
LEMMA FatalAgrees ==
    ASSUME DriverInv, AgreeInv, pc = "read", NEW r, NEW q, NEW ends, ConnOK(r.conn), r.conn.nextId = conn.nextId,
           Culprits(r.conn) = {}, Kept(peer, q, ends), AfterError(r), peer' = q, head' = head
    PROVE  AgreeInv' /\ pc' = "done"
  <1>1. Return(PruneCompletedStreams(r.conn), FailAllOutstanding(results, idToIdx, head)) /\ got' = got
    BY FS_EmptySet DEF AfterError
  <1>2. pc' = "done" /\ conn'.nextId = conn.nextId
    BY <1>1, PruneOK DEF Return
  <1>3. ASSUME NEW i \in Reqs
        PROVE  (results'[i] = "ok" => results[i] = "ok") /\ (results'[i] = "goaway" => results[i] = "goaway")
    BY <1>1, ReturnKeeps, FailAllKeeps
  <1>4. Remembered(q, conn.nextId, head, results', got)
    BY <1>3, ReadRemembered DEF AgreeInv
  <1> QED BY <1>2, <1>1, <1>4 DEF AgreeInv, Kept

\* What a frame from a conforming peer comes to.
LEMMA ReadAgrees ==
    ASSUME Orderly, DriverInv, AgreeInv, NEW f \in Frames, NEW w \in Writes, Legal(f), Read(f, w)
    PROVE  \E r \in ProcessFrame(conn, f, w) :
             /\ peer' = PeerSent(f, r) /\ Kept(peer, PeerSent(f, r), Ending(f, r))
             /\ AgreeInv'
             /\ \/ /\ Goes(f, r) /\ pc' # "done"
                   /\ r.out = "done" /\ "trailers" \notin Features =>
                        f.id \in Live(conn) /\ results'[peer.streams[f.id].req] = "ok"
                   /\ \A q \in Reqs : results'[q] = "fatal" => results[q] = "fatal"
                   /\ \A q \in Reqs : results'[q] # results[q] =>
                        \/ \E i \in DoomedBy(r.conn) : idToIdx[i] = q
                        \/ f.id \in DOMAIN idToIdx /\ idToIdx[f.id] = q
                \/ /\ Reset(f, r) /\ pc' # "done"
                   /\ \A q \in Reqs : results'[q] # results[q] =>
                        results'[q] = "streamerr" /\ f.id \in DOMAIN idToIdx /\ idToIdx[f.id] = q
                \/ Refused(f, w, r) /\ pc' = "done"
  <1>1. /\ ConnOK(conn) /\ PeerTyped(peer) /\ Agree(conn, peer, {}) /\ DOMAIN idToIdx = Live(conn)
        /\ pc = "read" /\ head' = head /\ frame' = f
    BY DEF Read, AgreeInv, DriverInv, TypeOK, ConnOK, EveryRequestAccounted
  <1>2. w \in BOOLEAN
    BY Zenon DEF Writes
  <1>3. PICK r \in ProcessFrame(conn, f, w) :
            /\ IF r.out = "err" THEN AfterError(r) ELSE AfterFrame(r, f.id)
            /\ peer' = PeerSent(f, r)
    BY DEF Read, Orderly
  <1>4. Handled(conn, f.id, r)
    BY <1>1, <1>2, FramesOK, FrameHandled
  <1>5. /\ Kept(peer, PeerSent(f, r), Ending(f, r))
        /\ \/ Goes(f, r)
           \/ Reset(f, r)
           \/ Refused(f, w, r)
    BY <1>1, <1>2, FrameServed DEF Orderly
  <1>6. CASE Goes(f, r)
    <2>1. AfterFrame(r, f.id)
      BY <1>3, <1>6 DEF Goes
    <2> QED BY <1>1, <1>3, <1>4, <1>5, <1>6, <2>1, GoesAgrees
  <1>7. CASE Reset(f, r)
    <2>1. AfterError(r)
      BY <1>3, <1>7 DEF Reset
    <2> QED BY <1>1, <1>3, <1>4, <1>5, <1>7, <2>1, ResetAgrees
  <1>8. CASE Refused(f, w, r)
    <2>1. ConnOK(r.conn) /\ r.conn.nextId = conn.nextId
      BY <1>4 DEF Handled
    <2> QED BY <1>1, <1>3, <1>5, <1>8, <2>1, FatalAgrees DEF Refused
  <1> QED BY <1>5, <1>6, <1>7, <1>8

LEMMA ReadFailsAgrees ==
    ASSUME DriverInv, AgreeInv, ReadFails
    PROVE  AgreeInv' /\ pc' = "done"
  <1>1. /\ ConnOK(conn) /\ PeerTyped(peer) /\ Agree(conn, peer, {}) /\ pc = "read"
    BY DEF ReadFails, AgreeInv, DriverInv, TypeOK, ConnOK
  <1>2. AfterError(Failed(conn)) /\ Failed(conn).conn = conn /\ head' = head /\ peer' = peer
    BY DEF ReadFails, Failed, Result
  <1>3. Culprits(conn) = {}
    BY <1>1, NoCulprits
  <1>4. Kept(peer, peer, {})
    BY <1>1, KeptItself
  <1> QED BY <1>1, <1>2, <1>3, <1>4, FatalAgrees

LEMMA InitAgrees == Init => AgreeInv
  <1> SUFFICES ASSUME Init PROVE AgreeInv
    OBVIOUS
  <1>1. PICK m, v, z \in Nat, snd \in 0..WindowMax, rcv \in (OurInitialWindow \div 2)..OurInitialWindow, n \in {1, 3} :
           conn = IdleConnection(m, v, z, snd, rcv, n)
    BY StartsIdle
  <1>2. /\ Live(conn) = {} /\ conn.recv = rcv /\ conn.send = snd
        /\ conn.goaway = None /\ conn.expecting = NoStream
    <2> DEFINE empty == [i \in {} |-> NewStream(0)]
    <2>1. DOMAIN empty = {}
      OBVIOUS
    <2>2. conn = [mcs |-> m, iws |-> v, mfs |-> z, send |-> snd, recv |-> rcv,
                  streams |-> empty, nextId |-> n, goaway |-> None, expecting |-> NoStream]
      BY <1>1 DEF IdleConnection
    <2> HIDE DEF empty
    <2> QED BY <2>1, <2>2 DEF Live
  <1>3. /\ peer.credit = rcv /\ peer.window = snd /\ peer.last = StreamIdLimit
        /\ \A i \in StreamIds : peer.streams[i] = FreshPeerStream
        /\ \A r \in Reqs : results[r] = "none"
    BY <1>2 DEF Init
  <1>b. rcv \in Int /\ snd \in Int /\ rcv >= OurInitialWindow \div 2 /\ snd >= 0
    BY WindowAssumption
  <1>4. FreshPeerStream \in PeerStream /\ ~FreshPeerStream.open /\ ~FreshPeerStream.ended
        /\ FreshPeerStream.block = "none"
    BY DEF FreshPeerStream, PeerStream
  <1>5. PeerTyped(peer)
    <2> DEFINE strs == [i \in StreamIds |-> FreshPeerStream]
    <2>1. strs \in [StreamIds -> PeerStream]
      BY <1>4
    <2>2. peer = [credit |-> rcv, window |-> snd, last |-> StreamIdLimit, streams |-> strs]
      BY <1>2 DEF Init
    <2> HIDE DEF strs
    <2> QED BY <1>b, <2>1, <2>2, SizeAssumption DEF PeerTyped
  <1>6. Remembered(peer, conn.nextId, head, results, got)
    BY <1>3, <1>4 DEF Remembered
  <1>7. LinkAgrees(conn, peer)
    BY <1>2, <1>3, <1>b DEF LinkAgrees
  <1>8. Agree(conn, peer, {})
    BY <1>2, <1>3, <1>4, <1>7 DEF Agree, Blocks, LetGo
  <1> QED BY <1>2, <1>5, <1>6, <1>8 DEF AgreeInv, SameRequests

\* A new stream, as stage_request_on leaves it.
NewRequest(c, len) == [NewStream(c.iws) EXCEPT !.state = SendData(@, len = 0), !.pending = len]

LEMMA OpenedFields ==
    ASSUME ConnOK(conn), conn.nextId \notin Live(conn), NEW len \in Nat
    PROVE  LET id == conn.nextId
               c1 == OpenStream(conn)
               c2 == StageRequest(c1, id, len)
           IN  /\ c2.streams[id] = NewRequest(conn, len)
               /\ \A i \in Live(conn) : c1.streams[i] = conn.streams[i] /\ c2.streams[i] = conn.streams[i]
               /\ c1.iws = conn.iws /\ c1.send = conn.send /\ c1.recv = conn.recv
               /\ c1.goaway = conn.goaway /\ c1.expecting = conn.expecting
               /\ c2.iws = conn.iws /\ c2.send = conn.send /\ c2.recv = conn.recv
               /\ c2.goaway = conn.goaway /\ c2.expecting = conn.expecting
  <1> DEFINE id == conn.nextId
             new == NewStream(conn.iws)
             strs == [i \in Live(conn) \cup {id} |-> IF i = id THEN new ELSE conn.streams[i]]
             c1 == OpenStream(conn)
  <1> HIDE DEF new
  <1>1. /\ DOMAIN strs = Live(conn) \cup {id} /\ strs[id] = new
        /\ \A i \in Live(conn) : strs[i] = conn.streams[i]
    OBVIOUS
  <1>2. c1 = [conn EXCEPT !.streams = strs, !.nextId = id + 2]
    BY DEF OpenStream, SetStream, ConnOK, new
  <1> HIDE DEF strs
  <1>3. /\ c1.streams = strs /\ Live(c1) = Live(conn) \cup {id} /\ c1.streams[id] = new
        /\ c1.iws = conn.iws /\ c1.send = conn.send /\ c1.recv = conn.recv
        /\ c1.goaway = conn.goaway /\ c1.expecting = conn.expecting
        /\ DOMAIN c1 = DOMAIN conn
    BY <1>1, <1>2 DEF ConnOK, Live
  <1> HIDE DEF c1
  <1> DEFINE s2 == NewRequest(conn, len)
             strs2 == [i \in Live(c1) \cup {id} |-> IF i = id THEN s2 ELSE c1.streams[i]]
             c2 == StageRequest(c1, id, len)
  <1>4. c2 = SetStream(c1, id, s2)
    BY <1>3 DEF StageRequest, NewRequest, new
  <1> HIDE DEF s2
  <1>5. strs2[id] = s2 /\ \A i \in Live(conn) : strs2[i] = conn.streams[i]
    BY <1>1, <1>3
  <1>6. c2 = [c1 EXCEPT !.streams = strs2]
    BY <1>4 DEF SetStream
  <1> HIDE DEF strs2, c2
  <1>7. /\ c2.streams = strs2 /\ c2.iws = c1.iws /\ c2.send = c1.send /\ c2.recv = c1.recv
        /\ c2.goaway = c1.goaway /\ c2.expecting = c1.expecting
    BY <1>3, <1>6 DEF ConnOK
  <1> QED BY <1>1, <1>3, <1>5, <1>7 DEF c1, c2, s2

\* The two ends agree on a connection whose streams are as they were.
LEMMA StreamsAsWere ==
    ASSUME NEW c, NEW p, Agree(c, p, {}), NEW d, Live(d) = Live(c), \A i \in Live(c) : d.streams[i] = c.streams[i],
           d.iws = c.iws, d.send = c.send, d.recv = c.recv, d.goaway = c.goaway, d.expecting = c.expecting
    PROVE  Agree(d, p, {})
  <1>1. LinkAgrees(d, p) /\ Blocks(d, p) /\ LetGo(d, p)
    BY DEF Agree, LinkAgrees, Blocks, LetGo
  <1> QED BY <1>1 DEF Agree

\* What the ledger has of a request that was just sent.
FreshRequest(len, iws, r) ==
    [FreshPeerStream EXCEPT !.open = TRUE, !.req = r, !.clientEnded = (len = 0),
                            !.credit = OurInitialWindow, !.window = iws]

LEMMA FreshInStep ==
    ASSUME NEW c, ConnOK(c), NEW len \in Nat, NEW r \in Nat
    PROVE  /\ InStep(NewRequest(c, len), FreshRequest(len, c.iws, r), c.iws)
           /\ FreshRequest(len, c.iws, r) \in PeerStream
           /\ FreshRequest(len, c.iws, r).open /\ FreshRequest(len, c.iws, r).req = r
           /\ ~FreshRequest(len, c.iws, r).ended /\ FreshRequest(len, c.iws, r).block = "none"
  <1> DEFINE p == FreshRequest(len, c.iws, r)
             s == NewRequest(c, len)
  <1>1. c.iws \in Nat
    BY DEF ConnOK
  <1>2. /\ p.open /\ p.req = r /\ p.clientEnded = (len = 0) /\ p.credit = OurInitialWindow /\ p.window = c.iws
        /\ ~p.ended /\ ~p.reset /\ p.block = "none" /\ p.hdrs = "none" /\ p.sent = 0
    BY DEF FreshRequest, FreshPeerStream
  <1>3. p \in PeerStream
    <2> DEFINE x(b) == [FreshPeerStream EXCEPT !.open = TRUE, !.req = r, !.clientEnded = b,
                                               !.credit = OurInitialWindow, !.window = c.iws]
    <2>1. x(TRUE) \in PeerStream /\ x(FALSE) \in PeerStream
      <3>1. FreshPeerStream \in PeerStream
        BY DEF FreshPeerStream, PeerStream
      <3>2. OurInitialWindow \in Int /\ c.iws \in Int
        BY <1>1, WindowAssumption
      <3>3. ASSUME NEW b \in BOOLEAN PROVE x(b) \in PeerStream
        BY <3>1, <3>2 DEF PeerStream
      <3> HIDE DEF x
      <3> QED BY <3>3
    <2>2. p = x(len = 0)
      BY DEF FreshRequest
    <2>3. (len = 0) \in {TRUE, FALSE}
      OBVIOUS
    <2> HIDE DEF p, x
    <2>4. PICK b \in {TRUE, FALSE} : b = (len = 0) /\ p = x(b)
      BY <2>2, <2>3, Zenon
    <2> QED BY <2>1, <2>4
  <1>4. /\ s.state = (IF len = 0 THEN "HalfClosedLocal" ELSE "Open") /\ s.pending = len
        /\ s.recv = OurInitialWindow /\ s.send = c.iws /\ s.basis = c.iws /\ s.resp = "none" /\ s.body = 0
        /\ s.hdrLen = 0 /\ s.fin = FALSE
    BY DEF NewRequest, NewStream, SendData
  <1> HIDE DEF p, s
  <1>5. InStep(s, p, c.iws)
    <2>1. s.recv >= OurInitialWindow \div 2 /\ s.hdrLen < MaxHeadersBuf
      BY <1>4, WindowAssumption, SizeAssumption
    <2>2. p.clientEnded <=> s.pending = 0
      BY <1>2, <1>4
    <2>3. s.state = IF p.clientEnded THEN "HalfClosedLocal" ELSE "Open"
      BY <1>2, <1>4
    <2> QED BY <1>2, <1>4, <2>1, <2>2, <2>3 DEF InStep
  <1> QED BY <1>2, <1>3, <1>5 DEF p, s

LEMMA StartAgrees ==
    ASSUME DriverInv, AgreeInv, NEW w, StartOne(w)
    PROVE  /\ AgreeInv' /\ pc' # "done"
           /\ \A r \in Reqs : results'[r] = "fatal" => results[r] = "fatal" \/ ~w
           /\ peer' # peer => /\ CanOpenStream(conn) /\ conn.nextId \in StreamIds \ Live(conn)
                              /\ \A i \in StreamIds : i # conn.nextId => peer'.streams[i] = peer.streams[i]
                              /\ ~peer'.streams[conn.nextId].ended
  <1> DEFINE id == conn.nextId
  <1>1. /\ ConnOK(conn) /\ head \in Reqs /\ head \in Nat /\ BodyLen[head] \in Nat /\ IdsIssued
        /\ results \in [Reqs -> Outcomes] /\ conn.nextId \in Nat
    BY BatchAssumption DEF DriverInv, TypeOK, ConnOK, StartOne, Reqs
  <1>2. /\ DOMAIN idToIdx = Live(conn) /\ Live(conn) \subseteq StreamIds /\ results[head] = "none"
    BY <1>1 DEF DriverInv, TypeOK, EveryRequestAccounted, StartOne
  <1>3. /\ PeerTyped(peer) /\ Remembered(peer, conn.nextId, head, results, got)
        /\ Agree(conn, peer, {}) /\ SameRequests(conn, peer, idToIdx)
    BY DEF AgreeInv, StartOne
  <1>4. pc' = pc /\ pc = "start" /\ head' = head + 1 /\ got' = got
    BY DEF StartOne
  <1>5. ASSUME NEW next, next \in {id, id + 2}, NEW res,
               \A r \in Reqs : /\ res[r] = "ok" => results[r] = "ok"
                               /\ res[r] = "goaway" => results[r] = "goaway"
        PROVE  Remembered(peer, next, head + 1, res, got)
    <2>1. \A i \in StreamIds : peer.streams[i].open => i < next
      <3>1. \A i \in StreamIds : peer.streams[i].open => i < id
        BY <1>3 DEF Remembered
      <3> HIDE DEF id
      <3> QED BY <3>1, <1>1, <1>5, IdsPositive DEF id
    <2>2. \A i \in StreamIds : peer.streams[i].open => peer.streams[i].req \in Reqs /\ peer.streams[i].req < head + 1
      BY <1>1, <1>3 DEF Remembered, Reqs
    <2> QED BY <1>3, <1>5, <2>1, <2>2 DEF Remembered
  <1>6. CASE CanOpenStream(conn) /\ w
    <2> DEFINE q == FreshRequest(BodyLen[head], conn.iws, head)
               p2 == OnStream(peer, id, q)
               c2 == StageRequest(OpenStream(conn), id, BodyLen[head])
    <2>1. /\ conn' = c2 /\ idToIdx' = With(idToIdx, id, head) /\ results' = results /\ peer' = p2
      BY <1>6 DEF StartOne, OnStream, FreshRequest
    <2>2. id \in StreamIds /\ id \notin Live(conn) /\ Live(c2) = Live(conn) \cup {id} /\ c2.nextId = id + 2
      BY <1>1, <1>6, OpenStreamOK
    <2>3. /\ c2.streams[id] = NewRequest(conn, BodyLen[head])
          /\ \A i \in Live(conn) : c2.streams[i] = conn.streams[i]
          /\ c2.iws = conn.iws /\ c2.send = conn.send /\ c2.recv = conn.recv
          /\ c2.goaway = conn.goaway /\ c2.expecting = conn.expecting
      BY <1>1, <2>2, OpenedFields
    <2>4. /\ InStep(c2.streams[id], q, conn.iws) /\ q \in PeerStream /\ q.open /\ q.req = head /\ ~q.ended
          /\ q.block = "none"
      BY <1>1, <2>3, FreshInStep
    <2> HIDE DEF q, p2, c2
    <2>5. /\ PeerTyped(p2) /\ p2.streams[id] = q
          /\ \A i \in StreamIds : i # id => p2.streams[i] = peer.streams[i]
          /\ p2.credit = peer.credit /\ p2.window = peer.window /\ p2.last = peer.last
      <3> HIDE DEF id
      <3> QED BY <1>3, <2>2, <2>4, OnStreamFields DEF p2
    <2>6. ~peer.streams[id].open /\ ~peer.streams[id].ended /\ peer.streams[id].block = "none"
      <3>1. ~peer.streams[id].open
        BY <1>1, <1>3, <2>2 DEF Remembered
      <3>2. ~peer.streams[id].ended
        BY <1>3, <2>2, <3>1 DEF Remembered
      <3> QED BY <1>3, <2>2, <3>1, <3>2 DEF Agree, Blocks
    <2>7. id <= peer.last
      <3>1. id < StreamIdLimit /\ (conn.goaway = None \/ id <= conn.goaway)
        BY <1>6 DEF CanOpenStream
      <3> QED BY <1>1, <1>3, <3>1, SizeAssumption DEF Agree, LinkAgrees
    <2>8. LinkAgrees(c2, p2)
      BY <1>3, <2>3, <2>5 DEF Agree, LinkAgrees
    <2>9. Blocks(c2, p2)
      <3>1. Blocks(conn, peer) /\ conn.expecting \in StreamIds \cup {NoStream}
        BY <1>1, <1>3 DEF Agree, ConnOK
      <3>2. conn.expecting # id
        BY <2>6, <2>2, IdsPositive, <3>1 DEF Blocks, NoStream
      <3> QED BY <2>2, <2>3, <2>4, <2>5, <2>6, <3>1, <3>2 DEF Blocks
    <2>10. LetGo(c2, p2)
      BY <1>3, <2>2, <2>5 DEF Agree, LetGo
    <2>11. Agree(c2, p2, {})
      <3>1. ASSUME NEW i \in Live(c2) PROVE InStep(c2.streams[i], p2.streams[i], c2.iws) /\ i <= p2.last
        <4>1. CASE i = id
          BY <2>3, <2>4, <2>5, <2>7, <4>1
        <4>2. CASE i # id
          BY <1>2, <1>3, <2>2, <2>3, <2>5, <4>2 DEF Agree
        <4> QED BY <4>1, <4>2
      <3> QED BY <2>8, <2>9, <2>10, <3>1 DEF Agree
    <2>12. SameRequests(c2, p2, idToIdx')
      <3> SUFFICES ASSUME NEW i \in Live(c2) PROVE p2.streams[i].req = idToIdx'[i]
        BY DEF SameRequests
      <3>1. CASE i = id
        BY <2>1, <2>4, <2>5, <3>1 DEF With
      <3>2. CASE i # id
        BY <1>2, <1>3, <2>1, <2>2, <2>5, <3>2 DEF With, SameRequests
      <3> QED BY <3>1, <3>2
    <2>13. Remembered(p2, id + 2, head + 1, results, got)
      <3>1. Remembered(peer, id + 2, head + 1, results, got)
        BY <1>5
      <3>2. id < id + 2 /\ head < head + 1
        BY <1>1
      <3>3. \A i \in StreamIds : i # id => (p2.streams[i].open => p2.streams[i].req # head)
        BY <1>1, <1>3, <2>5 DEF Remembered, Reqs
      <3>4. ASSUME NEW i \in StreamIds
            PROVE  /\ p2.streams[i].open => /\ i < id + 2 /\ p2.streams[i].req \in Reqs
                                            /\ p2.streams[i].req < head + 1
                   /\ p2.streams[i].ended => p2.streams[i].open
                   /\ p2.streams[i].open /\ results[p2.streams[i].req] = "goaway" => i > p2.last
        <4>1. CASE i = id
          BY <1>1, <1>2, <2>4, <2>5, <3>2, <4>1
        <4>2. CASE i # id
          BY <2>5, <3>1, <4>2 DEF Remembered
        <4> QED BY <4>1, <4>2
      <3>5. ASSUME NEW i \in StreamIds, NEW j \in StreamIds, p2.streams[i].open, p2.streams[j].open,
                   p2.streams[i].req = p2.streams[j].req
            PROVE  i = j
        <4>1. CASE i # id /\ j # id
          BY <2>5, <3>1, <3>5, <4>1 DEF Remembered
        <4> QED BY <2>4, <2>5, <3>3, <3>5, <4>1
      <3>6. ASSUME NEW r \in Reqs, results[r] = "ok"
            PROVE  \E i \in StreamIds : /\ p2.streams[i].open /\ p2.streams[i].req = r /\ p2.streams[i].ended
                                        /\ p2.streams[i].hdrs = "final" /\ p2.streams[i].sent = got[r]
        <4>1. PICK i \in StreamIds : /\ peer.streams[i].open /\ peer.streams[i].req = r /\ peer.streams[i].ended
                                     /\ peer.streams[i].hdrs = "final" /\ peer.streams[i].sent = got[r]
          BY <3>1, <3>6 DEF Remembered
        <4>2. i # id
          BY <2>6, <4>1
        <4> QED BY <2>5, <4>1, <4>2
      <3> QED BY <3>4, <3>5, <3>6 DEF Remembered
    <2>14. AgreeInv'
      BY <1>4, <2>1, <2>2, <2>5, <2>11, <2>12, <2>13 DEF AgreeInv
    <2> QED BY <1>4, <1>6, <2>1, <2>2, <2>4, <2>5, <2>14
  <1>7. CASE CanOpenStream(conn) /\ ~w
    <2> DEFINE c1 == OpenStream(conn)
               c2 == DropStreams(c1, {id})
    <2>1. conn' = c2 /\ results' = [results EXCEPT ![head] = "fatal"] /\ idToIdx' = idToIdx /\ peer' = peer
      BY <1>7 DEF StartOne
    <2>2. /\ id \notin Live(conn) /\ ConnOK(c1) /\ Live(c1) = Live(conn) \cup {id} /\ c1.nextId = id + 2
      BY <1>1, <1>7, BatchAssumption, OpenStreamOK
    <2>3. /\ \A i \in Live(conn) : c1.streams[i] = conn.streams[i]
          /\ c1.iws = conn.iws /\ c1.send = conn.send /\ c1.recv = conn.recv
          /\ c1.goaway = conn.goaway /\ c1.expecting = conn.expecting
      BY <1>1, <2>2, OpenedFields
    <2> HIDE DEF c1
    <2>4. Live(c2) = Live(conn) /\ c2.nextId = id + 2
      <3>1. Live(c2) = Live(c1) \ {id} /\ c2.nextId = c1.nextId
        BY <2>2, DropStreamsOK
      <3> HIDE DEF c2, id
      <3> QED BY <2>2, <3>1
    <2>5. /\ \A i \in Live(conn) : c2.streams[i] = conn.streams[i]
          /\ c2.iws = conn.iws /\ c2.send = conn.send /\ c2.recv = conn.recv
          /\ c2.goaway = conn.goaway /\ c2.expecting = conn.expecting
      <3>1. \A i \in Live(conn) : c2.streams[i] = c1.streams[i]
        BY <2>2, DroppedFields
      <3>2. /\ c2.iws = c1.iws /\ c2.send = c1.send /\ c2.recv = c1.recv
            /\ c2.goaway = c1.goaway /\ c2.expecting = c1.expecting
        BY <2>2 DEF DropStreams, ConnOK
      <3> QED BY <2>3, <3>1, <3>2
    <2> HIDE DEF c2
    <2>6. Agree(c2, peer, {})
      BY <1>3, <2>4, <2>5, StreamsAsWere
    <2>7. Remembered(peer, id + 2, head + 1, results', got)
      BY <1>1, <1>5, <2>1
    <2>8. SameRequests(c2, peer, idToIdx)
      BY <1>3, <2>4 DEF SameRequests
    <2>9. AgreeInv'
      BY <1>3, <1>4, <2>1, <2>4, <2>6, <2>7, <2>8 DEF AgreeInv
    <2> QED BY <1>4, <1>7, <2>1, <2>9
  <1>8. CASE ~CanOpenStream(conn)
    <2>1. conn' = conn /\ results' = [results EXCEPT ![head] = "noopen"] /\ idToIdx' = idToIdx /\ peer' = peer
      BY <1>8 DEF StartOne
    <2>2. Remembered(peer, id, head + 1, results', got)
      BY <1>1, <1>5, <2>1
    <2>3. AgreeInv'
      BY <1>3, <1>4, <2>1, <2>2 DEF AgreeInv
    <2> QED BY <1>1, <1>4, <2>1, <2>3
  <1> QED BY <1>6, <1>7, <1>8

----------------------------------------------------------------------------
(* Sending a request's body, and the exits of the loop.                     *)

\* The ledger after the client sent n bytes of the body on stream id.
Charged(p, id, n, last) ==
    [p EXCEPT !.window = @ - n, !.streams[id].window = @ - n, !.streams[id].clientEnded = @ \/ last]

LEMMA ChargedFields ==
    ASSUME NEW p, PeerTyped(p), NEW id \in StreamIds, NEW n \in Int, NEW last \in BOOLEAN
    PROVE  LET u == Charged(p, id, n, last)
               q == p.streams[id]
               t == u.streams[id]
           IN  /\ PeerTyped(u) /\ u.window = p.window - n /\ u.credit = p.credit /\ u.last = p.last
               /\ \A i \in StreamIds : i # id => u.streams[i] = p.streams[i]
               /\ t.window = q.window - n /\ t.clientEnded = (q.clientEnded \/ last)
               /\ t.open = q.open /\ t.ended = q.ended /\ t.reset = q.reset /\ t.block = q.block
               /\ t.hdrs = q.hdrs /\ t.sent = q.sent /\ t.credit = q.credit /\ t.req = q.req
  <1> DEFINE q == p.streams[id]
             x(b) == [q EXCEPT !.window = @ - n, !.clientEnded = b]
             y(b) == [p EXCEPT !.window = @ - n, !.streams[id] = x(b)]
             strs(b) == [p.streams EXCEPT ![id] = x(b)]
  <1>1. q \in PeerStream /\ p.window - n \in Int /\ q.window - n \in Int
    BY DEF PeerTyped, PeerStream
  <1>2. ASSUME NEW b \in BOOLEAN
        PROVE  /\ x(b) \in PeerStream /\ x(b).window = q.window - n /\ x(b).clientEnded = b
               /\ x(b).open = q.open /\ x(b).ended = q.ended /\ x(b).reset = q.reset /\ x(b).block = q.block
               /\ x(b).hdrs = q.hdrs /\ x(b).sent = q.sent /\ x(b).credit = q.credit /\ x(b).req = q.req
    BY <1>1 DEF PeerStream
  <1>3. Charged(p, id, n, last) = y(q.clientEnded \/ last)
    BY <1>1 DEF Charged, PeerTyped, PeerStream
  <1>4. PICK b \in BOOLEAN : b = (q.clientEnded \/ last)
    OBVIOUS
  <1>5. Charged(p, id, n, last) = y(b)
    BY <1>3, <1>4, Zenon
  <1> HIDE DEF q, x
  <1>6. strs(b) \in [StreamIds -> PeerStream] /\ strs(b)[id] = x(b)
        /\ \A i \in StreamIds : i # id => strs(b)[i] = p.streams[i]
    BY <1>2 DEF PeerTyped
  <1>7. y(b) = [p EXCEPT !.window = p.window - n, !.streams = strs(b)]
    BY DEF PeerTyped
  <1> HIDE DEF strs, y
  <1>8. PeerTyped(y(b)) /\ y(b).window = p.window - n /\ y(b).streams = strs(b) /\ y(b).credit = p.credit
        /\ y(b).last = p.last
    BY <1>1, <1>6, <1>7 DEF PeerTyped
  <1> DEFINE u == Charged(p, id, n, last)
  <1>9. /\ PeerTyped(u) /\ u.window = p.window - n /\ u.credit = p.credit /\ u.last = p.last
        /\ \A i \in StreamIds : i # id => u.streams[i] = p.streams[i]
        /\ u.streams[id] = x(b)
    BY <1>5, <1>6, <1>8
  <1> HIDE DEF u
  <1>10. u.streams[id].clientEnded = (q.clientEnded \/ last)
    BY <1>2, <1>4, <1>9, Zenon
  <1> QED BY <1>2, <1>9, <1>10 DEF q, u

\* One DATA frame of a request body, on a stream whose request has not ended.
ChunkSent(c, id, n, last) ==
    LET c1 == SendChunk(c, id, n, last)
    IN  SetStream(c1, id, [c1.streams[id] EXCEPT !.pending = @ - n])

LEMMA ChunkSentFields ==
    ASSUME NEW c, ConnOK(c), NEW id \in Live(c), c.streams[id].state = "Open", NEW n \in Int, NEW last \in BOOLEAN
    PROVE  LET d == ChunkSent(c, id, n, last)
               s == c.streams[id]
               t == d.streams[id]
           IN  /\ Live(d) = Live(c) /\ \A i \in Live(c) : i # id => d.streams[i] = c.streams[i]
               /\ d.send = c.send - n /\ d.iws = c.iws /\ d.mfs = c.mfs /\ d.recv = c.recv
               /\ d.goaway = c.goaway /\ d.expecting = c.expecting /\ d.nextId = c.nextId
               /\ t.state = (IF last THEN "HalfClosedLocal" ELSE "Open")
               /\ t.pending = s.pending - n /\ t.send = s.send - n
               /\ t.recv = s.recv /\ t.basis = s.basis /\ t.resp = s.resp /\ t.body = s.body
               /\ t.fin = s.fin /\ t.hdrLen = s.hdrLen /\ t.hdrKind = s.hdrKind
  <1> DEFINE s == c.streams[id]
             b == [c EXCEPT !.send = @ - n]
             st == IF last THEN "HalfClosedLocal" ELSE "Open"
             s1 == [s EXCEPT !.send = @ - n, !.state = st]
             s2 == [s1 EXCEPT !.pending = @ - n]
             c1 == SetStream(b, id, s1)
  <1>1. s \in Stream /\ c.send \in Int
    BY StreamOK DEF ConnOK
  <1>2. SendData(s.state, last) = st /\ st # "Err"
    BY DEF SendData
  <1>3. s1 = [s EXCEPT !.send = s.send - n, !.state = st]
    BY <1>1 DEF Stream
  <1>4. SendChunk(c, id, n, last) = c1
    BY <1>1, <1>2 DEF SendChunk, Stream
  <1>5. /\ ConnOK(b) /\ Live(b) = Live(c) /\ b.streams = c.streams /\ b.send = c.send - n /\ b.iws = c.iws
        /\ b.mfs = c.mfs /\ b.recv = c.recv /\ b.goaway = c.goaway /\ b.expecting = c.expecting
        /\ b.nextId = c.nextId
    BY <1>1 DEF ConnOK, Live
  <1>6. s1 \in Stream
    <2>1. st \in StreamStates /\ s.send - n \in Int
      BY <1>1 DEF StreamStates, Stream
    <2> HIDE DEF st, s, s1
    <2> QED BY <1>1, <1>3, <2>1 DEF Stream
  <1>7. /\ s2.state = st /\ s2.pending = s.pending - n /\ s2.send = s.send - n
        /\ s2.recv = s.recv /\ s2.basis = s.basis /\ s2.resp = s.resp /\ s2.body = s.body
        /\ s2.fin = s.fin /\ s2.hdrLen = s.hdrLen /\ s2.hdrKind = s.hdrKind
    <2> HIDE DEF st
    <2> QED BY <1>1 DEF Stream
  <1> HIDE DEF b, s1, st
  <1>8. /\ ConnOK(c1) /\ Live(c1) = Live(c) /\ c1.streams[id] = s1 /\ c1.send = b.send /\ c1.iws = c.iws
        /\ c1.mfs = c.mfs /\ c1.recv = c.recv /\ c1.goaway = c.goaway /\ c1.expecting = c.expecting
        /\ c1.nextId = c.nextId /\ \A i \in Live(c) : i # id => c1.streams[i] = c.streams[i]
    BY <1>5, <1>6, SetStreamFields, SetStreamOK
  <1>9. ChunkSent(c, id, n, last) = SetStream(c1, id, s2)
    BY <1>4, <1>8 DEF ChunkSent
  <1> HIDE DEF c1, s2
  <1> DEFINE d == SetStream(c1, id, s2)
  <1>10. /\ Live(d) = Live(c) /\ d.streams[id] = s2 /\ d.send = c1.send /\ d.iws = c.iws
         /\ d.mfs = c.mfs /\ d.recv = c.recv /\ d.goaway = c.goaway /\ d.expecting = c.expecting
         /\ \A i \in Live(c) : i # id => d.streams[i] = c.streams[i]
    BY <1>8, SetStreamFields
  <1>11. d.nextId = c.nextId
    BY <1>8 DEF SetStream, ConnOK
  <1> HIDE DEF d
  <1> QED BY <1>5, <1>7, <1>8, <1>9, <1>10, <1>11 DEF d, st, s

\* A chunk is what the body, both windows and the frame size leave room for.
LEMMA ChunkFits ==
    ASSUME NEW c, ConnOK(c), NEW id \in Live(c), NEW m \in Nat
    PROVE  LET n == ChunkSize(c, id, m)
           IN  n \in Nat /\ n <= m /\ n <= c.mfs /\ (n > 0 => n <= c.send /\ n <= c.streams[id].send)
  <1>1. c.streams[id].send \in Int /\ c.send \in Int /\ c.mfs \in Nat
    BY StreamOK DEF ConnOK, Stream
  <1> QED BY <1>1 DEF ChunkSize, NextDataChunkSize, SendBudget, Smaller

LEMMA PumpChunkAgrees ==
    ASSUME DriverInv, AgreeInv, PumpChunk
    PROVE  /\ AgreeInv' /\ pc' = pc /\ results' = results
           /\ peer'.window >= 0 /\ peer.window - peer'.window <= conn.mfs
           /\ \A i \in StreamIds :
                LET q == peer.streams[i]
                    t == peer'.streams[i]
                IN  /\ t.window < q.window => t.window >= 0
                    /\ t.ended = q.ended /\ t.open = q.open /\ t.block = q.block /\ t.req = q.req
                    /\ t.sent = q.sent /\ (q.clientEnded => t.clientEnded)
  <1>1. /\ ConnOK(conn) /\ pc = "pump" /\ UNCHANGED <<head, idToIdx, got>>
        /\ PeerTyped(peer) /\ Remembered(peer, conn.nextId, head, results, got)
        /\ Agree(conn, peer, {}) /\ SameRequests(conn, peer, idToIdx)
    BY DEF DriverInv, TypeOK, ConnOK, PumpChunk, AgreeInv
  <1>2. PICK id \in Sendable :
          LET s == conn.streams[id]
              n == ChunkSize(conn, id, s.pending)
              last == n = s.pending
              c1 == SendChunk(conn, id, n, last)
          IN  /\ IF SendData(s.state, last) = "Err"
                 THEN SendError(c1)
                 ELSE /\ conn' = ChunkSent(conn, id, n, last)
                      /\ UNCHANGED <<pc, results>>
              /\ peer' = Charged(peer, id, n, last)
    BY DEF PumpChunk, ChunkSent, Charged
  <1> DEFINE s == conn.streams[id]
             n == ChunkSize(conn, id, s.pending)
             last == n = s.pending
             p == peer.streams[id]
  <1>3. /\ id \in Live(conn) /\ id \in StreamIds /\ s.pending > 0 /\ n > 0 /\ InStep(s, p, conn.iws)
        /\ s.pending \in Nat /\ s.send \in Int /\ id <= peer.last
    BY <1>1, StreamOK DEF Sendable, ConnOK, Agree, Stream
  <1>4. n \in Nat /\ n <= s.pending /\ n <= conn.mfs /\ n <= conn.send /\ n <= s.send
    BY <1>1, <1>3, ChunkFits
  <1>5. s.state = "Open" /\ ~p.clientEnded
    BY <1>3 DEF InStep
  <1>6. SendData(s.state, last) # "Err"
    BY <1>5 DEF SendData
  <1> HIDE DEF n
  <1>7. /\ conn' = ChunkSent(conn, id, n, last) /\ UNCHANGED <<pc, results>>
        /\ peer' = Charged(peer, id, n, last)
    BY <1>2, <1>6 DEF n
  <1>8. PICK l \in BOOLEAN : l = last
    OBVIOUS
  <1> DEFINE d == ChunkSent(conn, id, n, l)
             u == Charged(peer, id, n, l)
             t == d.streams[id]
             q == u.streams[id]
  <1>9. conn' = d /\ peer' = u
    BY <1>7, <1>8, Zenon
  <1>10. /\ Live(d) = Live(conn) /\ \A i \in Live(conn) : i # id => d.streams[i] = conn.streams[i]
         /\ d.send = conn.send - n /\ d.iws = conn.iws /\ d.recv = conn.recv
         /\ d.goaway = conn.goaway /\ d.expecting = conn.expecting /\ d.nextId = conn.nextId
         /\ t.state = (IF l THEN "HalfClosedLocal" ELSE "Open")
         /\ t.pending = s.pending - n /\ t.send = s.send - n
         /\ t.recv = s.recv /\ t.basis = s.basis /\ t.resp = s.resp /\ t.body = s.body
         /\ t.fin = s.fin /\ t.hdrLen = s.hdrLen /\ t.hdrKind = s.hdrKind
    <2> HIDE DEF d
    <2> QED BY <1>1, <1>3, <1>4, <1>5, ChunkSentFields DEF d
  <1>11. /\ PeerTyped(u) /\ u.window = peer.window - n /\ u.credit = peer.credit /\ u.last = peer.last
         /\ \A i \in StreamIds : i # id => u.streams[i] = peer.streams[i]
         /\ q.window = p.window - n /\ q.clientEnded = (p.clientEnded \/ l)
         /\ q.open = p.open /\ q.ended = p.ended /\ q.reset = p.reset /\ q.block = p.block
         /\ q.hdrs = p.hdrs /\ q.sent = p.sent /\ q.credit = p.credit /\ q.req = p.req
    <2> HIDE DEF u
    <2> QED BY <1>1, <1>3, <1>4, ChargedFields DEF u
  <1> HIDE DEF d, u
  <1>12. q.clientEnded = l /\ (l <=> s.pending - n = 0)
    <2>1. l <=> s.pending - n = 0
      <3>1. l <=> n = s.pending
        BY <1>8, Zenon
      <3>2. n = s.pending <=> s.pending - n = 0
        BY <1>3, <1>4
      <3> QED BY <3>1, <3>2, Zenon
    <2>2. q.clientEnded = l
      BY <1>5, <1>11, Zenon
    <2> QED BY <2>1, <2>2
  <1>13. InStep(t, q, conn.iws)
    <2> HIDE DEF s, p
    <2>1. t.state = (IF q.clientEnded THEN "HalfClosedLocal" ELSE "Open")
      BY <1>10, <1>12
    <2>2. q.clientEnded <=> t.pending = 0
      BY <1>10, <1>12
    <2> HIDE DEF t, q
    <2> QED BY <1>3, <1>10, <1>11, <2>1, <2>2 DEF InStep, t, q
  <1>14. LinkAgrees(d, u)
    BY <1>1, <1>4, <1>10, <1>11 DEF Agree, LinkAgrees, ConnOK
  <1>15. Blocks(d, u)
    <2>1. \A i \in StreamIds : u.streams[i].block = peer.streams[i].block
      BY <1>11
    <2>2. Blocks(conn, peer) /\ conn.expecting \in StreamIds \cup {NoStream}
      BY <1>1 DEF Agree, ConnOK
    <2> QED BY <1>10, <2>1, <2>2 DEF Blocks
  <1>16. Agree(d, u, {})
    <2> HIDE DEF t, q
    <2> QED BY <1>1, <1>3, <1>10, <1>11, <1>13, <1>14, <1>15, StaysInStep DEF t, q, ConnOK
  <1>17. Remembered(u, conn.nextId, head, results, got)
    <2>1. ASSUME NEW i \in StreamIds
          PROVE  /\ u.streams[i].open = peer.streams[i].open /\ u.streams[i].req = peer.streams[i].req
                 /\ u.streams[i].ended = peer.streams[i].ended /\ u.streams[i].hdrs = peer.streams[i].hdrs
                 /\ u.streams[i].sent = peer.streams[i].sent
      BY <1>11
    <2> QED BY <1>1, <1>11, <2>1 DEF Remembered
  <1>18. SameRequests(d, u, idToIdx)
    BY <1>1, <1>3, <1>10, <1>11 DEF SameRequests, ConnOK
  <1>19. AgreeInv'
    BY <1>1, <1>7, <1>9, <1>10, <1>11, <1>16, <1>17, <1>18 DEF AgreeInv
  <1>20. peer'.window >= 0 /\ peer.window - peer'.window <= conn.mfs
    BY <1>1, <1>4, <1>9, <1>11 DEF Agree, LinkAgrees, ConnOK, PeerTyped
  <1>21. ASSUME NEW i \in StreamIds
         PROVE  /\ u.streams[i].window < peer.streams[i].window => u.streams[i].window >= 0
                /\ u.streams[i].ended = peer.streams[i].ended /\ u.streams[i].open = peer.streams[i].open
                /\ u.streams[i].block = peer.streams[i].block /\ u.streams[i].req = peer.streams[i].req
                /\ u.streams[i].sent = peer.streams[i].sent
                /\ peer.streams[i].clientEnded => u.streams[i].clientEnded
    <2>1. CASE i = id
      <3>1. p.window = s.send
        BY <1>3 DEF InStep
      <3>2. q.window >= 0
        BY <1>3, <1>4, <1>11, <3>1
      <3> QED BY <1>11, <2>1, <3>2
    <2>2. CASE i # id
      BY <1>1, <1>11, <2>2 DEF PeerTyped, PeerStream
    <2> QED BY <2>1, <2>2
  <1> QED BY <1>7, <1>9, <1>19, <1>20, <1>21

LEMMA StopAgrees ==
    ASSUME DriverInv, AgreeInv, StartStop \/ PumpDone \/ PumpFails \/ Top
    PROVE  /\ AgreeInv' /\ peer' = peer
           /\ \A r \in Reqs : /\ results'[r] = "ok" <=> results[r] = "ok"
                              /\ results'[r] = "goaway" <=> results[r] = "goaway"
                              /\ results'[r] = "fatal" => results[r] = "fatal" \/ PumpFails
  <1>1. /\ ConnOK(conn) /\ head \in Nat /\ conn.nextId \in Nat /\ N \in Nat /\ results \in [Reqs -> Outcomes]
        /\ pc # "done" /\ head <= N + 1
    BY BatchAssumption DEF DriverInv, TypeOK, ConnOK, StartStop, PumpDone, PumpFails, Top
  <1>2. PruneCompletedStreams(conn).nextId = conn.nextId
    BY <1>1, PruneOK
  <1>3. UNCHANGED <<peer, got, idToIdx>>
    BY DEF StartStop, PumpDone, PumpFails, Top
  <1>4. ASSUME UNCHANGED <<conn, results, head>>, pc' # "done"
        PROVE  AgreeInv'
    BY <1>1, <1>3, <1>4 DEF AgreeInv
  <1>5. ASSUME NEW c, c.nextId = conn.nextId, NEW res, Return(c, res), head' \in Nat, head' >= head,
               \A r \in Reqs : /\ res[r] = "ok" <=> results[r] = "ok"
                               /\ res[r] = "goaway" <=> results[r] = "goaway"
                               /\ res[r] = "fatal" => results[r] = "fatal" \/ PumpFails
        PROVE  /\ AgreeInv'
               /\ \A r \in Reqs : /\ results'[r] = "ok" <=> results[r] = "ok"
                                  /\ results'[r] = "goaway" <=> results[r] = "goaway"
                                  /\ results'[r] = "fatal" => results[r] = "fatal" \/ PumpFails
    <2>1. pc' = "done" /\ conn' = c
      BY <1>5 DEF Return
    <2>2. \A r \in Reqs : /\ results'[r] = "ok" <=> results[r] = "ok"
                          /\ results'[r] = "goaway" <=> results[r] = "goaway"
                          /\ results'[r] = "fatal" => results[r] = "fatal" \/ PumpFails
      BY <1>5, ReturnKeeps
    <2> QED BY <1>1, <1>3, <1>5, <2>1, <2>2, GivesUp
  <1>6. CASE StartStop
    <2>1. CASE phase = "retry" /\ DOMAIN idToIdx = {}
      <3> DEFINE res == [r \in Reqs |-> IF r >= head /\ results[r] = "none" THEN "noopen" ELSE results[r]]
      <3>1. Return(PruneCompletedStreams(conn), res) /\ head' = N + 1
        BY <1>6, <2>1 DEF StartStop
      <3>2. \A r \in Reqs : /\ res[r] = "ok" <=> results[r] = "ok"
                            /\ res[r] = "goaway" <=> results[r] = "goaway"
                            /\ res[r] = "fatal" => results[r] = "fatal" \/ PumpFails
        OBVIOUS
      <3> HIDE DEF res
      <3> QED BY <1>1, <1>2, <1>3, <1>5, <3>1, <3>2
    <2>2. CASE ~(phase = "retry" /\ DOMAIN idToIdx = {})
      <3>1. pc' = "pump" /\ UNCHANGED <<conn, results, head>>
        BY <1>6, <2>2 DEF StartStop
      <3> QED BY <1>3, <1>4, <3>1
    <2> QED BY <2>1, <2>2
  <1>7. CASE PumpDone
    <2>1. pc' = "top" /\ UNCHANGED <<conn, results, head>>
      BY <1>7 DEF PumpDone
    <2> QED BY <1>3, <1>4, <2>1
  <1>8. CASE PumpFails
    <2> DEFINE c == IF phase = "prime" THEN conn ELSE PruneCompletedStreams(conn)
               res == IF phase = "retry" THEN results ELSE FailAllOutstanding(results, idToIdx, head)
    <2>1. Return(c, res) /\ head' = head
      BY <1>8 DEF PumpFails, SendError
    <2>2. c.nextId = conn.nextId
      BY <1>2
    <2>3. \A r \in Reqs : /\ res[r] = "ok" <=> results[r] = "ok"
                          /\ res[r] = "goaway" <=> results[r] = "goaway"
      BY FailAllKeeps
    <2> HIDE DEF c, res
    <2> QED BY <1>1, <1>3, <1>5, <1>8, <2>1, <2>2, <2>3
  <1>9. CASE Top
    <2>1. head' = head
      BY <1>9 DEF Top
    <2>2. CASE Return(PruneCompletedStreams(conn), results)
      BY <1>1, <1>2, <1>3, <1>5, <2>1, <2>2
    <2>3. CASE ~Return(PruneCompletedStreams(conn), results)
      <3>1. pc' # "done" /\ UNCHANGED <<conn, results>>
        BY <1>9, <2>3 DEF Top
      <3> QED BY <1>3, <1>4, <2>1, <3>1
    <2> QED BY <2>2, <2>3
  <1> QED BY <1>6, <1>7, <1>8, <1>9

\* Every step of the driver, and every frame of an orderly peer, keeps the two
\* ends agreeing.
LEMMA AgreeNext == Orderly /\ DriverInv /\ AgreeInv /\ [Next]_vars => AgreeInv'
  <1> SUFFICES ASSUME Orderly, DriverInv, AgreeInv, [Next]_vars PROVE AgreeInv'
    OBVIOUS
  <1>1. CASE Start
    BY <1>1, StartAgrees DEF Start
  <1>2. CASE PumpChunk
    BY <1>2, PumpChunkAgrees
  <1>3. CASE StartStop \/ PumpDone \/ PumpFails \/ Top
    BY <1>3, StopAgrees
  <1>4. CASE ReadFrame
    BY <1>4, ReadAgrees DEF ReadFrame, Orderly
  <1>5. CASE ReadFails
    BY <1>5, ReadFailsAgrees
  <1>6. CASE UNCHANGED vars
    BY <1>6 DEF vars, AgreeInv
  <1> QED BY <1>1, <1>2, <1>3, <1>4, <1>5, <1>6 DEF Next, Finished

----------------------------------------------------------------------------
(* The theorems.                                                            *)

\* With an orderly peer the connection and the peer's ledger always agree.
THEOREM EndsAgree == ASSUME Orderly PROVE Spec => [](DriverInv /\ AgreeInv)
  <1>1. Init => DriverInv /\ AgreeInv
    BY InitInv, InitAgrees
  <1>2. DriverInv /\ AgreeInv /\ [Next]_vars => (DriverInv /\ AgreeInv)'
    BY NextInv, AgreeNext
  <1> QED BY <1>1, <1>2, PTL DEF Spec

\* The flow-control windows of process_data, process_window_update,
\* apply_settings_payload and pump_pending_sends: with an orderly peer the
\* credit kept here is the credit the peer keeps, on the connection and on every
\* stream.
THEOREM WindowsAlwaysAgree == ASSUME Orderly PROVE Spec => []WindowsAgree
  <1>1. DriverInv /\ AgreeInv => WindowsAgree
    BY DEF AgreeInv, Agree, LinkAgrees, InStep, WindowsAgree
  <1> QED BY <1>1, EndsAgree, PTL

\* process_data replenishes early enough: while the driver waits for a frame the
\* peer has credit on the connection and on every stream it is to answer.
THEOREM NeverStarved == ASSUME Orderly PROVE Spec => []PeerNeverStarved
  <1>1. DriverInv /\ AgreeInv => PeerNeverStarved
    <2>1. OurInitialWindow \div 2 >= 1 /\ OurInitialWindow \div 2 \in Int
      BY WindowAssumption
    <2> SUFFICES ASSUME DriverInv, AgreeInv, pc = "read"
                 PROVE  peer.credit > 0 /\ \A i \in Live(conn) : peer.streams[i].credit > 0
      BY DEF PeerNeverStarved
    <2>2. /\ Agree(conn, peer, {}) /\ PeerTyped(peer) /\ Live(conn) \subseteq StreamIds
      BY DEF AgreeInv, DriverInv, TypeOK
    <2>3. peer.credit >= OurInitialWindow \div 2 /\ peer.credit \in Int
      BY <2>2 DEF Agree, LinkAgrees, PeerTyped
    <2>4. ASSUME NEW i \in Live(conn) PROVE peer.streams[i].credit > 0
      <3>1. peer.streams[i].credit >= OurInitialWindow \div 2 /\ peer.streams[i].credit \in Int
        BY <2>2, <2>4 DEF Agree, InStep, PeerTyped, PeerStream
      <3> QED BY <2>1, <3>1
    <2> QED BY <2>1, <2>3, <2>4
  <1> QED BY <1>1, EndsAgree, PTL

\* A response run_multiplexed delivers is whole: its own stream was ended by the
\* peer, with final headers, and every body byte sent on it is in the body.
THEOREM AlwaysDeliveredWhole == ASSUME Orderly PROVE Spec => []DeliveredWhole
  <1>1. DriverInv /\ AgreeInv => DeliveredWhole
    BY DEF AgreeInv, Remembered, DeliveredWhole
  <1> QED BY <1>1, EndsAgree, PTL

\* fail_goaway_doomed splits the batch where the peer does: no request waits on a
\* stream above the last-stream-id, and none at or below it is abandoned.
THEOREM GoawayBoundaryKept == ASSUME Orderly PROVE Spec => []GoawayBoundary
  <1>1. DriverInv /\ AgreeInv => GoawayBoundary
    BY DEF DriverInv, EveryRequestAccounted, AgreeInv, Agree, Remembered, GoawayBoundary
  <1> QED BY <1>1, EndsAgree, PTL

\* pump_pending_sends never sends more than the peer's two windows and its frame
\* size allow, also after SETTINGS made a window negative.
THEOREM AlwaysSendsWithinCredit == ASSUME Orderly PROVE Spec => SendsWithinCredit
  <1> DEFINE A == pc = "pump" =>
                    /\ peer'.window >= 0 /\ peer.window - peer'.window <= conn.mfs
                    /\ \A i \in StreamIds : peer'.streams[i].window < peer.streams[i].window
                                            => peer'.streams[i].window >= 0
  <1>1. DriverInv /\ AgreeInv /\ [Next]_vars => [A]_vars
    <2> SUFFICES ASSUME DriverInv, AgreeInv, [Next]_vars, pc = "pump"
                 PROVE  /\ peer'.window >= 0 /\ peer.window - peer'.window <= conn.mfs
                        /\ \A i \in StreamIds : peer'.streams[i].window < peer.streams[i].window
                                                => peer'.streams[i].window >= 0
      OBVIOUS
    <2>1. CASE PumpChunk
      BY <2>1, PumpChunkAgrees
    <2>2. CASE peer' = peer
      <3>1. peer.window \in Int /\ peer.window >= 0 /\ conn.mfs \in Nat
        BY DEF AgreeInv, PeerTyped, Agree, LinkAgrees, DriverInv, TypeOK
      <3>2. \A i \in StreamIds : peer.streams[i].window \in Int
        BY DEF AgreeInv, PeerTyped, PeerStream
      <3> QED BY <2>2, <3>1, <3>2
    <2>3. PumpChunk \/ peer' = peer
      BY DEF Next, Start, StartOne, StartStop, PumpDone, PumpFails, Top, ReadFrame, Read, ReadFails,
             Finished, vars
    <2> QED BY <2>1, <2>2, <2>3
  <1> QED BY <1>1, EndsAgree, PTL DEF Spec, SendsWithinCredit

\* RST_STREAM fails the request of its own stream and no other, although
\* take_stream_error has to guess the stream from the states of all.
THEOREM ResetAlwaysIsolated == ASSUME Orderly PROVE Spec => ResetIsIsolated
  <1> DEFINE A == pc = "read" /\ frame'.typ = "RST_STREAM" =>
                    \A r \in Reqs : results'[r] # results[r] =>
                        frame'.id \in DOMAIN idToIdx /\ idToIdx[frame'.id] = r
  <1>1. DriverInv /\ AgreeInv /\ [Next]_vars => [A]_vars
    <2> SUFFICES ASSUME DriverInv, AgreeInv, [Next]_vars, pc = "read", frame'.typ = "RST_STREAM", NEW q \in Reqs,
                        results'[q] # results[q]
                 PROVE  frame'.id \in DOMAIN idToIdx /\ idToIdx[frame'.id] = q
      OBVIOUS
    <2>1. ReadFrame
      BY DEF Next, Start, StartOne, StartStop, PumpChunk, PumpDone, PumpFails, Top, ReadFails, Finished,
             NoFrame, vars
    <2>2. PICK f \in Frames, w \in Writes : Legal(f) /\ Read(f, w)
      BY <2>1 DEF ReadFrame, Orderly
    <2>3. frame' = f /\ f.typ = "RST_STREAM"
      BY <2>2 DEF Read
    <2>4. f.id \in StreamIds
      BY <2>3, FramesOK DEF FrameOK
    <2>5. PICK r \in ProcessFrame(conn, f, w) :
             \/ /\ Goes(f, r)
                /\ \/ \E i \in DoomedBy(r.conn) : idToIdx[i] = q
                   \/ f.id \in DOMAIN idToIdx /\ idToIdx[f.id] = q
             \/ f.id \in DOMAIN idToIdx /\ idToIdx[f.id] = q
      BY <2>2, <2>3, ReadAgrees DEF Refused
    <2>6. PeerSent(f, r).last = peer.last
      BY <2>3, <2>4, IdsPositive DEF PeerSent, AgreeInv, PeerTyped
    <2>7. ASSUME NEW i \in Live(conn) PROVE ~(i > peer.last)
      <3>1. Live(conn) \subseteq StreamIds /\ peer.last \in Int /\ \A j \in Live(conn) : j <= peer.last
        BY DEF AgreeInv, PeerTyped, Agree, DriverInv, TypeOK
      <3>2. i \in Int /\ i <= peer.last
        BY <3>1, IdsPositive
      <3> QED BY <3>1, <3>2
    <2>8. Goes(f, r) => DoomedBy(r.conn) = {}
      BY <2>6, <2>7 DEF Goes
    <2> QED BY <2>3, <2>5, <2>8
  <1> QED BY <1>1, EndsAgree, PTL DEF Spec, ResetIsIsolated

----------------------------------------------------------------------------
(* What needs more of the peer or of the transport.                         *)

\* A conforming peer on a transport that does not fail makes the driver give up the
\* whole connection in one way only, with a response body above MAX_RESPONSE_BYTES, as
\* long as a header block fits the buffer.  The inductive form adds that the driver
\* has then returned, so that the ledger stays as it is.
FatalReturned == (\E q \in Reqs : results[q] = "fatal") => pc = "done" /\ OversizedBody

THEOREM NeverFatal ==
    ASSUME Orderly, "writefail" \notin Features, "eof" \notin Features, MaxHeadersBuf > 1
    PROVE  Spec => []ConformingPeerNeverFatal
  <1>1. Init => FatalReturned
    BY DEF Init, FatalReturned
  <1>2. DriverInv /\ AgreeInv /\ FatalReturned /\ [Next]_vars => FatalReturned'
    <2> SUFFICES ASSUME DriverInv, AgreeInv, FatalReturned, [Next]_vars, NEW q \in Reqs, results'[q] = "fatal"
                 PROVE  (pc = "done" /\ OversizedBody)'
      BY DEF FatalReturned
    <2>1. Writes = {TRUE} /\ MaxHeadersBuf # 1
      BY DEF Writes
    <2>2. CASE pc = "done"
      <3>1. UNCHANGED vars
        BY <2>2 DEF Next, Start, StartOne, StartStop, PumpChunk, PumpDone, PumpFails, Top, ReadFrame, Read,
                    ReadFails, Finished
      <3>2. (\E k \in Reqs : results[k] = "fatal") /\ UNCHANGED <<pc, peer>>
        BY <3>1 DEF vars
      <3> QED BY <3>2 DEF FatalReturned, OversizedBody
    <2>3. CASE pc # "done"
      <3>1. results[q] # "fatal"
        BY <2>3 DEF FatalReturned
      <3>2. ReadFrame
        <4>1. ~PumpFails /\ ~ReadFails
          BY DEF PumpFails, ReadFails
        <4>2. ~Start
          BY <2>1, <3>1, StartAgrees DEF Start
        <4>3. ~PumpChunk
          BY <3>1, PumpChunkAgrees
        <4>4. ~(StartStop \/ PumpDone \/ Top)
          BY <3>1, <4>1, StopAgrees
        <4>5. ~UNCHANGED vars
          BY <3>1 DEF vars
        <4> QED BY <4>1, <4>2, <4>3, <4>4, <4>5 DEF Next, Finished
      <3>3. PICK f \in Frames : Legal(f) /\ Read(f, TRUE)
        BY <2>1, <3>2 DEF ReadFrame, Orderly
      <3>4. PICK r \in ProcessFrame(conn, f, TRUE) :
              /\ peer' = PeerSent(f, r)
              /\ \/ Goes(f, r) /\ (results'[q] = "fatal" => results[q] = "fatal")
                 \/ results'[q] # results[q] => results'[q] = "streamerr"
                 \/ Refused(f, TRUE, r) /\ pc' = "done"
        BY <2>1, <3>3, ReadAgrees
      <3>5. Refused(f, TRUE, r) /\ pc' = "done"
        BY <3>1, <3>4
      <3>6. f.id \in StreamIds /\ peer'.streams[f.id].sent > MaxResponseBytes
        BY <2>1, <3>4, <3>5 DEF Refused
      <3> QED BY <3>5, <3>6 DEF OversizedBody
    <2> QED BY <2>2, <2>3
  <1>3. FatalReturned => ConformingPeerNeverFatal
    BY DEF FatalReturned, ConformingPeerNeverFatal
  <1> QED BY <1>1, <1>2, <1>3, EndsAgree, PTL DEF Spec

\* A peer that answers only after the whole request.
PatientInv == \A i \in StreamIds : peer.streams[i].ended => peer.streams[i].clientEnded

LEMMA PatientNext ==
    ASSUME Orderly, "patient" \in Features, DriverInv, AgreeInv, PatientInv, [Next]_vars
    PROVE  PatientInv'
  <1>0. \A i \in StreamIds : peer.streams[i].ended => peer.streams[i].clientEnded
    BY DEF PatientInv
  <1>1. CASE peer' = peer
    BY <1>0, <1>1 DEF PatientInv
  <1>2. CASE Start
    <2>1. PICK w \in Writes : StartOne(w)
      BY <1>2 DEF Start
    <2>2. CASE peer' # peer
      BY <1>0, <2>1, <2>2, StartAgrees DEF PatientInv
    <2> QED BY <1>1, <2>2
  <1>3. CASE PumpChunk
    BY <1>0, <1>3, PumpChunkAgrees DEF PatientInv
  <1>4. CASE ReadFrame
    <2>1. PICK f \in Frames, w \in Writes : Legal(f) /\ Read(f, w)
      BY <1>4 DEF ReadFrame, Orderly
    <2>2. PICK r \in ProcessFrame(conn, f, w) : peer' = PeerSent(f, r) /\ Kept(peer, PeerSent(f, r), Ending(f, r))
      BY <2>1, ReadAgrees
    <2> QED BY <1>0, <2>2 DEF Kept, PatientInv
  <1>5. CASE StartStop \/ PumpDone \/ PumpFails \/ Top \/ ReadFails \/ UNCHANGED vars
    BY <1>1, <1>5 DEF StartStop, PumpDone, PumpFails, Top, ReadFails, vars
  <1> QED BY <1>2, <1>3, <1>4, <1>5 DEF Next, Finished

\* What the peer counts as open is registered, where open_stream may still succeed.
LEMMA OpenIsLive ==
    ASSUME DriverInv, AgreeInv, PatientInv, CanOpenStream(conn), pc # "done"
    PROVE  PeerOpen \subseteq Live(conn)
  <1> SUFFICES ASSUME NEW i \in PeerOpen, i \notin Live(conn) PROVE FALSE
    OBVIOUS
  <1>1. i \in StreamIds /\ peer.streams[i].open /\ ~peer.streams[i].reset /\ ~peer.streams[i].ended
    BY DEF PeerOpen, PatientInv
  <1>2. i > peer.last /\ i < conn.nextId
    BY <1>1 DEF AgreeInv, Agree, LetGo, Remembered
  <1>3. peer.last = StreamIdLimit \/ conn.nextId <= peer.last
    BY DEF CanOpenStream, AgreeInv, Agree, LinkAgrees
  <1>4. i \in Int /\ i < StreamIdLimit /\ peer.last \in Int /\ conn.nextId \in Int
    BY <1>1, IdsPositive DEF AgreeInv, PeerTyped, DriverInv, TypeOK
  <1> QED BY <1>2, <1>3, <1>4, SizeAssumption

\* With such a peer, open_stream keeps the streams the peer counts as open
\* within its SETTINGS_MAX_CONCURRENT_STREAMS.
THEOREM LimitAlwaysHonoured ==
    ASSUME Orderly, "patient" \in Features
    PROVE  Spec => StreamLimitHonoured
  <1> DEFINE A == head' # head /\ PeerOpen' # PeerOpen => Cardinality(PeerOpen') <= conn.mcs
  <1>1. Init => PatientInv
    BY DEF Init, PatientInv, FreshPeerStream
  <1>2. DriverInv /\ AgreeInv /\ PatientInv /\ [Next]_vars => PatientInv'
    BY PatientNext
  <1>3. DriverInv /\ AgreeInv /\ PatientInv /\ [Next]_vars => [A]_vars
    <2> SUFFICES ASSUME DriverInv, AgreeInv, PatientInv, [Next]_vars, head' # head, PeerOpen' # PeerOpen
                 PROVE  Cardinality(PeerOpen') <= conn.mcs
      OBVIOUS
    <2>1. peer' # peer
      BY DEF PeerOpen
    <2>2. Start
      BY <2>1 DEF Next, StartStop, PumpChunk, PumpDone, PumpFails, Top, ReadFrame, Read, ReadFails,
                  Finished, vars
    <2>3. PICK w \in Writes : StartOne(w)
      BY <2>2 DEF Start
    <2>4. /\ CanOpenStream(conn) /\ pc # "done"
          /\ \A i \in StreamIds : i # conn.nextId => peer'.streams[i] = peer.streams[i]
      BY <2>1, <2>3, StartAgrees DEF StartOne
    <2>5. PeerOpen' \subseteq Live(conn) \cup {conn.nextId}
      <3>1. PeerOpen' \subseteq PeerOpen \cup {conn.nextId}
        BY <2>4 DEF PeerOpen
      <3>2. PeerOpen \subseteq Live(conn)
        BY <2>4, OpenIsLive
      <3> QED BY <3>1, <3>2
    <2>6. IsFiniteSet(Live(conn))
      <3>1. Live(conn) \subseteq 1..(StreamIdLimit - 1)
        BY DEF DriverInv, TypeOK, StreamIds
      <3>2. StreamIdLimit - 1 \in Int /\ 1 \in Int
        BY SizeAssumption
      <3>3. IsFiniteSet(1..(StreamIdLimit - 1))
        BY <3>2, FS_Interval
      <3> QED BY <3>1, <3>3, FS_Subset
    <2>7. /\ IsFiniteSet(Live(conn) \cup {conn.nextId})
          /\ Cardinality(Live(conn) \cup {conn.nextId}) <= Cardinality(Live(conn)) + 1
          /\ Cardinality(Live(conn)) \in Nat
      BY <2>6, FS_AddElement, FS_CardinalityType
    <2>8. Cardinality(PeerOpen') <= Cardinality(Live(conn) \cup {conn.nextId}) /\ Cardinality(PeerOpen') \in Nat
          /\ Cardinality(Live(conn) \cup {conn.nextId}) \in Nat
      BY <2>5, <2>7, FS_Subset, FS_CardinalityType
    <2>9. Cardinality(Live(conn)) < conn.mcs /\ conn.mcs \in Nat
      BY <2>4, <2>7 DEF CanOpenStream, AtStreamLimit, DriverInv, TypeOK
    <2> QED BY <2>7, <2>8, <2>9
  <1> QED BY <1>1, <1>2, <1>3, EndsAgree, PTL DEF Spec, StreamLimitHonoured

\* A slot that holds a response is not touched again.
LEMMA OkStays ==
    ASSUME DriverInv, [Next]_vars, NEW q \in Reqs, results[q] = "ok"
    PROVE  results'[q] = "ok"
  <1>1. /\ results \in [Reqs -> Outcomes] /\ idToIdx \in [DOMAIN idToIdx -> Reqs]
        /\ pc # "done" => /\ head <= q => results[q] = "none"
                          /\ \A i \in DOMAIN idToIdx : results[idToIdx[i]] = "none"
    BY DEF DriverInv, TypeOK, EveryRequestAccounted, InFlight
  <1>2. ASSUME NEW c, NEW res, Return(c, res), res[q] = "ok" PROVE results'[q] = "ok"
    BY <1>2, ReturnKeeps
  <1>3. ASSUME NEW c, SendError(c) PROVE results'[q] = "ok"
    <2> DEFINE res == IF phase = "retry" THEN results ELSE FailAllOutstanding(results, idToIdx, head)
    <2>1. res[q] = "ok"
      BY FailAllKeeps
    <2> HIDE DEF res
    <2> QED BY <1>2, <1>3, <2>1 DEF SendError, res
  <1>4. ASSUME NEW r, pc = "read", AfterError(r) PROVE results'[q] = "ok"
    <2> DEFINE id == CHOOSE i \in Culprits(r.conn) : TRUE
    <2>1. CASE Cardinality(Culprits(r.conn)) = 1
      <3>1. id \in DOMAIN idToIdx
        <4>1. Culprits(r.conn) # {}
          BY <2>1, FS_EmptySet
        <4> QED BY <4>1 DEF Culprits
      <3>2. results' = [results EXCEPT ![idToIdx[id]] = "streamerr"]
        BY <1>4, <2>1 DEF AfterError
      <3> HIDE DEF id
      <3> QED BY <1>1, <1>4, <3>1, <3>2
    <2>2. CASE Cardinality(Culprits(r.conn)) # 1
      <3>1. FailAllOutstanding(results, idToIdx, head)[q] = "ok"
        BY FailAllKeeps
      <3> QED BY <1>2, <1>4, <2>2, <3>1 DEF AfterError
    <2> QED BY <2>1, <2>2
  <1>5. ASSUME NEW r, NEW id, pc = "read", AfterFrame(r, id) PROVE results'[q] = "ok"
    <2> DEFINE doomed == IF r.conn.goaway = None THEN {} ELSE Doomed(r.conn)
               c1 == DropStreams(r.conn, doomed)
               map1 == Without(idToIdx, doomed)
               res1 == [k \in Reqs |-> IF \E i \in doomed : idToIdx[i] = k THEN "goaway" ELSE results[k]]
    <2>1. results' = (IF r.out = "done" /\ id \in DOMAIN map1
                      THEN [res1 EXCEPT ![map1[id]] = BuildResponse(c1.streams[id])] ELSE res1)
      BY <1>5 DEF AfterFrame
    <2>2. doomed \subseteq DOMAIN idToIdx
      BY DEF Doomed
    <2>3. res1[q] = "ok"
      BY <1>1, <1>5, <2>2
    <2>4. id \in DOMAIN map1 => map1[id] # q
      BY <1>1, <1>5 DEF Without
    <2> HIDE DEF doomed, c1, map1
    <2> QED BY <2>1, <2>3, <2>4
  <1>6. CASE Start
    BY <1>1, <1>6, BatchAssumption DEF Start, StartOne, DriverInv, TypeOK
  <1>7. CASE StartStop
    <2> DEFINE res == [r \in Reqs |-> IF r >= head /\ results[r] = "none" THEN "noopen" ELSE results[r]]
    <2>1. res[q] = "ok"
      OBVIOUS
    <2> HIDE DEF res
    <2> QED BY <1>2, <1>7, <2>1 DEF StartStop, res
  <1>8. CASE PumpChunk \/ PumpFails
    BY <1>3, <1>8 DEF PumpChunk, PumpFails
  <1>9. CASE PumpDone \/ Finished \/ UNCHANGED vars
    BY <1>9 DEF PumpDone, Finished, vars
  <1>10. CASE Top
    BY <1>2, <1>10 DEF Top
  <1>11. CASE ReadFails
    BY <1>4, <1>11 DEF ReadFails
  <1>12. CASE ReadFrame
    BY <1>4, <1>5, <1>12 DEF ReadFrame, Read
  <1> QED BY <1>6, <1>7, <1>8, <1>9, <1>10, <1>11, <1>12 DEF Next

\* Once the peer has sent a whole response, of MAX_RESPONSE_BYTES at most, its request
\* has it, whatever else happens to the batch: a GOAWAY, a reset, the end of the connection.
EndedDelivered ==
    \A i \in StreamIds : peer.streams[i].ended /\ peer.streams[i].sent <= MaxResponseBytes
                         => results[peer.streams[i].req] = "ok"

THEOREM AlwaysDelivered ==
    ASSUME Orderly, "trailers" \notin Features, "writefail" \notin Features, MaxHeadersBuf > 1
    PROVE  Spec => []CompleteIsDelivered
  <1>1. Init => EndedDelivered
    BY DEF Init, EndedDelivered, FreshPeerStream
  <1>2. DriverInv /\ AgreeInv /\ EndedDelivered /\ [Next]_vars => EndedDelivered'
    <2> SUFFICES ASSUME DriverInv, AgreeInv, EndedDelivered, [Next]_vars,
                        NEW i \in StreamIds, peer'.streams[i].ended, peer'.streams[i].sent <= MaxResponseBytes
                 PROVE  results'[peer'.streams[i].req] = "ok"
      BY DEF EndedDelivered
    <2>1. ASSUME peer.streams[i].ended, peer'.streams[i].req = peer.streams[i].req,
                 peer'.streams[i].sent = peer.streams[i].sent
          PROVE  results'[peer'.streams[i].req] = "ok"
      <3>1. peer.streams[i].req \in Reqs /\ results[peer.streams[i].req] = "ok"
        BY <2>1 DEF AgreeInv, Remembered, EndedDelivered
      <3> QED BY <2>1, <3>1, OkStays
    <2>2. Writes = {TRUE} /\ MaxHeadersBuf # 1
      BY DEF Writes
    <2>3. CASE Start
      <3>1. PICK w \in Writes : StartOne(w)
        BY <2>3 DEF Start
      <3>2. CASE peer' # peer
        BY <2>1, <3>1, <3>2, StartAgrees
      <3> QED BY <2>1, <3>2
    <2>4. CASE PumpChunk
      BY <2>1, <2>4, PumpChunkAgrees
    <2>5. CASE ReadFrame
      <3>1. PICK f \in Frames : Legal(f) /\ Read(f, TRUE)
        BY <2>2, <2>5 DEF ReadFrame, Orderly
      <3>2. PICK r \in ProcessFrame(conn, f, TRUE) :
              /\ peer' = PeerSent(f, r) /\ Kept(peer, PeerSent(f, r), Ending(f, r))
              /\ \/ Goes(f, r) /\ (r.out = "done" => results'[peer.streams[f.id].req] = "ok")
                 \/ Reset(f, r)
                 \/ Refused(f, TRUE, r)
        BY <2>2, <3>1, ReadAgrees
      <3>3. peer'.streams[i].req = peer.streams[i].req
        BY <3>2 DEF Kept
      <3>4. CASE peer.streams[i].ended
        BY <2>1, <3>2, <3>3, <3>4 DEF Kept
      <3>5. CASE ~peer.streams[i].ended
        <4>1. i \in Ending(f, r)
          BY <3>2, <3>5 DEF Kept
        <4>2. i = f.id /\ (r.out = "done" \/ (f.typ = "DATA" /\ r.out = "err"))
          BY <4>1 DEF Ending
        <4>3. ~Refused(f, TRUE, r)
          BY <2>2, <3>2, <4>2, SizeAssumption DEF Refused, Kept, PeerTyped, PeerStream
        <4> QED BY <3>2, <3>3, <4>2, <4>3 DEF Goes, Reset
      <3> QED BY <3>4, <3>5
    <2>6. CASE StartStop \/ PumpDone \/ PumpFails \/ Top \/ ReadFails \/ UNCHANGED vars
      <3>1. peer' = peer
        BY <2>6 DEF StartStop, PumpDone, PumpFails, Top, ReadFails, vars
      <3> QED BY <2>1, <3>1
    <2> QED BY <2>3, <2>4, <2>5, <2>6 DEF Next, Finished
  <1>3. EndedDelivered => CompleteIsDelivered
    BY DEF EndedDelivered, CompleteIsDelivered
  <1> QED BY <1>1, <1>2, <1>3, EndsAgree, PTL DEF Spec
==============================================================================
