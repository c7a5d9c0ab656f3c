---------------------------- MODULE H2Connection ----------------------------
(***************************************************************************)
(* The HTTP/2 connection of src/http2.rs: the `Connection` value, its      *)
(* streams and flow-control windows, and what each handler does to it.     *)
(* A handler is an operator from a connection (and a frame) to a result    *)
(*                                                                         *)
(*   [conn |-> the connection afterwards, out |-> "continue"|"done"|"err", *)
(*    g0, gs |-> WINDOW_UPDATE increments written for stream 0 / f.id]     *)
(*                                                                         *)
(* so that the multiplexing driver (H2Multiplex) and any other driver use  *)
(* the same handlers, as they do in the code.                              *)
(*                                                                         *)
(* Data abstraction: bytes are counted, never stored; a header block is    *)
(* its kind ("final", "info", "nostatus", "garbage") and the number of     *)
(* fragments buffered for it.                                              *)
(***************************************************************************)
EXTENDS Integers, FiniteSets

CONSTANTS
    WindowMax,         \* WINDOW_MAX (2^31-1 in the code)
    DefaultWindow,     \* RFC default of both send windows (65535)
    OurInitialWindow,  \* OUR_INITIAL_WINDOW (65535)
    StreamIdLimit,     \* first illegal stream id (0x8000_0000)
    MaxHeadersBuf,     \* MAX_HEADERS_BUF, in header fragments
    MaxResponseBytes,  \* MAX_RESPONSE_BYTES
    MinFrameSize,      \* MAX_FRAME_SIZE_MIN, also the default max_frame_size
    MaxFrameSize,      \* MAX_FRAME_SIZE_MAX
    NoStreamLimit      \* u32::MAX, the default max_concurrent_streams

ASSUME WindowAssumption ==
    /\ WindowMax \in Nat
    /\ DefaultWindow \in 1..WindowMax
    /\ OurInitialWindow \in 2..WindowMax
ASSUME SizeAssumption ==
    /\ StreamIdLimit \in Nat /\ StreamIdLimit > 1
    /\ MaxHeadersBuf \in Nat \ {0}
    /\ MaxResponseBytes \in Nat
    /\ MinFrameSize \in Nat \ {0}
    /\ MaxFrameSize \in Nat /\ MaxFrameSize >= MinFrameSize
    /\ NoStreamLimit \in Nat

Keep == -1      \* a SETTINGS parameter the frame does not carry
None == -1      \* Option::None for goaway_received
NoStream == 0   \* Option::None for expecting_continuation

StreamStates == {"Idle", "Open", "HalfClosedLocal", "HalfClosedRemote", "Closed"}
BlockKinds == {"final", "info", "nostatus", "garbage"}

----------------------------------------------------------------------------
(* Flow-control windows.                                                   *)

\* The larger-than-zero increment and the 2^31-1 ceiling of both
\* apply_window_update methods.
WindowUpdateOk(available, inc) == inc # 0 /\ available + inc <= WindowMax

\* Mutant: the windows are only refilled once they are overdrawn.
MutReplenishNever(available) == IF available < 0 THEN OurInitialWindow - available ELSE 0

\* The replenishment both receive windows ask for: up to the initial size once
\* less than half of it is left, nothing otherwise.
ReplenishIncrement(available) ==
    IF available < OurInitialWindow \div 2 THEN OurInitialWindow - available ELSE 0

Smaller(a, b) == IF a <= b THEN a ELSE b

NextDataChunkSize(maxFrame, available, remaining) ==
    IF available <= 0 THEN 0 ELSE Smaller(Smaller(available, remaining), maxFrame)

----------------------------------------------------------------------------
(* Per-stream state machine; "Err" is the Err(..) return.                  *)

SendData(st, end) ==
    CASE st \in {"Idle", "Open"}    -> IF end THEN "HalfClosedLocal" ELSE "Open"
      [] st = "HalfClosedRemote"    -> IF end THEN "Closed" ELSE "HalfClosedRemote"
      [] OTHER                      -> "Err"

\* Mutant: a response on a stream whose request is finished is refused.
MutRecvDataOpenOnly(st, end) ==
    IF st = "Open" THEN IF end THEN "HalfClosedRemote" ELSE "Open" ELSE "Err"

RecvData(st, end) ==
    CASE st = "Open"                -> IF end THEN "HalfClosedRemote" ELSE "Open"
      [] st = "HalfClosedLocal"     -> IF end THEN "Closed" ELSE "HalfClosedLocal"
      [] OTHER                      -> "Err"

\* Mutant: END_STREAM on HEADERS is overlooked.
MutRecvHeadersNoEnd(st, end) == IF st = "Closed" THEN "Closed" ELSE RecvData(st, FALSE)

RecvHeaders(st, end) == IF st = "Closed" THEN "Closed" ELSE RecvData(st, end)

RecvRst(st) == IF st = "Idle" THEN "Err" ELSE "Closed"

\* Stream::new.  resp = "none" is response_headers = None; pending = 0 is
\* pending_body = None.
NewStream(initialPeerWindow) ==
    [state |-> "Idle", send |-> initialPeerWindow, basis |-> initialPeerWindow,
     recv |-> OurInitialWindow, hdrLen |-> 0, hdrKind |-> "garbage",
     resp |-> "none", body |-> 0, fin |-> FALSE, pending |-> 0]

Stream ==
    [state : StreamStates, send : Int, basis : Nat, recv : Int,
     hdrLen : 0..MaxHeadersBuf, hdrKind : BlockKinds, resp : BlockKinds \cup {"none"},
     body : 0..MaxResponseBytes, fin : BOOLEAN, pending : Nat]

\* Mutant: a response is taken for complete when its headers are in.
MutCompleteOnHeaders(s) == s.resp # "none"

\* The stream has a complete response: what every handler tests before it
\* returns DispatchOutcome::Done.
Complete(s) ==
    s.state \in {"Closed", "HalfClosedRemote"} /\ s.fin /\ s.resp # "none"

----------------------------------------------------------------------------
(* The connection.                                                         *)

\* A connection with no stream; the peer's settings, what is left of the two
\* windows of the connection and the next id are given.
IdleConnection(mcs, iws, mfs, send, recv, nextId) ==
    [mcs |-> mcs, iws |-> iws, mfs |-> mfs, send |-> send, recv |-> recv,
     streams |-> [i \in {} |-> NewStream(0)],
     nextId |-> nextId, goaway |-> None, expecting |-> NoStream]

NewConnection ==
    IdleConnection(NoStreamLimit, DefaultWindow, MinFrameSize, DefaultWindow, OurInitialWindow, 1)

Live(c) == DOMAIN c.streams

\* Mutant: the stream is not removed from Connection::streams.
MutDropNothing(c, ids) == c

DropStreams(c, ids) ==
    [c EXCEPT !.streams = [i \in Live(c) \ ids |-> c.streams[i]]]

SetStream(c, id, s) ==
    [c EXCEPT !.streams = [i \in Live(c) \cup {id} |-> IF i = id THEN s ELSE c.streams[i]]]

IsUsable(c) == c.goaway = None /\ Live(c) = {} /\ c.nextId < StreamIdLimit

PruneCompletedStreams(c) ==
    DropStreams(c, {i \in Live(c) :
        LET s == c.streams[i]
        IN  s.state = "Closed" \/ (s.state = "HalfClosedRemote" /\ s.resp # "none" /\ s.fin)})

\* Mutant: off by one at the concurrency limit.
MutLimitOffByOne(c) == Cardinality(Live(c)) > c.mcs

AtStreamLimit(c) == Cardinality(Live(c)) >= c.mcs

\* open_stream succeeds; its three error returns are the three conjuncts.
CanOpenStream(c) ==
    /\ ~AtStreamLimit(c)
    /\ c.nextId < StreamIdLimit
    /\ c.goaway = None \/ c.nextId <= c.goaway

OpenStream(c) ==
    [SetStream(c, c.nextId, NewStream(c.iws)) EXCEPT !.nextId = @ + 2]

\* stage_request_on: HEADERS are written and the body is parked.
StageRequest(c, id, bodyLen) ==
    SetStream(c, id, [c.streams[id] EXCEPT !.state = SendData(@, bodyLen = 0),
                                           !.pending = bodyLen])

\* Mutant: the connection window is left out of the budget.
MutBudgetStreamOnly(c, id) == c.streams[id].send

\* One DATA frame of the loops in send_request_on and pump_pending_sends:
\* `remaining` bytes are left, `n` of them go out, both windows are billed, then
\* send_data moves the stream's state or refuses.
SendBudget(c, id) == Smaller(c.streams[id].send, c.send)
ChunkSize(c, id, remaining) == NextDataChunkSize(c.mfs, SendBudget(c, id), remaining)
SendChunk(c, id, n, isLast) ==
    SetStream([c EXCEPT !.send = @ - n], id,
              [c.streams[id] EXCEPT !.send = @ - n,
                    !.state = IF SendData(@, isLast) = "Err" THEN @ ELSE SendData(@, isLast)])

----------------------------------------------------------------------------
(* Inbound frames.                                                         *)

Result(c, out) == [conn |-> c, out |-> out, g0 |-> 0, gs |-> 0]
Failed(c) == Result(c, "err")
Outcome(c, id) == IF Complete(c.streams[id]) THEN "done" ELSE "continue"

\* PeerSettings::apply_settings_payload.  f.bad is a payload rejected before
\* any entry is applied; the entries come in the order mcs, iws, mfs, and an
\* entry out of range returns Err with the earlier ones already applied.
ApplySettingsPayload(c, f) ==
    LET c1 == [c  EXCEPT !.mcs = IF f.mcs = Keep THEN @ ELSE f.mcs]
        c2 == [c1 EXCEPT !.iws = IF f.iws = Keep THEN @ ELSE f.iws]
        c3 == [c2 EXCEPT !.mfs = IF f.mfs = Keep THEN @ ELSE f.mfs]
    IN  IF f.bad THEN Failed(c)
        ELSE IF f.iws > WindowMax THEN Failed(c1)
        ELSE IF f.mfs # Keep /\ f.mfs \notin MinFrameSize..MaxFrameSize THEN Failed(c2)
        ELSE Result(c3, "continue")

\* Mutant: a new initial window replaces the window instead of shifting it.
MutWindowReset(s, iws) == iws

\* StreamSendWindow::apply_initial_window_change
ShiftedWindow(s, iws) == s.send + (iws - s.basis)
ShiftWindows(c, ids) ==
    [c EXCEPT !.streams = [i \in Live(c) |->
        IF i \in ids
        THEN [c.streams[i] EXCEPT !.send = ShiftedWindow(c.streams[i], c.iws), !.basis = c.iws]
        ELSE c.streams[i]]]

\* The SETTINGS arm of process_conn_frame.  The streams are visited in HashMap
\* order, so when one overflows any set of the others may have been shifted.
\* `w` says whether the write of the ACK succeeds.
ProcessSettings(c, f, w) ==
    LET r        == ApplySettingsPayload(c, f)
        overflow == {i \in Live(c) : ShiftedWindow(c.streams[i], r.conn.iws) > WindowMax}
    IN  IF r.out = "err" THEN {r}
        ELSE IF r.conn.iws # c.iws /\ overflow # {}
        THEN {Failed(ShiftWindows(r.conn, ids)) : ids \in SUBSET (Live(c) \ overflow)}
        ELSE LET c1 == IF r.conn.iws # c.iws THEN ShiftWindows(r.conn, Live(c)) ELSE r.conn
             IN  {Result(c1, IF w THEN "continue" ELSE "err")}

\* The GOAWAY arm: remember the last id, close every stream above it.
ProcessGoaway(c, f) ==
    Result([c EXCEPT !.goaway = f.last,
                     !.streams = [i \in Live(c) |->
                        IF i > f.last THEN [c.streams[i] EXCEPT !.state = "Closed"]
                                      ELSE c.streams[i]]], "continue")

ProcessConnFrame(c, f, w) ==
    CASE f.typ = "SETTINGS" /\ ~f.ack  -> ProcessSettings(c, f, w)
      [] f.typ = "PING" /\ ~f.ack      -> {Result(c, IF w THEN "continue" ELSE "err")}
      [] f.typ = "WINDOW_UPDATE"       ->
            {IF ~f.bad /\ WindowUpdateOk(c.send, f.inc)
             THEN Result([c EXCEPT !.send = @ + f.inc], "continue")
             ELSE Failed(c)}
      [] f.typ = "GOAWAY"              -> {ProcessGoaway(c, f)}
      [] OTHER                         -> {Result(c, "continue")}

\* Mutant: the MAX_HEADERS_BUF check is missing.
MutHeaderRoomAlways(s) == TRUE

\* push_header_fragment: one more fragment, or the MAX_HEADERS_BUF refusal.
HeaderRoom(s) == s.hdrLen + 1 <= MaxHeadersBuf

\* decode_block fails on a "garbage" block; otherwise the block's kind becomes
\* response_headers and the buffer is taken.
ProcessHeaders(c, f) ==
    LET s  == c.streams[f.id]
        st == RecvHeaders(s.state, f.endStream)
        buffered == [s EXCEPT !.hdrLen = @ + 1, !.hdrKind = f.kind]
        marked == [buffered EXCEPT !.fin = s.fin \/ f.endStream]
        decoded == [marked EXCEPT !.hdrLen = 0, !.resp = f.kind, !.state = st]
    IN  IF f.bad \/ f.id \notin Live(c) THEN Failed(c)
        ELSE IF s.state = "Closed" THEN
            IF f.endHeaders
            THEN IF f.kind = "garbage" THEN Failed(c) ELSE Result(c, "continue")
            ELSE IF HeaderRoom(s)
                 THEN Result([SetStream(c, f.id, buffered) EXCEPT !.expecting = f.id], "continue")
                 ELSE Failed(c)
        ELSE IF st = "Err" \/ ~HeaderRoom(s) THEN Failed(c)
        ELSE IF ~f.endHeaders THEN
            LET c1 == [SetStream(c, f.id, [marked EXCEPT !.state = st]) EXCEPT !.expecting = f.id]
            IN  Result(c1, Outcome(c1, f.id))
        ELSE IF f.kind = "garbage" THEN Failed(SetStream(c, f.id, [marked EXCEPT !.hdrLen = 0]))
        ELSE LET c1 == [SetStream(c, f.id, decoded) EXCEPT !.expecting = NoStream]
             IN  Result(c1, Outcome(c1, f.id))

ProcessContinuation(c, f) ==
    LET s == c.streams[f.id]
        decoded == [s EXCEPT !.hdrLen = 0,
                             !.resp = IF s.state # "Closed" THEN s.hdrKind ELSE @]
    IN  IF c.expecting # f.id \/ f.id \notin Live(c) THEN Failed(c)
        ELSE IF ~HeaderRoom(s) THEN Failed(c)
        ELSE IF ~f.endHeaders THEN
            LET c1 == SetStream(c, f.id, [s EXCEPT !.hdrLen = @ + 1])
            IN  Result(c1, Outcome(c1, f.id))
        ELSE IF s.hdrKind = "garbage" THEN Failed(SetStream(c, f.id, [s EXCEPT !.hdrLen = 0]))
        ELSE LET c1 == [SetStream(c, f.id, decoded) EXCEPT !.expecting = NoStream]
             IN  Result(c1, Outcome(c1, f.id))

\* process_data: f.len bytes are billed, f.len - f.pad of them are body.
ProcessData(c, f, w) ==
    LET b0   == [c EXCEPT !.recv = @ - f.len]           \* connection billed first
        g0   == ReplenishIncrement(b0.recv)
        s    == c.streams[f.id]
        st   == RecvData(s.state, f.endStream)
        s1   == [s EXCEPT !.recv = @ - f.len]
        b1   == SetStream(b0, f.id, s1)
        gs   == ReplenishIncrement(s1.recv)
        s2   == [s1 EXCEPT !.body = @ + (f.len - f.pad), !.fin = s.fin \/ f.endStream,
                           !.state = st,
                           !.recv = @ + IF w \/ g0 = 0 THEN gs ELSE 0]
        c2   == SetStream([b0 EXCEPT !.recv = @ + g0], f.id, s2)
    IN  IF b0.recv < 0 THEN Failed(b0)
        ELSE IF f.id \notin Live(c) THEN
            [conn |-> [b0 EXCEPT !.recv = @ + g0],
             out |-> IF w \/ g0 = 0 THEN "continue" ELSE "err", g0 |-> g0, gs |-> 0]
        ELSE IF s.state = "Closed" \/ st = "Err" THEN Failed(b0)
        ELSE IF s1.recv < 0 \/ f.bad \/ s.body + (f.len - f.pad) > MaxResponseBytes THEN Failed(b1)
        ELSE [conn |-> c2, out |-> IF w THEN Outcome(c2, f.id) ELSE "err", g0 |-> g0, gs |-> gs]

\* Mutant: the error is returned before the stream is marked Closed.
MutRstNotClosed(c, f) ==
    IF f.id \notin Live(c) \/ c.streams[f.id].state = "Closed" THEN Result(c, "continue")
    ELSE Failed(c)

ProcessRst(c, f) ==
    IF f.id \notin Live(c) \/ c.streams[f.id].state = "Closed" THEN Result(c, "continue")
    ELSE LET st == RecvRst(c.streams[f.id].state)
         IN  Failed(IF st = "Err" THEN c
                    ELSE SetStream(c, f.id, [c.streams[f.id] EXCEPT !.state = st]))

\* Mutant: a stream's WINDOW_UPDATE is parsed and dropped.
MutWindowUpdateDropped(c, f) == Result(c, "continue")

\* parse_window_update fails on a bad length, also for a stream nobody knows.
StreamWindowUpdate(c, f) ==
    IF f.bad THEN Failed(c)
    ELSE IF f.id \notin Live(c) THEN Result(c, "continue")
    ELSE IF WindowUpdateOk(c.streams[f.id].send, f.inc)
    THEN Result(SetStream(c, f.id, [c.streams[f.id] EXCEPT !.send = @ + f.inc]), "continue")
    ELSE Failed(c)

ProcessStreamFrame(c, f, w) ==
    CASE f.typ = "HEADERS"       -> ProcessHeaders(c, f)
      [] f.typ = "CONTINUATION"  -> ProcessContinuation(c, f)
      [] f.typ = "DATA"          -> ProcessData(c, f, w)
      [] f.typ = "RST_STREAM"    -> ProcessRst(c, f)
      [] f.typ = "WINDOW_UPDATE" -> StreamWindowUpdate(c, f)
      [] f.typ = "PUSH_PROMISE"  -> Failed(c)
      [] OTHER                   -> Result(c, "continue")

\* process_frame: the CONTINUATION gate, then the dispatch on the stream id.
\* The set has one element except for a SETTINGS frame that overflows a window.
ProcessFrame(c, f, w) ==
    IF c.expecting # NoStream /\ ~(f.typ = "CONTINUATION" /\ f.id = c.expecting)
    THEN {Failed(c)}
    ELSE IF f.id = 0 THEN ProcessConnFrame(c, f, w) ELSE {ProcessStreamFrame(c, f, w)}

----------------------------------------------------------------------------
(* What the peer may put on the wire.  A frame is a record with a field per *)
(* thing the handlers look at.                                              *)

Headers(id, kind, es, eh, bad) ==
    [typ |-> "HEADERS", id |-> id, kind |-> kind, endStream |-> es, endHeaders |-> eh, bad |-> bad]
Continuation(id, eh) == [typ |-> "CONTINUATION", id |-> id, endHeaders |-> eh]
Data(id, len, pad, es, bad) ==
    [typ |-> "DATA", id |-> id, len |-> len, pad |-> pad, endStream |-> es, bad |-> bad]
Rst(id) == [typ |-> "RST_STREAM", id |-> id]
\* What parse_window_update makes of a payload: the increment, or bad if it is not four bytes.
WindowUpdate(id, inc, bad) == [typ |-> "WINDOW_UPDATE", id |-> id, inc |-> inc, bad |-> bad]
Settings(mcs, iws, mfs, bad) ==
    [typ |-> "SETTINGS", id |-> 0, ack |-> FALSE, mcs |-> mcs, iws |-> iws, mfs |-> mfs, bad |-> bad]
Ping == [typ |-> "PING", id |-> 0, ack |-> FALSE]
Goaway(last) == [typ |-> "GOAWAY", id |-> 0, last |-> last]
PushPromise(id) == [typ |-> "PUSH_PROMISE", id |-> id]
=============================================================================
