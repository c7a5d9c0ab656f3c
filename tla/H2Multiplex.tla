----------------------------- MODULE H2Multiplex -----------------------------
(***************************************************************************)
(* Connection::run_multiplexed of src/http2.rs: a batch of requests driven  *)
(* over one connection by a single thread.  The thread's position is `pc`:  *)
(*                                                                         *)
(*   "start"  inside start_queued, one turn of its loop per step           *)
(*   "pump"   inside pump_pending_sends, one DATA frame per step           *)
(*   "top"    the head of the frame loop                                   *)
(*   "read"   blocked in read_and_dispatch                                 *)
(*   "done"   returned                                                     *)
(*                                                                         *)
(* The thread reads only at "read", so a frame is chosen when it is read:   *)
(* the peer then knows every frame written so far, and every choice a       *)
(* slower peer could have made is among the ones it has.                    *)
(*                                                                         *)
(* `peer` is the other end's own ledger, kept from what crosses the wire    *)
(* and never read by the client: what it has been granted and has granted,  *)
(* and what it has sent on each stream.  With Strict, the peer only sends   *)
(* what RFC 9113 lets it send, judged by that ledger; without, anything.    *)
(***************************************************************************)
EXTENDS H2Connection

CONSTANTS
    N,            \* number of requests in the batch, reqs.len()
    BodyLen,      \* BodyLen[i]: bytes in the body of request i
    Strict,       \* the peer follows RFC 9113
    Features,     \* what the peer and the transport may do, see Frames
    McsValues, IwsValues, MfsValues,   \* SETTINGS values the peer may send
    DataLens, Increments,              \* DATA and WINDOW_UPDATE sizes
    Leftovers     \* frame size and connection windows earlier requests may leave behind

ASSUME BatchAssumption ==
    /\ N \in Nat \ {0}
    /\ BodyLen \in [1..N -> Nat]
    /\ Strict \in BOOLEAN
ASSUME PeerAssumption ==
    /\ McsValues \subseteq Nat /\ IwsValues \subseteq Nat /\ MfsValues \subseteq Nat
    /\ DataLens \subseteq Nat /\ Increments \subseteq Nat
    /\ Leftovers \subseteq [mfs : MinFrameSize..MaxFrameSize, send : 0..WindowMax,
                             recv : (OurInitialWindow \div 2)..OurInitialWindow]

Reqs == 1..N
StreamIds == {i \in 1..(StreamIdLimit - 1) : i % 2 = 1}
Outcomes == {"none", "ok", "badresponse", "streamerr", "goaway", "noopen", "fatal", "internal"}

VARIABLES
    conn,       \* the Connection
    pc,         \* where the thread is
    phase,      \* "prime" before the frame loop, "loop" inside it, "retry" in
                \* the second attempt to start requests when nothing is in flight
    head,       \* queue: the requests head..N are not started yet
    idToIdx,    \* live stream id -> request index
    results,    \* per-request slot, "none" while None
    got,        \* body length of each "ok" result
    peer,       \* the peer's ledger
    frame       \* the frame this step read, NoFrame if none (history)

vars == <<conn, pc, phase, head, idToIdx, results, got, peer, frame>>

NoFrame == [typ |-> "NONE", id |-> 0]

\* What the peer knows of one stream: has the request opened it, has either
\* side ended it, which response headers and how many body bytes it sent, its
\* credit towards us and ours towards it, and the request it carries.
FreshPeerStream ==
    [open |-> FALSE, clientEnded |-> FALSE, ended |-> FALSE, reset |-> FALSE,
     block |-> "none", hdrs |-> "none", sent |-> 0, credit |-> 0, window |-> 0, req |-> 0]

\* The connection run_multiplexed is called on: fresh from dial_h2, or checked
\* out of the pool with the settings, the windows and the stream ids of earlier requests.
StartingConnections ==
    {NewConnection} \cup
    {IdleConnection(m, v, l.mfs, l.send, l.recv, 3) :
        m \in McsValues, v \in {x \in IwsValues : x <= WindowMax}, l \in Leftovers}

Init ==
    /\ conn \in StartingConnections
    /\ pc = "start" /\ phase = "prime"
    /\ head = 1
    /\ idToIdx = [i \in {} |-> 0]
    /\ results = [r \in Reqs |-> "none"]
    /\ got = [r \in Reqs |-> 0]
    /\ peer = [credit |-> conn.recv, window |-> conn.send, last |-> StreamIdLimit,
               streams |-> [i \in StreamIds |-> FreshPeerStream]]
    /\ frame = NoFrame

----------------------------------------------------------------------------
(* Results.                                                                *)

Without(f, ids) == [i \in DOMAIN f \ ids |-> f[i]]
With(f, id, v) == [i \in DOMAIN f \cup {id} |-> IF i = id THEN v ELSE f[i]]
InFlight == {idToIdx[i] : i \in DOMAIN idToIdx}

\* Mutant: the queued requests are forgotten.
MutFailInFlightOnly(res, map, from) ==
    [r \in Reqs |-> IF res[r] = "none" /\ \E i \in DOMAIN map : map[i] = r THEN "fatal" ELSE res[r]]

\* fail_all_outstanding: in-flight and queued requests with no result yet.
FailAllOutstanding(res, map, from) ==
    [r \in Reqs |-> IF res[r] = "none" /\ (r >= from \/ \E i \in DOMAIN map : map[i] = r)
                    THEN "fatal" ELSE res[r]]

\* collect_results: a slot still empty when the driver returns.
CollectResults(res) == [r \in Reqs |-> IF res[r] = "none" THEN "internal" ELSE res[r]]

\* Leaving run_multiplexed.
Return(c, res) ==
    /\ conn' = c
    /\ results' = CollectResults(res)
    /\ pc' = "done"

----------------------------------------------------------------------------
(* start_queued.                                                           *)

\* One turn of the while loop: the next request gets a stream, or the error of
\* open_stream, or the error of a failed HEADERS write.
StartOne(w) ==
    /\ pc = "start" /\ head <= N /\ ~AtStreamLimit(conn)
    /\ head' = head + 1
    /\ IF CanOpenStream(conn)
       THEN LET id == conn.nextId
                opened == OpenStream(conn)
            IN  IF w
                THEN /\ conn' = StageRequest(opened, id, BodyLen[head])
                     /\ idToIdx' = With(idToIdx, id, head)
                     /\ peer' = [peer EXCEPT !.streams[id] =
                            [FreshPeerStream EXCEPT !.open = TRUE, !.req = head,
                                !.clientEnded = (BodyLen[head] = 0),
                                !.credit = OurInitialWindow, !.window = conn.iws]]
                     /\ UNCHANGED results
                ELSE /\ conn' = DropStreams(opened, {id})
                     /\ results' = [results EXCEPT ![head] = "fatal"]
                     /\ UNCHANGED <<idToIdx, peer>>
       ELSE /\ results' = [results EXCEPT ![head] = "noopen"]
            /\ UNCHANGED <<conn, idToIdx, peer>>
    /\ UNCHANGED <<pc, phase, got>>
    /\ frame' = NoFrame

\* The loop's exit.  From the retry at the head of the frame loop a batch that
\* still has nothing in flight fails what is queued and returns.
StartStop ==
    /\ pc = "start" /\ (head > N \/ AtStreamLimit(conn))
    /\ IF phase = "retry" /\ DOMAIN idToIdx = {}
       THEN /\ Return(PruneCompletedStreams(conn),
                      [r \in Reqs |-> IF r >= head /\ results[r] = "none"
                                      THEN "noopen" ELSE results[r]])
            /\ head' = N + 1
       ELSE /\ pc' = "pump"
            /\ UNCHANGED <<conn, results, head>>
    /\ UNCHANGED <<phase, idToIdx, got, peer>>
    /\ frame' = NoFrame

----------------------------------------------------------------------------
(* pump_pending_sends and the flush after it.                              *)

Sendable == {i \in Live(conn) : conn.streams[i].pending > 0
                                /\ ChunkSize(conn, i, conn.streams[i].pending) > 0}

\* pump_pending_sends or the flush returns Err: everything outstanding fails
\* with it, except on the retry path, which just leaves the loop.  Before the
\* loop the driver returns without pruning.
SendError(c) ==
    Return(IF phase = "prime" THEN c ELSE PruneCompletedStreams(c),
           IF phase = "retry" THEN results ELSE FailAllOutstanding(results, idToIdx, head))

\* The streams are visited in ascending order, each until it stalls; windows
\* only shrink meanwhile, so the next frame is for the lowest sendable id.
PumpChunk ==
    /\ pc = "pump"
    /\ \E id \in Sendable :
        LET s == conn.streams[id]
            n == ChunkSize(conn, id, s.pending)
            last == n = s.pending
            c1 == SendChunk(conn, id, n, last)
        IN  /\ \A j \in Sendable : id <= j
            /\ IF SendData(s.state, last) = "Err"
               THEN SendError(c1)
               ELSE /\ conn' = SetStream(c1, id, [c1.streams[id] EXCEPT !.pending = @ - n])
                    /\ UNCHANGED <<pc, results>>
            /\ peer' = [peer EXCEPT !.window = @ - n, !.streams[id].window = @ - n,
                                    !.streams[id].clientEnded = @ \/ last]
    /\ UNCHANGED <<phase, head, idToIdx, got>>
    /\ frame' = NoFrame

PumpDone ==
    /\ pc = "pump" /\ Sendable = {}
    /\ pc' = "top" /\ phase' = "loop"
    /\ UNCHANGED <<conn, head, idToIdx, results, got, peer>>
    /\ frame' = NoFrame

\* A DATA write or the flush fails.
PumpFails ==
    /\ pc = "pump" /\ "writefail" \in Features
    /\ SendError(conn)
    /\ UNCHANGED <<phase, head, idToIdx, got, peer>>
    /\ frame' = NoFrame

----------------------------------------------------------------------------
(* The frame loop.                                                         *)

Top ==
    /\ pc = "top"
    /\ IF \A r \in Reqs : results[r] # "none"
       THEN Return(PruneCompletedStreams(conn), results) /\ UNCHANGED phase
       ELSE IF DOMAIN idToIdx # {}
       THEN pc' = "read" /\ UNCHANGED <<conn, results, phase>>
       ELSE IF head > N
       THEN Return(PruneCompletedStreams(conn), results) /\ UNCHANGED phase
       ELSE pc' = "start" /\ phase' = "retry" /\ UNCHANGED <<conn, results>>
    /\ UNCHANGED <<head, idToIdx, got, peer>>
    /\ frame' = NoFrame

\* take_stream_error: the one tracked stream that is Closed without a complete
\* response, if there is exactly one.
Culprits(c) ==
    {i \in Live(c) \cap DOMAIN idToIdx : c.streams[i].state = "Closed" /\ ~Complete(c.streams[i])}

\* Mutant: the last-stream-id itself is abandoned.
MutDoomedInclusive(c) == {i \in DOMAIN idToIdx : i >= c.goaway}

\* fail_goaway_doomed
Doomed(c) ==
    {i \in DOMAIN idToIdx : i > c.goaway
        /\ ~(i \in Live(c) /\ c.streams[i].fin /\ c.streams[i].resp # "none")}

\* build_response_from_stream: a response without a usable :status is an error.
BuildResponse(s) == IF s.resp \in {"final", "info"} THEN "ok" ELSE "badresponse"

\* What the driver does with the result of dispatching one frame.
AfterError(r) ==
    IF Cardinality(Culprits(r.conn)) = 1
    THEN LET id == CHOOSE i \in Culprits(r.conn) : TRUE
         IN  /\ conn' = DropStreams(r.conn, {id})
             /\ results' = [results EXCEPT ![idToIdx[id]] = "streamerr"]
             /\ idToIdx' = Without(idToIdx, {id})
             /\ pc' = "start"
             /\ UNCHANGED got
    ELSE /\ Return(PruneCompletedStreams(r.conn), FailAllOutstanding(results, idToIdx, head))
         /\ UNCHANGED <<idToIdx, got>>

AfterFrame(r, id) ==
    LET doomed == IF r.conn.goaway = None THEN {} ELSE Doomed(r.conn)
        c1     == DropStreams(r.conn, doomed)
        map1   == Without(idToIdx, doomed)
        res1   == [q \in Reqs |-> IF \E i \in doomed : idToIdx[i] = q THEN "goaway" ELSE results[q]]
        done   == r.out = "done" /\ id \in DOMAIN map1
    IN  IF done
        THEN /\ conn' = DropStreams(c1, {id})
             /\ idToIdx' = Without(map1, {id})
             /\ results' = [res1 EXCEPT ![map1[id]] = BuildResponse(c1.streams[id])]
             /\ got' = [got EXCEPT ![map1[id]] = c1.streams[id].body]
             /\ pc' = "start"
        ELSE /\ conn' = c1 /\ idToIdx' = map1 /\ results' = res1
             /\ pc' = "pump"
             /\ UNCHANGED got

\* The peer's ledger after it sent frame f and saw the grants of result r.
PeerSent(f, r) ==
    LET p == peer.streams[f.id]
        q == CASE f.typ = "HEADERS" ->
                    [p EXCEPT !.ended = @ \/ f.endStream,
                              !.block = IF f.endHeaders THEN "none" ELSE f.kind,
                              !.hdrs = IF f.endHeaders /\ @ # "final" THEN f.kind ELSE @]
               [] f.typ = "CONTINUATION" /\ f.endHeaders ->
                    [p EXCEPT !.block = "none", !.hdrs = IF @ # "final" THEN p.block ELSE @]
               [] f.typ = "DATA" ->
                    [p EXCEPT !.ended = @ \/ f.endStream, !.sent = @ + (f.len - f.pad),
                              !.credit = @ - f.len + r.gs]
               [] f.typ = "RST_STREAM" -> [p EXCEPT !.reset = TRUE]
               [] f.typ = "WINDOW_UPDATE" -> [p EXCEPT !.window = @ + f.inc]
               [] OTHER -> p
    IN  IF f.id # 0
        THEN [peer EXCEPT !.streams[f.id] = q,
                          !.credit = IF f.typ = "DATA" THEN @ - f.len + r.g0 ELSE @]
        ELSE CASE f.typ = "WINDOW_UPDATE" -> [peer EXCEPT !.window = @ + f.inc]
               [] f.typ = "GOAWAY" -> [peer EXCEPT !.last = f.last]
               [] f.typ = "SETTINGS" /\ f.iws # Keep ->
                    [peer EXCEPT !.streams = [i \in StreamIds |->
                        IF peer.streams[i].open
                        THEN [peer.streams[i] EXCEPT !.window = @ + (f.iws - conn.iws)]
                        ELSE peer.streams[i]]]
               [] OTHER -> peer

Read(f, w) ==
    /\ pc = "read"
    /\ \E r \in ProcessFrame(conn, f, w) :
        /\ IF r.out = "err" THEN AfterError(r) ELSE AfterFrame(r, f.id)
        /\ peer' = IF Strict THEN PeerSent(f, r) ELSE peer
    /\ frame' = f
    /\ UNCHANGED <<phase, head>>

\* read_frame fails: the peer closed, or an I/O error.
ReadFails ==
    /\ pc = "read" /\ "eof" \in Features
    /\ AfterError(Failed(conn))
    /\ frame' = NoFrame
    /\ UNCHANGED <<phase, head, peer>>

----------------------------------------------------------------------------
(* The peer.                                                               *)

\* The frames of this instance.  Features names what may happen: "split" header
\* blocks over CONTINUATIONs, "splitend" also when the block ends the stream,
\* "info" and "trailers" blocks, "rst", "goaway", "settings", "padding", and
\* "hostile" frames no conforming peer sends.  ("writefail" and "eof" are the
\* transport's, "patient" is in Legal.)
Has(feature) == feature \in Features
Issued == {i \in StreamIds : i < conn.nextId}
Kinds ==
    {k \in BlockKinds :
        /\ k = "info" => Has("info")
        /\ k = "nostatus" => Has("trailers")
        /\ k = "garbage" => Has("hostile")}

Bad == IF Has("hostile") THEN BOOLEAN ELSE {FALSE}
Pads == IF Has("padding") THEN 0..1 ELSE {0}

HeadersFrames ==
    {f \in {Headers(i, k, es, eh, bad) :
               i \in Issued, k \in Kinds, es \in BOOLEAN, eh \in BOOLEAN, bad \in Bad} :
        ~f.endHeaders => Has(IF f.endStream THEN "splitend" ELSE "split")}
ContinuationFrames ==
    IF Has("split") THEN {Continuation(i, eh) : i \in Issued, eh \in BOOLEAN} ELSE {}
DataFrames ==
    {f \in {Data(i, n, pad, es, bad) :
               i \in Issued, n \in DataLens, pad \in Pads, es \in BOOLEAN, bad \in Bad} :
        f.pad <= f.len}
WindowUpdateFrames ==
    {f \in {WindowUpdate(i, n, bad) : i \in Issued \cup {0}, n \in Increments \cup {0}, bad \in Bad} :
        f.inc = 0 => Has("hostile")}
SettingsFrames ==
    IF Has("settings")
    THEN {Settings(m, v, s, bad) : m \in McsValues \cup {Keep}, v \in IwsValues \cup {Keep},
                                   s \in MfsValues \cup {Keep}, bad \in Bad}
    ELSE {}
OtherFrames ==
    {f \in {Rst(i) : i \in Issued} \cup {PushPromise(i) : i \in Issued}
           \cup {Goaway(l) : l \in StreamIds \cup {0}} \cup {Ping} :
        /\ f.typ = "RST_STREAM" => Has("rst")
        /\ f.typ = "PUSH_PROMISE" => Has("hostile")
        /\ f.typ = "GOAWAY" => Has("goaway")
        /\ f.typ = "PING" => Has("settings")}

Frames == HeadersFrames \cup ContinuationFrames \cup DataFrames
          \cup WindowUpdateFrames \cup SettingsFrames \cup OtherFrames

\* With "patient" the peer ends its response only after the whole request.
Patient(f) ==
    "patient" \in Features /\ f.endStream => peer.streams[f.id].clientEnded

\* A conforming peer's header blocks fit MAX_HEADERS_BUF.
FullBlock(i) == i \in Live(conn) /\ conn.streams[i].hdrLen + 2 > MaxHeadersBuf

\* RFC 9113 as far as the ledger goes: may a conforming peer send f now?
Legal(f) ==
    LET p == peer.streams[f.id]
        sending == p.open /\ ~p.ended /\ ~p.reset /\ f.id <= peer.last
    IN  /\ \A i \in StreamIds : peer.streams[i].block # "none" =>
                                f.typ = "CONTINUATION" /\ f.id = i
        /\ CASE f.typ = "HEADERS" ->
                  /\ sending /\ f.kind # "garbage" /\ ~f.bad
                  /\ f.kind = "nostatus" => p.hdrs = "final" /\ f.endStream
                  /\ f.kind # "nostatus" => p.hdrs # "final"
                  /\ f.kind = "info" => ~f.endStream
                  /\ Patient(f)
             [] f.typ = "CONTINUATION" ->
                  p.block # "none" /\ (f.endHeaders \/ ~FullBlock(f.id))
             [] f.typ = "DATA" ->
                  /\ sending /\ p.hdrs = "final" /\ ~f.bad
                  /\ f.len <= p.credit /\ f.len <= peer.credit
                  /\ Patient(f)
             [] f.typ = "RST_STREAM" -> p.open /\ ~p.reset /\ ~(p.ended /\ p.clientEnded)
             [] f.typ = "WINDOW_UPDATE" ->
                  /\ f.inc > 0 /\ ~f.bad
                  /\ IF f.id = 0 THEN peer.window + f.inc <= WindowMax
                     ELSE p.open /\ ~p.reset /\ p.window + f.inc <= WindowMax
             [] f.typ = "GOAWAY" -> f.last <= peer.last
             [] f.typ = "SETTINGS" ->
                  /\ ~f.bad /\ f.iws <= WindowMax
                  /\ f.mfs # Keep => f.mfs \in MinFrameSize..MaxFrameSize
                  /\ f.iws # Keep => \A i \in StreamIds : peer.streams[i].open =>
                                        peer.streams[i].window + (f.iws - conn.iws) <= WindowMax
             [] f.typ = "PUSH_PROMISE" -> FALSE
             [] OTHER -> TRUE

Writes == IF "writefail" \in Features THEN BOOLEAN ELSE {TRUE}

ReadFrame == \E f \in Frames, w \in Writes : (Strict => Legal(f)) /\ Read(f, w)
Start == \E w \in Writes : StartOne(w)
Finished == pc = "done" /\ UNCHANGED vars

Next == Start \/ StartStop \/ PumpChunk \/ PumpDone \/ PumpFails \/ Top
        \/ ReadFrame \/ ReadFails \/ Finished

Spec == Init /\ [][Next]_vars

\* Fairness.  The driver is one thread that is always runnable, so its own steps
\* are weakly fair.  The peer is a server that goes on answering: when it can
\* again and again end some response, finish a header block or grant some credit,
\* it eventually does.  It may put any frames it likes in between.
Endings == {f \in Frames : f.typ \in {"HEADERS", "DATA"} /\ f.endStream}
Tails == {f \in Frames : f.typ = "CONTINUATION" /\ f.endHeaders}
Credits == {f \in Frames : f.typ = "WINDOW_UPDATE"}
Serve(frames) == \E f \in frames : (Strict => Legal(f)) /\ Read(f, TRUE)
DriverStep == Start \/ StartStop \/ PumpChunk \/ PumpDone \/ Top

FairSpec ==
    /\ Spec
    /\ WF_vars(DriverStep)
    /\ SF_vars(Serve(Endings)) /\ SF_vars(Serve(Tails)) /\ SF_vars(Serve(Credits))

----------------------------------------------------------------------------
(* Properties.                                                             *)

\* Type correctness: every stream the driver keeps is in a state of the enum, its
\* buffers are within MAX_HEADERS_BUF and MAX_RESPONSE_BYTES, and the slots and
\* the queue have the shape run_multiplexed gives them.
TypeOK ==
    /\ conn \in [mcs : Nat, iws : Nat, mfs : Nat, send : Int, recv : Int,
                 streams : [Live(conn) -> Stream],
                 nextId : Nat, goaway : Nat \cup {None}, expecting : StreamIds \cup {NoStream}]
    /\ Live(conn) \subseteq StreamIds
    /\ pc \in {"start", "pump", "top", "read", "done"}
    /\ phase \in {"prime", "loop", "retry"}
    /\ head \in 1..(N + 1)
    /\ idToIdx \in [DOMAIN idToIdx -> Reqs] /\ DOMAIN idToIdx \subseteq StreamIds
    /\ results \in [Reqs -> Outcomes]
    /\ got \in [Reqs -> Nat]

\* The driver never loses or mixes up a request: until it returns, a slot is
\* empty exactly when its request is still queued or in flight, a request is in
\* flight on one stream only, and the tracked ids are the registered streams
\* (so the expect("Done stream must still be registered") cannot panic).
EveryRequestAccounted ==
    pc # "done" =>
        /\ DOMAIN idToIdx = Live(conn)
        /\ \A i, j \in DOMAIN idToIdx : idToIdx[i] = idToIdx[j] => i = j
        /\ \A i \in DOMAIN idToIdx : idToIdx[i] < head
        /\ \A r \in Reqs : results[r] = "none" <=> (r >= head \/ r \in InFlight)

\* No caller ever sees collect_results' "internal: multiplexed request produced
\* no result", although one exit of the loop fails nothing.
NoInternalError == \A r \in Reqs : results[r] # "internal"

\* A response that is delivered is the one its own stream carried, whole: the
\* peer ended that stream with END_STREAM, sent final headers on it, and every
\* body byte it sent (padding removed) is in the body.
DeliveredWhole ==
    \A r \in Reqs : results[r] = "ok" =>
        \E i \in StreamIds :
            LET p == peer.streams[i]
            IN  p.req = r /\ p.ended /\ p.hdrs = "final" /\ p.sent = got[r]

\* And the converse: once the peer has sent a whole response, of MAX_RESPONSE_BYTES at
\* most, its request has it.  No such response is dropped, held back or turned into an
\* error, by its own frames or another stream's.
CompleteIsDelivered ==
    \A i \in StreamIds :
        LET p == peer.streams[i]
        IN  p.open /\ p.ended /\ p.block = "none" /\ p.sent <= MaxResponseBytes
            => results[p.req] = "ok"

\* The two ends agree on every flow-control window while the driver runs: the
\* credit we think the peer has left is what it has, and the reverse.
WindowsAgree ==
    pc # "done" =>
        /\ conn.recv = peer.credit /\ conn.send = peer.window
        /\ \A i \in Live(conn) : /\ conn.streams[i].recv = peer.streams[i].credit
                                  /\ conn.streams[i].send = peer.streams[i].window

\* process_data replenishes early enough: whenever the driver waits for a frame,
\* the peer has credit on the connection and on every stream it is to answer, so
\* a response of any length keeps flowing.
PeerNeverStarved ==
    pc = "read" => peer.credit > 0 /\ \A i \in Live(conn) : peer.streams[i].credit > 0

\* A DATA frame of a request body fits the peer's connection window, the
\* stream's window (also after SETTINGS shrank it below zero) and the peer's
\* SETTINGS_MAX_FRAME_SIZE.
SendsWithinCredit ==
    [][pc = "pump" =>
        /\ peer'.window >= 0 /\ peer.window - peer'.window <= conn.mfs
        /\ \A i \in StreamIds : peer'.streams[i].window < peer.streams[i].window
                                => peer'.streams[i].window >= 0]_vars

\* A conforming peer makes the driver give up the whole connection in one way only, with
\* a response body above MAX_RESPONSE_BYTES.  Nothing else it may send between the
\* batch's frames is taken for an error that is not one stream's.  (RFC 9113 has no limit
\* on bodies, and run_multiplexed's comment, http2.rs:1962-1963, has an error of one
\* stream fail that request only; process_data leaves the stream open when it refuses
\* the body, http2.rs:2605, and then no culprit is found.)
OversizedBody == \E i \in StreamIds : peer.streams[i].sent > MaxResponseBytes
ConformingPeerNeverFatal == (\E r \in Reqs : results[r] = "fatal") => OversizedBody

\* RST_STREAM fails the request of its own stream and no other (the driver has
\* to find the culprit by looking for the one closed, unfinished stream).
ResetIsIsolated ==
    [][pc = "read" /\ frame'.typ = "RST_STREAM" =>
        \A r \in Reqs : results'[r] # results[r] =>
            frame'.id \in DOMAIN idToIdx /\ idToIdx[frame'.id] = r]_vars

\* GOAWAY splits the batch at its last-stream-id: no request waits on a stream
\* above it, and a request failed as abandoned was on a stream above it, which
\* the peer promises not to have processed.
GoawayBoundary ==
    /\ pc \in {"start", "pump", "top", "read"} => \A i \in DOMAIN idToIdx : i <= peer.last
    /\ \A i \in StreamIds :
        peer.streams[i].open /\ results[peer.streams[i].req] = "goaway" => i > peer.last

\* Opening a stream keeps the streams the peer still counts as open within its
\* SETTINGS_MAX_CONCURRENT_STREAMS.
PeerOpen == {i \in StreamIds : LET p == peer.streams[i]
                               IN  p.open /\ ~p.reset /\ ~(p.ended /\ p.clientEnded)}
StreamLimitHonoured ==
    [][head' # head /\ PeerOpen' # PeerOpen => Cardinality(PeerOpen') <= conn.mcs]_vars

\* Every batch ends: with a server that goes on answering, run_multiplexed
\* returns, whatever the windows, the limit and the order of frames.
BatchReturns == <>(pc = "done")

=============================================================================
