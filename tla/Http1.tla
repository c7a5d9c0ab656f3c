-------------------------------- MODULE Http1 --------------------------------
(***************************************************************************)
(* HTTP/1.1 requests of concurrent threads over the process-wide pools of   *)
(* idle connections: send_plain and the HTTP/1.1 part of send_https in      *)
(* src/http.rs, and src/pool.rs.  A thread makes one call of Request::send  *)
(* (later calls of a thread are calls that start later), and dials at most  *)
(* once: connection r is the one that call r dials.                        *)
(*                                                                         *)
(* A response is its head and its body; what the head says decides how the  *)
(* body is read and whether the connection is parked.                      *)
(***************************************************************************)
EXTENDS Naturals, SequencesExt, FiniteSetsExt

CONSTANTS
    Calls,
    Hosts,
    PerKeyCap,   \* POOL_PER_KEY_CAP
    GlobalCap,   \* POOL_GLOBAL_CAP
    Requests,    \* requests that are made
    Responses,   \* final responses of the servers
    None,        \* no connection, no call, no head
    Interim      \* requests that a server may answer with a 1xx response before the final one

Schemes == {"http", "https"}
Keys == Schemes \X Hosts
RequestType == [scheme : Schemes, host : Hosts, method : {"GET", "HEAD"}, valid : BOOLEAN,
                verify : BOOLEAN, caBundle : BOOLEAN, direct : BOOLEAN]
ResponseType == [status : {"final", "nobody", "1xx"}, framing : {"length", "chunked", "none"},
                 version : {"1.1", "1.0"}, connection : {"", "close", "keep-alive"},
                 encoded : BOOLEAN, fault : {"no", "head", "body"}]

ASSUME Http1Assumption ==
    /\ IsFiniteSet(Calls) /\ PerKeyCap \in Nat /\ GlobalCap \in Nat
    /\ Requests \subseteq RequestType /\ Interim \subseteq Requests
    /\ Responses \subseteq {p \in ResponseType : p.status # "1xx"}

ASSUME NoneAssumption == None \notin Calls \cup ResponseType

VARIABLES
    req,      \* req[r]: the request of call r
    call,     \* call[r]: where call r is, the connection it uses, and whether that was pooled
    resp,     \* resp[r]: the response call r is reading: its head, and whose body it read
    pool,     \* pool[key]: parked connections, the last released at the end
    conn,     \* conn[c]: a connection, seen from both ends
    wire      \* wire[c]: what the server sent on c and nobody has read

vars == <<req, call, resp, pool, conn, wire>>

Gone == [state |-> "gone"]   \* not dialled yet, or dropped by the client
EmptyResponse == [of |-> None, head |-> None, body |-> None]

Init ==
    /\ req \in [Calls -> Requests]
    /\ call = [r \in Calls |-> [pc |-> "new", conn |-> None, pooled |-> FALSE]]
    /\ resp = [r \in Calls |-> EmptyResponse]
    /\ pool = [k \in Keys |-> <<>>]
    /\ conn = [c \in Calls |-> Gone]
    /\ wire = [c \in Calls |-> <<>>]

----------------------------------------------------------------------------
(* The pool.                                                               *)

PoolKeyFor(q) == <<q.scheme, q.host>>

\* Mutant: a private CA bundle is taken for the default trust store.
MutTlsPoolEligible(q) == q.verify

TlsPoolEligible(q) == q.verify /\ ~q.caBundle

\* May this request share connections at all?
MayPool(q) == q.direct /\ (q.scheme = "https" => TlsPoolEligible(q))

\* Pool::checkout takes the most recently parked connection out.
Checkout(key) == [pool EXCEPT ![key] = Front(@)]

\* Connections parked in the pool of a scheme (each scheme has a pool).
Places(scheme) == UNION {{h} \X DOMAIN pool[<<scheme, h>>] : h \in Hosts}
Parked(scheme) == Cardinality(Places(scheme))

\* Mutant: the cap is tested after the connection is added.
MutHasRoom(key) == Parked(key[1]) <= GlobalCap /\ Len(pool[key]) <= PerKeyCap

HasRoom(key) == Parked(key[1]) < GlobalCap /\ Len(pool[key]) < PerKeyCap

----------------------------------------------------------------------------
(* Reading a response.                                                     *)

\* Mutant: only Content-Length announces a body.
MutNoBodyAllowed(method, p) == method = "HEAD" \/ p.status # "final" \/ p.framing = "chunked"

NoBodyAllowed(method, p) == method = "HEAD" \/ p.status # "final"

\* Mutant: chunks may end with the connection, too.
MutCloseDelimited(p) == p.framing # "length"

\* Neither chunked nor a length: the end of the connection ends the body.
CloseDelimited(p) == p.framing = "none"

\* Decoding the body strips Content-Length from the headers.
Decoded(p) == IF p.encoded /\ p.framing = "length" THEN [p EXCEPT !.framing = "none"] ELSE p

ResponseIsReusable(method, p) ==
    /\ p.connection # "close"
    /\ p.framing # "none" \/ NoBodyAllowed(method, p)
    /\ p.version = "1.1" \/ p.connection = "keep-alive"

----------------------------------------------------------------------------
(* A call.                                                                 *)

Goto(r, pc) == call' = [call EXCEPT ![r].pc = pc]
At(r, pcs) == call[r].pc \in pcs

\* send_plain, send_https: use a parked connection or dial.
Start(r) ==
    /\ At(r, {"new"})
    /\ LET key == PoolKeyFor(req[r])
       IN  IF MayPool(req[r]) /\ pool[key] # <<>>
           THEN /\ call' = [call EXCEPT ![r] = [pc |-> "write", conn |-> Last(pool[key]), pooled |-> TRUE]]
                /\ pool' = Checkout(key)
           ELSE Goto(r, "dial") /\ UNCHANGED pool
    /\ UNCHANGED <<req, resp, conn, wire>>

\* tcp_connect, connect_tunnel through a proxy, the TLS handshake: all or nothing.
Dial(r) ==
    /\ At(r, {"dial"})
    /\ \/ /\ conn' = [conn EXCEPT ![r] =
                [state |-> "open", key |-> PoolKeyFor(req[r]), direct |-> req[r].direct,
                 verify |-> req[r].verify, caBundle |-> req[r].caBundle,
                 inbox |-> <<>>, serving |-> None, trailer |-> None]]
          /\ wire' = [wire EXCEPT ![r] = <<>>]
          /\ call' = [call EXCEPT ![r] = [pc |-> "write", conn |-> r, pooled |-> FALSE]]
       \/ Goto(r, "err") /\ UNCHANGED <<conn, wire>>
    /\ UNCHANGED <<req, resp, pool>>

Drop(c) == conn' = [conn EXCEPT ![c] = Gone] /\ wire' = [wire EXCEPT ![c] = <<>>]

\* Mutant: whatever looks stale is retried, on a fresh connection too.
MutAfterStale(r) == "dial"

\* A stale failure is retried once, on a fresh connection.
AfterStale(r) == IF call[r].pooled THEN "dial" ELSE "err"

\* PooledError::Stale (EOF, reset, broken pipe) and PooledError::Hard: the
\* connection is dropped.
Stale(r) == Goto(r, AfterStale(r)) /\ Drop(call[r].conn) /\ resp' = [resp EXCEPT ![r] = EmptyResponse]
Hard(r) == Goto(r, "err") /\ Drop(call[r].conn) /\ UNCHANGED resp

\* write_request: nothing is written of a request that does not validate.  On a
\* connection the server closed the write may still succeed.
WriteRequest(r) ==
    /\ At(r, {"write"})
    /\ LET c == call[r].conn
       IN  \/ ~req[r].valid /\ Hard(r)
           \/ /\ req[r].valid /\ Goto(r, "head")
              /\ conn' = IF conn[c].state = "open" THEN [conn EXCEPT ![c].inbox = Append(@, r)] ELSE conn
              /\ UNCHANGED <<wire, resp>>
           \/ req[r].valid /\ conn[c].state = "closed" /\ Stale(r)
    /\ UNCHANGED <<req, pool>>

\* read_response up to the empty line.  A stray body is no status line.
ReadHead(r) ==
    /\ At(r, {"head"}) /\ wire[call[r].conn] # <<>>
    /\ LET c == call[r].conn
           m == Head(wire[c])
           p == m.head
       IN  IF p = None \/ p.fault = "head" \/ (NoBodyAllowed(req[r].method, p) /\ p.fault = "body")
           THEN Hard(r)
           ELSE /\ resp' = [resp EXCEPT ![r] = [of |-> m.of, head |-> p, body |-> None]]
                /\ wire' = [wire EXCEPT ![c] = Tail(@)]
                /\ Goto(r, IF NoBodyAllowed(req[r].method, p) THEN "release" ELSE "body")
                /\ UNCHANGED conn
    /\ UNCHANGED <<req, pool>>

\* read_body of a body with a length or in chunks, and its decoding: the rest of the body, in
\* chunks with the empty line behind the trailers.
ReadBody(r) ==
    /\ At(r, {"body", "trailers"}) /\ ~CloseDelimited(resp[r].head)
    /\ wire[call[r].conn] # <<>> /\ conn[call[r].conn].trailer = None
    /\ LET c == call[r].conn
       IN  IF resp[r].head.fault = "body" THEN Hard(r)
           ELSE /\ resp' = [resp EXCEPT ![r].body = Head(wire[c]).of]
                /\ wire' = [wire EXCEPT ![c] = Tail(@)]
                /\ Goto(r, "release")
                /\ UNCHANGED conn
    /\ UNCHANGED <<req, pool>>

\* The last chunk, or a line of the loop of read_chunked behind it, which reads on however
\* many there are.
ReadTrailer(r) ==
    /\ At(r, {"body", "trailers"}) /\ ~CloseDelimited(resp[r].head)
    /\ LET c == call[r].conn
       IN  /\ conn[c].trailer # None
           /\ IF resp[r].head.fault = "body" THEN Hard(r)
              ELSE /\ resp' = [resp EXCEPT ![r].body = conn[c].trailer]
                   /\ conn' = [conn EXCEPT ![c].trailer = None]
                   /\ Goto(r, "trailers")
                   /\ UNCHANGED wire
    /\ UNCHANGED <<req, pool>>

\* A connection that ends among the trailers ends the body (n == 0), with success.
TrailersCut(r) ==
    /\ At(r, {"trailers"}) /\ conn[call[r].conn].state = "closed"
    /\ wire[call[r].conn] = <<>> /\ conn[call[r].conn].trailer = None
    /\ Goto(r, "release")
    /\ UNCHANGED <<req, resp, pool, conn, wire>>

\* read_body up to the end of the connection: all there was is the body.
ReadToEnd(r) ==
    /\ At(r, {"body"}) /\ CloseDelimited(resp[r].head) /\ conn[call[r].conn].state = "closed"
    /\ IF resp[r].head.fault = "body" THEN Hard(r)
       ELSE /\ wire' = [wire EXCEPT ![call[r].conn] = <<>>]
            /\ conn' = [conn EXCEPT ![call[r].conn].trailer = None]
            /\ Goto(r, "release")
            /\ UNCHANGED resp
    /\ UNCHANGED <<req, pool>>

\* The connection ends, or is reset, before the response does.
PeerGone(r) ==
    /\ At(r, {"head", "body", "trailers"}) /\ conn[call[r].conn].state = "closed"
    /\ Stale(r)
    /\ UNCHANGED <<req, pool>>

\* A read takes longer than read_timeout.  (Up to the end of the connection
\* everything there is has been read by then.)
ReadTimeout(r) ==
    /\ At(r, {"head", "body", "trailers"}) /\ conn[call[r].conn].state = "open"
    /\ \/ wire[call[r].conn] = <<>> /\ conn[call[r].conn].trailer = None
       \/ (At(r, {"body"}) /\ CloseDelimited(resp[r].head))
    /\ Hard(r)
    /\ UNCHANGED <<req, pool>>

\* finalize_plain, finalize_tls: park the connection or drop it, and return Ok.
Finalize(r) ==
    /\ At(r, {"release"})
    /\ Goto(r, "ok")
    /\ LET key == PoolKeyFor(req[r])
       IN  IF /\ MayPool(req[r]) /\ HasRoom(key)
              /\ ResponseIsReusable(req[r].method, Decoded(resp[r].head))
           THEN pool' = [pool EXCEPT ![key] = Append(@, call[r].conn)] /\ UNCHANGED <<conn, wire>>
           ELSE Drop(call[r].conn) /\ UNCHANGED pool
    /\ UNCHANGED <<req, resp>>

----------------------------------------------------------------------------
(* The servers.                                                            *)

\* The server closes after this response.
Closing(method, p) ==
    \/ p.connection = "close"
    \/ p.version = "1.0" /\ p.connection # "keep-alive"
    \/ p.framing = "none" /\ ~(method = "HEAD" \/ p.status # "final")

Closed(c) == [conn[c] EXCEPT !.state = "closed", !.inbox = <<>>, !.serving = None]

\* The head of the answer to the next request on c.
SendHead(c) ==
    /\ conn[c].state = "open" /\ conn[c].serving = None /\ conn[c].inbox # <<>>
    /\ \E p \in Responses :
        LET r == Head(conn[c].inbox)
            hasBody == req[r].method # "HEAD" /\ p.status = "final"
        IN  /\ wire' = [wire EXCEPT ![c] = Append(@, [of |-> r, head |-> p])]
            /\ conn' = [conn EXCEPT ![c] =
                   IF hasBody THEN [conn[c] EXCEPT !.serving = [of |-> r, head |-> p], !.inbox = Tail(@)]
                   ELSE IF Closing(req[r].method, p) THEN Closed(c)
                   ELSE [conn[c] EXCEPT !.inbox = Tail(@)]]
    /\ UNCHANGED <<req, call, resp, pool>>

SendBody(c) ==
    /\ conn[c].state = "open" /\ conn[c].serving # None
    /\ LET s == conn[c].serving
       IN  /\ wire' = [wire EXCEPT ![c] = Append(@, [of |-> s.of, head |-> None])]
           /\ conn' = [conn EXCEPT ![c] = IF Closing(req[s.of].method, s.head) THEN Closed(c)
                                          ELSE [conn[c] EXCEPT !.serving = None]]
    /\ UNCHANGED <<req, call, resp, pool>>

\* The last chunk of a body, or a trailer line behind it (bounds: one unread line at a
\* time, and none before the head is read).
SendTrailer(c) ==
    /\ conn[c].state = "open" /\ conn[c].serving # None
    /\ conn[c].serving.head.framing = "chunked"
    /\ conn[c].trailer = None /\ wire[c] = <<>>
    /\ conn' = [conn EXCEPT ![c].trailer = conn[c].serving.of]
    /\ UNCHANGED <<req, call, resp, pool, wire>>

\* A 1xx response before the final one.
SendInterim(c) ==
    /\ conn[c].state = "open" /\ conn[c].serving = None
    /\ conn[c].inbox # <<>> /\ req[Head(conn[c].inbox)] \in Interim
    /\ wire[c] = <<>>
    /\ wire' = [wire EXCEPT ![c] = <<[of |-> Head(conn[c].inbox),
                    head |-> [status |-> "1xx", framing |-> "none", version |-> "1.1",
                              connection |-> "", encoded |-> FALSE, fault |-> "no"]]>>]
    /\ UNCHANGED <<req, call, resp, pool, conn>>

\* The server closes, idle or in the middle of an answer.
Close(c) ==
    /\ conn[c].state = "open"
    /\ conn' = [conn EXCEPT ![c] = Closed(c)]
    /\ UNCHANGED <<req, call, resp, pool, wire>>

----------------------------------------------------------------------------
Returned == \A r \in Calls : At(r, {"ok", "err"})
Finished == Returned /\ UNCHANGED vars

Step(r) == Start(r) \/ Dial(r) \/ WriteRequest(r) \/ ReadHead(r) \/ ReadBody(r)
           \/ ReadTrailer(r) \/ TrailersCut(r) \/ ReadToEnd(r) \/ PeerGone(r) \/ ReadTimeout(r) \/ Finalize(r)

Next ==
    \/ \E r \in Calls : Step(r) \/ SendHead(r) \/ SendTrailer(r) \/ SendBody(r) \/ SendInterim(r) \/ Close(r)
    \/ Finished

Spec == Init /\ [][Next]_vars

\* Threads run, and no read blocks longer than read_timeout, which every request
\* has.  Nothing is assumed of the servers.
FairSpec == Spec /\ \A r \in Calls : WF_vars(Step(r))

----------------------------------------------------------------------------
(* Properties.                                                             *)

\* Where a call has a connection.
Holding == {"write", "head", "body", "trailers", "release"}

\* Type correctness; a call past the dial has a connection that is not dropped.
TypeOK ==
    /\ req \in [Calls -> Requests]
    /\ \A r \in Calls :
        /\ call[r].pc \in {"new", "dial", "write", "head", "body", "trailers", "release", "ok", "err"}
        /\ call[r].conn \in Calls \cup {None} /\ call[r].pooled \in BOOLEAN
        /\ resp[r].of \in Calls \cup {None} /\ resp[r].body \in Calls \cup {None}
        /\ resp[r].head \in ResponseType \cup {None}
        /\ conn[r].state \in {"open", "closed", "gone"}
        /\ At(r, Holding) => conn[call[r].conn].state # "gone"
    /\ pool \in [Keys -> Seq(Calls)]

\* The calls that hold connection c.
Holders(c) == {r \in Calls : At(r, Holding) /\ call[r].conn = c}

\* Ok is the answer to one's own request, with its own body, and the whole of it
\* unless the end of the connection delimits it.
AnswersOwnRequest ==
    \A r \in Calls : At(r, {"ok"}) =>
        /\ resp[r].of = r
        /\ resp[r].body # r => NoBodyAllowed(req[r].method, resp[r].head) \/ resp[r].head.framing = "none"

\* A request only travels over a connection to its own authority, direct or
\* through a proxy as it asked for, whose TLS peer was checked as it demands.
CarriedAsAsked ==
    \A r \in Calls : At(r, Holding) =>
        LET c == conn[call[r].conn]
        IN  /\ c.key = PoolKeyFor(req[r])
            /\ c.direct = req[r].direct
            /\ req[r].scheme = "https" => c.verify = req[r].verify /\ c.caBundle = req[r].caBundle

\* A parked connection is nobody's, was parked once, and is quiet: no response or
\* part of one is unread, and no request is unanswered.
ParkedQuiet ==
    \A k \in Keys : \A i \in DOMAIN pool[k] :
        LET c == pool[k][i]
        IN  /\ Holders(c) = {} /\ Cardinality({j \in DOMAIN pool[k] : pool[k][j] = c}) = 1
            /\ wire[c] = <<>>
            /\ conn[c].inbox = <<>> /\ conn[c].serving = None /\ conn[c].trailer = None

\* The two caps of the pool.
PoolWithinCaps ==
    /\ \A s \in Schemes : Parked(s) <= GlobalCap
    /\ \A k \in Keys : Len(pool[k]) <= PerKeyCap

\* Every call returns, although servers stay silent, send what nobody asked for and close
\* connections at any moment, and whatever the other calls do; unless its server sends it
\* trailer lines for ever, which read_chunked neither counts nor limits (http.rs:1580-1586).
CallsReturn == \A r \in Calls : <>At(r, {"ok", "err"}) \/ []<><<ReadTrailer(r)>>_vars

=============================================================================
