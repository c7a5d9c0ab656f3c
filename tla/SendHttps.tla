----------------------------- MODULE SendHttps -----------------------------
(***************************************************************************)
(* Version routing of HTTPS requests: send_https in src/http.rs, and send,  *)
(* send_multiplexed and the pool of HTTP/2 connections in src/http2.rs.     *)
(* Threads make calls to one authority, each a request or a batch of two.   *)
(* What happens on one HTTP/2 connection is in H2Multiplex, what happens on *)
(* an HTTP/1.1 connection in Http1, and on a QUIC connection in Http3; here *)
(* an exchange is sent, handled by the server or not, and answered or lost. *)
(***************************************************************************)
EXTENDS Naturals, SequencesExt, FiniteSetsExt

CONSTANTS
    Calls,
    Requests,    \* the calls that are made
    Cap,         \* POOL_PER_KEY_CAP
    StreamIds,   \* streams that a connection has ids for
    Speaks       \* versions that the servers behind the authority speak

Prefs == {"Auto", "Http11Only", "Http2Only", "Http3", "Http3Only"}
Postures == {"default", "insecure", "cacert"}   \* verify_tls and ca_bundle
RequestType == [kind : {"single"}, pref : Prefs, posture : Postures]
               \cup [kind : {"batch"}, sameOrigin : BOOLEAN, posture : Postures]

ASSUME SendHttpsAssumption ==
    /\ IsFiniteSet(Calls) /\ Requests \subseteq RequestType
    /\ Cap \in Nat /\ StreamIds \in Nat \ {0} /\ Speaks \subseteq {"h1", "h2", "h3"}

VARIABLES
    req,     \* req[r]: what call r is asked for
    call,    \* call[r]: where it is, at which of its requests, on which HTTP/2 connection, and the results so far
    tries,   \* tries[r][i]: every time request i of r was written: over which version, and how the peer was verified
    pool,    \* the parked HTTP/2 connections
    conn     \* conn[c]: an HTTP/2 connection

vars == <<req, call, tries, pool, conn>>

Size(q) == IF q.kind = "batch" THEN 2 ELSE 1
Conns == Calls \X {1, 2}   \* a call dials once for each of its requests, or once for the batch
NoConn == <<>>
Gone == [state |-> "gone", ids |-> 0, told |-> "nothing", posture |-> "default", inbox |-> {}, outbox |-> {}]

Init ==
    /\ req \in [Calls -> Requests]
    /\ call = [r \in Calls |-> [pc |-> "start", i |-> 1, conn |-> NoConn, results |-> <<"none", "none">>]]
    /\ tries = [r \in Calls |-> <<<<>>, <<>>>>]
    /\ pool = <<>>
    /\ conn = [c \in Conns |-> Gone]

----------------------------------------------------------------------------
(* The pool of HTTP/2 connections.                                         *)

\* Mutant: whatever was dialled is shared.
MutPoolEligible(q) == TRUE

PoolEligible(q) == q.posture = "default"

\* Mutant: the connection stays in the pool.
MutCheckout == pool

Checkout == Front(pool)

\* Connection::is_usable, as the client knows the connection.
IsUsable(c) == conn[c].told # "goaway" /\ conn[c].ids > 0

\* open_stream knows the peer's stream limit, too.
OpensStream(c) == conn[c].told = "nothing" /\ conn[c].ids > 0

----------------------------------------------------------------------------
(* A call.                                                                 *)

At(r, pcs) == call[r].pc \in pcs
Goto(r, pc) == call' = [call EXCEPT ![r].pc = pc]

\* The requests that are written at once over an HTTP/2 connection.
Flight(r) == IF At(r, {"batchWrite", "batchRead"}) THEN {1, 2} ELSE {call[r].i}
Written(r, version, posture) ==
    tries' = [tries EXCEPT ![r] = [i \in {1, 2} |->
        IF i \in Flight(r) THEN Append(@[i], [version |-> version, posture |-> posture]) ELSE @[i]]]

\* Request i of r has its result: the call returns, or a sequential batch goes on.
Answer(r, result) ==
    call' = [call EXCEPT ![r].results[call[r].i] = result,
                         ![r].i = IF @ < Size(req[r]) THEN @ + 1 ELSE @,
                         ![r].pc = IF call[r].i < Size(req[r]) THEN "h2" ELSE "done",
                         ![r].conn = NoConn]

Drop(c) == conn' = [conn EXCEPT ![c] = Gone]

\* send_https, send_multiplexed: the version the call starts with.
Start(r) ==
    /\ At(r, {"start"})
    /\ IF req[r].kind = "batch"
       THEN Goto(r, IF req[r].sameOrigin /\ PoolEligible(req[r]) THEN "batch" ELSE "h2")
       ELSE Goto(r, CASE req[r].pref \in {"Http3", "Http3Only"} -> "h3"
                      [] req[r].pref = "Http11Only" -> "h1"
                      [] OTHER -> "h2")
    /\ UNCHANGED <<req, tries, pool, conn>>

\* After a transport failure of HTTP/3: send_https goes on with the Auto path.
AfterHttp3(q) == IF q.pref = "Http3" THEN "h2" ELSE "err"

\* http3::send dials, writes the request and reads the response.  A failure is one of
\* the transport (h3_should_fall_back), before or after the request was written, or
\* one of the response.
Http3(r) ==
    /\ At(r, {"h3"})
    /\ \/ /\ "h3" \in Speaks /\ Written(r, "h3", req[r].posture)
          /\ \/ Answer(r, "h3")
             \/ Answer(r, "err")
             \/ AfterHttp3(req[r]) = "h2" /\ Goto(r, "h2")
       \/ /\ UNCHANGED tries
          /\ IF AfterHttp3(req[r]) = "h2" THEN Goto(r, "h2") ELSE Answer(r, "err")
    /\ UNCHANGED <<req, pool, conn>>

\* http2::send, send_multiplexed: at most one attempt with a parked connection.
TakePooled(r) ==
    /\ At(r, {"h2", "batch"})
    /\ LET dial  == IF At(r, {"h2"}) THEN "dial" ELSE "batchDial"
           write == IF At(r, {"h2"}) THEN "pooledWrite" ELSE "batchWrite"
       IN  IF ~PoolEligible(req[r]) \/ pool = <<>>
           THEN Goto(r, dial) /\ UNCHANGED <<pool, conn>>
           ELSE /\ pool' = Checkout
                /\ IF IsUsable(Last(pool))
                   THEN call' = [call EXCEPT ![r].pc = write, ![r].conn = Last(pool)] /\ UNCHANGED conn
                   ELSE Goto(r, dial) /\ Drop(Last(pool))
    /\ UNCHANGED <<req, tries>>

\* What a handshake that does not select h2 leads to: the Auto path goes on with
\* HTTP/1.1, send returns Error::H2NotNegotiated.
NotNegotiated(q) == IF q.kind = "single" /\ q.pref \in {"Auto", "Http3"} THEN "h1" ELSE "noh2"

\* dial_h2: TCP, a tunnel, TLS with its verification, and ALPN.  When the dial for a
\* whole batch fails, the requests are sent one after the other.
Dial(r) ==
    /\ At(r, {"dial", "batchDial"})
    /\ LET c == <<r, call[r].i>>
       IN  \/ /\ "h2" \in Speaks
              /\ conn' = [conn EXCEPT ![c] = [Gone EXCEPT !.state = "open", !.ids = StreamIds, !.posture = req[r].posture]]
              /\ call' = [call EXCEPT ![r].pc = IF At(r, {"dial"}) THEN "coldWrite" ELSE "batchWrite", ![r].conn = c]
           \/ /\ UNCHANGED conn
              /\ IF At(r, {"batchDial"}) THEN Goto(r, "h2")
                 ELSE \/ Answer(r, "err")
                      \/ /\ Speaks # {"h2"}
                         /\ IF NotNegotiated(req[r]) = "h1" THEN Goto(r, "h1")
                            ELSE Answer(r, NotNegotiated(req[r]))
    /\ UNCHANGED <<req, tries, pool>>

\* Mutant: the error of a fresh connection is discarded, too.
MutAfterFailure(r) == "dial"

\* An error on a pooled connection is discarded and the request sent again.
AfterFailure(r) == IF At(r, {"pooledWrite", "pooledRead"}) THEN "dial" ELSE "err"

\* The exchange of a single request failed: its connection is dropped.
FailSingle(r) ==
    /\ Drop(call[r].conn)
    /\ IF AfterFailure(r) = "dial" THEN call' = [call EXCEPT ![r].pc = "dial", ![r].conn = NoConn]
       ELSE Answer(r, "err")

\* run_one_request: open_stream and send_request_on.
WriteRequest(r) ==
    /\ At(r, {"pooledWrite", "coldWrite"})
    /\ LET c == call[r].conn
       IN  IF OpensStream(c)
           THEN /\ Goto(r, IF At(r, {"pooledWrite"}) THEN "pooledRead" ELSE "coldRead")
                /\ Written(r, "h2", conn[c].posture)
                /\ conn' = [conn EXCEPT ![c].ids = @ - 1,
                                        ![c].inbox = IF conn[c].state = "open" THEN @ \cup {<<r, call[r].i>>} ELSE @]
           ELSE FailSingle(r) /\ UNCHANGED tries
    /\ UNCHANGED <<req, pool>>

\* What the client gets to know with an answer: a GOAWAY or a stream limit of zero may
\* have come before it.
Told(c) == {conn[c].told} \cup ({conn[c].state} \cap {"goaway", "nostreams"})

\* drive_until_stream_done: the response is there.
ReadResponse(r) ==
    /\ At(r, {"pooledRead", "coldRead"})
    /\ LET c == call[r].conn
           x == <<r, call[r].i>>
       IN  /\ x \in conn[c].outbox
           /\ \E told \in Told(c) :
                conn' = [conn EXCEPT ![c].outbox = @ \ {x}, ![c].told = told]
           /\ call' = [call EXCEPT ![r].pc = "release", ![r].results[call[r].i] = "h2"]
    /\ UNCHANGED <<req, tries, pool>>

\* Or the read fails: an error of the connection or its stream, or the read timeout,
\* which is also how a GOAWAY that dooms the stream ends.
ReadFails(r) ==
    /\ At(r, {"pooledRead", "coldRead"})
    /\ FailSingle(r)
    /\ UNCHANGED <<req, tries, pool>>

\* PoolInner::release, or the connection is closed.
Park(r) ==
    LET c == call[r].conn
        clean == \A i \in DOMAIN call[r].results : i <= Size(req[r]) => call[r].results[i] = "h2"
    IN  IF /\ PoolEligible(req[r]) /\ IsUsable(c) /\ Len(pool) < Cap
           /\ At(r, {"batchRelease"}) => clean
        THEN pool' = Append(pool, c) /\ UNCHANGED conn
        ELSE Drop(c) /\ UNCHANGED pool

Release(r) ==
    /\ At(r, {"release", "batchRelease"})
    /\ Park(r)
    /\ IF At(r, {"release"}) THEN Answer(r, "h2")
       ELSE call' = [call EXCEPT ![r].pc = "done", ![r].conn = NoConn]
    /\ UNCHANGED <<req, tries>>

\* run_multiplexed: every request of the batch, or as many as there are stream ids, is
\* written; the others fail.
WriteBatch(r) ==
    /\ At(r, {"batchWrite"})
    /\ LET c == call[r].conn
           opened == {i \in {1, 2} : conn[c].told = "nothing" /\ i <= conn[c].ids}
       IN  /\ tries' = [tries EXCEPT ![r] = [i \in {1, 2} |->
                  IF i \in opened THEN Append(@[i], [version |-> "h2", posture |-> conn[c].posture]) ELSE @[i]]]
           /\ conn' = [conn EXCEPT ![c].ids = @ - Cardinality(opened),
                                   ![c].inbox = IF conn[c].state = "open" THEN @ \cup {<<r, i>> : i \in opened} ELSE @]
           /\ call' = [call EXCEPT ![r].pc = "batchRead",
                                   ![r].results = [i \in {1, 2} |-> IF i \in opened THEN "none" ELSE "err"]]
    /\ UNCHANGED <<req, pool>>

\* The requests of a batch that have no result yet.
Pending(r) == {i \in {1, 2} : call[r].results[i] = "none"}

\* One response of a batch arrives.
BatchResponse(r) ==
    LET c == call[r].conn
    IN  \E i \in Pending(r) : \E told \in Told(c) :
            /\ <<r, i>> \in conn[c].outbox
            /\ conn' = [conn EXCEPT ![c].outbox = @ \ {<<r, i>>}, ![c].told = told]
            /\ call' = [call EXCEPT ![r].results[i] = "h2"]

\* One request of it fails, those that a GOAWAY dooms, or all, with the connection.
BatchError(r) ==
    LET c == call[r].conn
    IN  \E failed \in SUBSET Pending(r) \ {{}} :
            /\ conn' = [conn EXCEPT ![c].inbox = @ \ {<<r, i>> : i \in failed},
                                    ![c].outbox = @ \ {<<r, i>> : i \in failed}]
            /\ call' = [call EXCEPT ![r].results = [i \in {1, 2} |-> IF i \in failed THEN "err" ELSE @[i]]]

ReadBatch(r) ==
    /\ At(r, {"batchRead"})
    /\ \/ BatchResponse(r) \/ BatchError(r)
       \/ Pending(r) = {} /\ Goto(r, "batchRelease") /\ UNCHANGED conn
    /\ UNCHANGED <<req, tries, pool>>

\* The HTTP/1.1 part of send_https: a parked connection, which may turn out to be stale
\* before or after the request was written, then a fresh one.
Http1(r) ==
    /\ At(r, {"h1", "h1Fresh"})
    /\ \/ At(r, {"h1"}) /\ ~PoolEligible(req[r]) /\ Goto(r, "h1Fresh") /\ UNCHANGED tries
       \/ /\ At(r, {"h1"}) /\ PoolEligible(req[r])
          /\ \/ Goto(r, "h1Fresh") /\ (UNCHANGED tries \/ Written(r, "h1", "default"))
             \/ Answer(r, "h1") /\ Written(r, "h1", "default")
             \/ Answer(r, "err") /\ Written(r, "h1", "default")
       \/ /\ At(r, {"h1Fresh"})
          /\ \/ Answer(r, "err") /\ (UNCHANGED tries \/ Written(r, "h1", req[r].posture))
             \/ "h1" \in Speaks /\ Answer(r, "h1") /\ Written(r, "h1", req[r].posture)
    /\ UNCHANGED <<req, pool, conn>>

----------------------------------------------------------------------------
(* The servers.                                                            *)

Handle(c) ==
    /\ conn[c].state \in {"open", "nostreams"}
    /\ \E x \in conn[c].inbox :
        conn' = [conn EXCEPT ![c].inbox = @ \ {x}, ![c].outbox = @ \cup {x}]
    /\ UNCHANGED <<req, call, tries, pool>>

\* GOAWAY or SETTINGS_MAX_CONCURRENT_STREAMS of zero: requests that come later are not
\* handled; or the end of the connection.
Limit(c) ==
    /\ conn[c].state = "open"
    /\ \E s \in {"goaway", "nostreams", "closed"} :
        conn' = [conn EXCEPT ![c].state = s, ![c].inbox = IF s = "nostreams" THEN @ ELSE {}]
    /\ UNCHANGED <<req, call, tries, pool>>

----------------------------------------------------------------------------
Done == \A r \in Calls : At(r, {"done"})
Finished == Done /\ UNCHANGED vars

Step(r) ==
    \/ Start(r) \/ Http3(r) \/ TakePooled(r) \/ Dial(r)
    \/ WriteRequest(r) \/ ReadResponse(r) \/ ReadFails(r) \/ Release(r)
    \/ WriteBatch(r) \/ ReadBatch(r) \/ Http1(r)

Next ==
    \/ \E r \in Calls : Step(r)
    \/ \E c \in Conns : Handle(c) \/ Limit(c)
    \/ Finished

Spec == Init /\ [][Next]_vars

----------------------------------------------------------------------------
(* Properties.                                                             *)

\* The requests of a call, with the versions they were written over.
Versions(r, i) == [k \in DOMAIN tries[r][i] |-> tries[r][i][k].version]
Count(r, i, v) == Cardinality({k \in DOMAIN tries[r][i] : tries[r][i][k].version = v})
Rank(v) == CASE v = "h3" -> 1 [] v = "h2" -> 2 [] v = "h1" -> 3
Allowed(q) ==
    IF q.kind = "batch" THEN {"h2"}
    ELSE CASE q.pref = "Auto" -> {"h2", "h1"} [] q.pref = "Http11Only" -> {"h1"}
           [] q.pref = "Http2Only" -> {"h2"} [] q.pref = "Http3" -> {"h3", "h2", "h1"}
           [] q.pref = "Http3Only" -> {"h3"}

\* A request is written over the versions that were asked for only, newest first, never
\* again once it was answered, and no more than twice over TCP connections of one
\* version, or three times over all (send_https with its fallbacks, send with its retry
\* after a pooled connection, send_multiplexed).
SentAsPreferred ==
    \A r \in Calls : \A i \in 1 .. Size(req[r]) :
        /\ \A k \in DOMAIN Versions(r, i) : Versions(r, i)[k] \in Allowed(req[r])
        /\ \A k \in 2 .. Len(Versions(r, i)) : Rank(Versions(r, i)[k - 1]) <= Rank(Versions(r, i)[k])
        /\ Count(r, i, "h3") <= 1 /\ Count(r, i, "h2") <= 2 /\ Count(r, i, "h1") <= 2
        /\ Count(r, i, "h2") + Count(r, i, "h1") <= 3
        /\ call[r].results[i] \in {"h1", "h2", "h3"} =>
              Versions(r, i) # <<>> /\ Last(Versions(r, i)) = call[r].results[i]

\* A request is never written to a peer that was verified on other terms than its own
\* (pool_eligible keeps connections of -k and --cacert out of the pool).
VerifiedAsAsked ==
    \A r \in Calls : \A i \in {1, 2} : \A k \in DOMAIN tries[r][i] :
        tries[r][i][k].posture = req[r].posture

\* A parked connection is nobody's and was parked once, and on it nothing is under way:
\* no request that may still be answered, and nothing that the client knows speaks
\* against another one.
ParkedIdle ==
    \A k \in DOMAIN pool :
        /\ \A r \in Calls : call[r].conn # pool[k]
        /\ \A j \in DOMAIN pool : pool[j] = pool[k] => j = k
        /\ conn[pool[k]].inbox = {} /\ conn[pool[k]].outbox = {} /\ IsUsable(pool[k])

\* What the comment on send_multiplexed says: "If the server doesn't negotiate ALPN h2
\* on the shared connection, we fall back to sequential send (which itself does the
\* h2 to h1.1 dance)".
BatchFallsBack ==
    \A r \in Calls : req[r].kind = "batch" => \A i \in {1, 2} : call[r].results[i] # "noh2"
=============================================================================
