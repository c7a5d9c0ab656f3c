----------------------------- MODULE WebSocket -----------------------------
(***************************************************************************)
(* websocket::fetch of src/websocket.rs: the upgrade, one message in        *)
(* fragments between which the server may ping and close, and a close.      *)
(***************************************************************************)
EXTENDS Dialogue

CONSTANTS
    MaxPayload,   \* MAX_PAYLOAD_BYTES
    Contents,     \* messages: sequences of parts, each a frame
    MaxPings      \* bound: pings of the server

\* What a server sends for a message, and what it stands for: a deflated one is half as long.
Inflated(c) == c \o c
Meaning(s) == IF s.deflated THEN Inflated(s.content) ELSE s.content

Init ==
    /\ \E content \in Contents, deflated \in BOOLEAN :
        server = [alive |-> TRUE, refused |-> FALSE, up |-> FALSE, pings |-> <<>>, pinged |-> 0,
                  content |-> content, deflated |-> deflated, at |-> 0, closed |-> FALSE]
    /\ local = [pmd |-> FALSE, chain |-> FALSE, compressed |-> FALSE, buf |-> <<>>, got |-> <<>>]
    /\ pc = "start" /\ result = "none" /\ sent = 0 /\ inStep = TRUE
    /\ toServer = <<>> /\ toClient = <<>> /\ data = NoData

----------------------------------------------------------------------------
(* The client.                                                             *)

Begin ==
    /\ pc = "start"
    /\ Ask("GET", "", "upgrade")
    /\ UNCHANGED <<local, toClient, server, data, inStep>>

\* handshake: 101 with the right headers; parse_pmd_response.
Upgrade(r) ==
    /\ pc = "upgrade" /\ Take(r)
    /\ IF r.status = 101 /\ r.accept
       THEN Goto("message") /\ local' = [local EXCEPT !.pmd = r.pmd]
       ELSE Return("error") /\ UNCHANGED local

\* A frame of the client, after which it goes on, or has returned Ok.
Write(verb, arg) == sent' = sent + 1 /\ toServer' = Append(toServer, [verb |-> verb, arg |-> arg, n |-> sent + 1])
Bye == pc' = "done" /\ result' = "ok" /\ Write("CLOSE", "")

\* read_message, the control frames.
Control(r) ==
    /\ pc = "message" /\ r.type \in {"PING", "PONG", "CLOSE"} /\ Skip(r)
    /\ \/ r.type = "PING" /\ Write("PONG", r.payload) /\ UNCHANGED <<pc, result>>
       \/ r.type = "PONG" /\ Goto(pc)
       \/ r.type = "CLOSE" /\ Bye
    /\ UNCHANGED local

\* Where in a message a data frame may stand, and which may be compressed.
Acceptable(r) ==
    /\ (r.type = "CONT") = local.chain
    /\ r.rsv1 => local.pmd /\ ~local.chain

\* accumulate and finish_data_message.
Fits(buf) == Len(buf) <= MaxPayload
Finished(buf, compressed) == IF compressed THEN Inflated(buf) ELSE buf

\* read_message, a data frame: refused, the last of its message, or one of several.
DataFrame(r) ==
    /\ pc = "message" /\ r.type \in {"TEXT", "CONT"} /\ Skip(r)
    /\ LET buf == Append(local.buf, r.payload)
           compressed == local.compressed \/ r.rsv1
       IN  IF ~Acceptable(r) \/ ~Fits(buf) \/ (r.fin /\ ~Fits(Finished(buf, compressed)))
           THEN Return("error") /\ UNCHANGED local
           ELSE IF r.fin THEN Bye /\ local' = [local EXCEPT !.got = Finished(buf, compressed)]
           ELSE Goto(pc) /\ local' = [local EXCEPT !.buf = buf, !.compressed = compressed, !.chain = TRUE]

Receive ==
    /\ toClient # <<>>
    /\ LET r == Head(toClient) IN Upgrade(r) \/ Control(r) \/ DataFrame(r)
    /\ UNCHANGED <<server, data>>

Client == Begin \/ Receive \/ Broken \/ Timeout

----------------------------------------------------------------------------
(* The server.                                                             *)

Response(status, accept, pmd, n) == [status |-> status, accept |-> accept, pmd |-> pmd, re |-> n]

\* It answers the upgrade; a PONG must echo the oldest ping that has had none.
Serve ==
    /\ server.alive /\ toServer # <<>>
    /\ LET c == Head(toServer)
       IN  \/ /\ c.verb = "GET"
              /\ \E r \in {Response(101, TRUE, TRUE, c.n), Response(101, TRUE, FALSE, c.n),
                           Response(101, FALSE, FALSE, c.n), Response(403, FALSE, FALSE, c.n)} :
                    Answer([server EXCEPT !.up = r.accept, !.deflated = @ /\ r.pmd], <<r>>)
           \/ /\ c.verb = "PONG"
              /\ Answer(IF server.pings = <<>> \/ Head(server.pings) # c.arg THEN Refused(server)
                        ELSE [server EXCEPT !.pings = Tail(@)], <<>>)
           \/ c.verb = "CLOSE" /\ Answer([server EXCEPT !.alive = FALSE], <<>>)
    /\ UNCHANGED data

\* The next fragment of its message, or a frame of the wrong type.
Fragment ==
    /\ server.alive /\ server.up /\ ~server.closed /\ server.at < Len(server.content)
    /\ server' = [server EXCEPT !.at = @ + 1]
    /\ \E wrong \in BOOLEAN :
        Send(<<[type |-> IF (server.at = 0) # wrong THEN "TEXT" ELSE "CONT",
                rsv1 |-> server.deflated /\ server.at = 0,
                fin |-> server.at + 1 = Len(server.content),
                payload |-> server.content[server.at + 1], re |-> 0]>>)
    /\ UNCHANGED data

Ping ==
    /\ server.alive /\ server.up /\ ~server.closed /\ server.pinged < MaxPings
    /\ server' = [server EXCEPT !.pinged = @ + 1, !.pings = Append(@, server.pinged)]
    /\ Send(<<[type |-> "PING", payload |-> server.pinged, re |-> 0]>>)
    /\ UNCHANGED data

Close ==
    /\ server.alive /\ server.up /\ ~server.closed
    /\ server' = [server EXCEPT !.closed = TRUE]
    /\ Send(<<[type |-> "CLOSE", payload |-> 0, re |-> 0]>>)
    /\ UNCHANGED data

Die == Crash /\ UNCHANGED data

Server == Serve \/ Fragment

----------------------------------------------------------------------------
\* Ok is returned with the whole message, inflated if it was deflated, or with nothing
\* if the server closed before the message was complete: read_data_and_close drops the
\* fragments that read_message had collected (websocket.rs:624).
Whole ==
    result = "ok" =>
        \/ local.got = Meaning(server)
        \/ local.got = <<>> /\ server.closed /\ server.at < Len(server.content)
=============================================================================
