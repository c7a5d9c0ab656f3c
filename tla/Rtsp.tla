-------------------------------- MODULE Rtsp --------------------------------
(***************************************************************************)
(* rtsp::run_method of src/rtsp.rs against an RTSP server: the requests of  *)
(* the session that a method needs, each answered under its CSeq.  PLAY     *)
(* starts the media, interleaved with the replies on the same connection.   *)
(***************************************************************************)
EXTENDS Dialogue

CONSTANT MaxMedia   \* bound: frames that the server interleaves

Session == "s1"

\* The requests that a method needs.
Requests(method) ==
    CASE method \in {"OPTIONS", "DESCRIBE"} -> <<method>>
      [] method = "SETUP" -> <<"OPTIONS", "DESCRIBE", "SETUP">>
      [] method = "PLAY"  -> <<"OPTIONS", "DESCRIBE", "SETUP", "PLAY">>
      [] OTHER            -> <<"OPTIONS", "DESCRIBE", "SETUP", "PLAY", "TEARDOWN">>

Init ==
    /\ \E method \in {"OPTIONS", "DESCRIBE", "SETUP", "PLAY", "TEARDOWN"} :
        local = [method |-> method, todo |-> Requests(method), session |-> "none", got |-> "none"]
    /\ pc = "start" /\ result = "none" /\ sent = 0 /\ inStep = TRUE
    /\ toServer = <<>> /\ toClient = <<>> /\ data = NoData
    /\ server = [alive |-> TRUE, refused |-> FALSE, session |-> FALSE, playing |-> FALSE,
                 media |-> 0, repeated |-> FALSE]

----------------------------------------------------------------------------
(* The client.                                                             *)

\* read_response: media does not parse as a response.
Parses(r) == r.kind = "response"

\* A response to the request just sent, with a status of 2xx.
Accepted(r) == Parses(r) /\ r.cseq = sent /\ r.status = 200

Begin ==
    /\ pc = "start"
    /\ Ask(Head(local.todo), local.session, "response")
    /\ UNCHANGED <<local, toClient, server, data, inStep>>

\* request: what the BufReader of a request read beyond its response is dropped with it.
Receive ==
    /\ pc = "response" /\ toClient # <<>>
    /\ LET r == Head(toClient)
           verb == Head(local.todo)
           session == IF verb = "SETUP" THEN r.session
                      ELSE IF verb = "TEARDOWN" THEN "none" ELSE local.session
       IN  IF ~Accepted(r) \/ session = "missing"
           THEN Skip(r) /\ Return("error") /\ UNCHANGED local
           ELSE /\ inStep' = (inStep /\ r.re = sent)
                /\ \E k \in 1..Len(toClient) : toClient' = SubSeq(toClient, k + 1, Len(toClient))
                /\ IF Len(local.todo) = 1 THEN Return("ok")
                   ELSE Ask(local.todo[2], session, "response")
                /\ local' = [local EXCEPT !.todo = Tail(@), !.session = session, !.got = r.body]
    /\ UNCHANGED <<server, data>>

Client == Begin \/ Receive \/ Broken \/ (pc # "start" /\ Timeout)

----------------------------------------------------------------------------
(* The server.                                                             *)

Response(status, session) ==
    [kind |-> "response", cseq |-> Head(toServer).n, status |-> status, session |-> session,
     body |-> Head(toServer).verb, re |-> Head(toServer).n]

To(s, r) == [s |-> s, r |-> r]
Answers(s, verb, arg) ==
    CASE verb = "SETUP" -> {To([s EXCEPT !.session = TRUE], Response(200, Session)),
                            To(s, Response(200, "missing")), To(s, Response(461, "missing"))}
      [] verb \in {"PLAY", "TEARDOWN"} ->
            IF s.session /\ arg = Session
            THEN {To([s EXCEPT !.playing = (verb = "PLAY")], Response(200, Session)), To(s, Response(455, Session))}
            ELSE {To(Refused(s), Response(454, "missing"))}
      [] OTHER -> {To(s, Response(200, "missing")), To(s, Response(404, "missing"))}

Serve ==
    /\ server.alive /\ toServer # <<>>
    /\ LET c == Head(toServer)
       IN \E a \in Answers(server, c.verb, c.arg) : Answer(a.s, <<a.r>>)
    /\ UNCHANGED data

\* A frame of media between the replies.
Media ==
    /\ server.alive /\ server.playing /\ server.media < MaxMedia
    /\ server' = [server EXCEPT !.media = @ + 1]
    /\ Send(<<[kind |-> "media", re |-> 0]>>)
    /\ UNCHANGED data

\* A server that answers a request a second time.
Repeat ==
    /\ server.alive /\ ~server.repeated /\ toServer # <<>>
    /\ LET c == Head(toServer)
       IN \E a \in Answers(server, c.verb, c.arg) :
            Answer([a.s EXCEPT !.repeated = TRUE], <<a.r, a.r>>)
    /\ UNCHANGED data

Die == Crash /\ UNCHANGED data

Server == Serve \/ Media

----------------------------------------------------------------------------
\* Ok is returned only with the body of the response to the method asked for.
Whole == result = "ok" => local.got = local.method
=============================================================================
