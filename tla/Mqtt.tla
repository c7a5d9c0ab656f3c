-------------------------------- MODULE Mqtt --------------------------------
(***************************************************************************)
(* mqtt::fetch and publish of src/mqtt.rs against a broker: CONNECT, then   *)
(* SUBSCRIBE and the first message, or PUBLISH and, at QoS 1, its PUBACK.   *)
(***************************************************************************)
EXTENDS Dialogue

CONSTANT Posts   \* messages that others publish to the topic

PacketId == 1
Payload == "p"      \* of a PUBLISH of the client

Init ==
    /\ \E op \in {"subscribe", "publish"} : \E qos \in IF op = "publish" THEN {0, 1, 2} ELSE {0} :
       \E valid \in BOOLEAN :
        local = [op |-> op, qos |-> qos, valid |-> valid, got |-> "none"]
    /\ pc = "start" /\ result = "none" /\ sent = 0 /\ inStep = TRUE
    /\ toServer = <<>> /\ toClient = <<>> /\ data = NoData
    /\ server = [alive |-> TRUE, refused |-> FALSE, connected |-> FALSE, topic |-> FALSE,
                 got |-> "none", published |-> {}, pinged |-> FALSE]

----------------------------------------------------------------------------
(* The client.                                                             *)

\* validate_publish_topic, or a topic at all for a subscription.
ValidTopic(l) == l.valid

\* Nothing is sent for a bad topic or a QoS that is not implemented.
Begin ==
    /\ pc = "start"
    /\ IF ~ValidTopic(local) \/ local.qos > 1 THEN Return("error") ELSE Ask("CONNECT", "", "CONNACK")
    /\ UNCHANGED <<local, toClient, server, data, inStep>>

\* DISCONNECT; nothing is read after it.
Bye(r) ==
    /\ pc' = "done" /\ result' = r /\ sent' = sent + 1
    /\ toServer' = Append(toServer, [verb |-> "DISCONNECT", arg |-> "", n |-> sent + 1])

\* PUBLISH at QoS 0 and DISCONNECT: two writes and no reply.
PublishAndBye ==
    /\ pc' = "done" /\ result' = "ok" /\ sent' = sent + 2
    /\ toServer' = toServer \o <<[verb |-> "PUBLISH", arg |-> [qos |-> 0], n |-> sent + 1],
                                 [verb |-> "DISCONNECT", arg |-> "", n |-> sent + 2]>>

\* connect_handshake
Connected(r) ==
    /\ pc = "CONNACK"
    /\ IF r.type # "CONNACK" \/ r.code # 0 THEN Return("error")
       ELSE IF local.op = "subscribe" THEN Ask("SUBSCRIBE", "", "SUBACK")
       ELSE IF local.qos = 0 THEN PublishAndBye
       ELSE Ask("PUBLISH", [qos |-> 1], "PUBACK")
    /\ Take(r) /\ UNCHANGED local

Subscribed(r) ==
    /\ pc = "SUBACK"
    /\ IF r.type # "SUBACK" \/ r.code = 128 THEN Skip(r) /\ Return("error") ELSE Take(r) /\ Goto("message")
    /\ UNCHANGED local

\* The packet waited for in the loops of run_session and run_publish; PINGRESP is passed over.
Await(r) ==
    /\ pc \in {"message", "PUBACK"}
    /\ \/ r.type = "PINGRESP" /\ Skip(r) /\ UNCHANGED <<pc, result, sent, toServer, local>>
       \/ pc = "message" /\ r.type = "PUBLISH" /\ Take(r) /\ Bye("ok") /\ local' = [local EXCEPT !.got = r.payload]
       \/ pc = "PUBACK" /\ r.type = "PUBACK" /\ r.id = PacketId /\ Take(r) /\ Bye("ok") /\ UNCHANGED local
       \/ /\ r.type # "PINGRESP" /\ ~(pc = "message" /\ r.type = "PUBLISH")
          /\ ~(pc = "PUBACK" /\ r.type = "PUBACK" /\ r.id = PacketId)
          /\ Skip(r) /\ Return("error") /\ UNCHANGED local

Receive ==
    /\ toClient # <<>>
    /\ LET r == Head(toClient) IN Connected(r) \/ Subscribed(r) \/ Await(r)
    /\ UNCHANGED <<server, data>>

Client == Begin \/ Receive \/ Broken

----------------------------------------------------------------------------
(* The broker.                                                             *)

To(s, replies) == [s |-> s, replies |-> replies]
Ack(type, code, n) == [type |-> type, code |-> code, re |-> n]
Post(m) == [type |-> "PUBLISH", payload |-> m, re |-> 2]   \* 2: SUBSCRIBE

\* A retained message may come before or after the SUBACK.
Accepts(s, n) ==
    LET on == [s EXCEPT !.topic = TRUE]
        ack == Ack("SUBACK", 0, n)
    IN  {To(on, <<ack>>)}
            \cup {To([on EXCEPT !.published = {m}], <<Post(m), ack>>) : m \in Posts}
            \cup {To([on EXCEPT !.published = {m}], <<ack, Post(m)>>) : m \in Posts}

Answers(s, verb, arg, n) ==
    CASE verb = "CONNECT" -> {To([s EXCEPT !.connected = TRUE], <<Ack("CONNACK", 0, n)>>), To(s, <<Ack("CONNACK", 5, n)>>)}
      [] verb # "CONNECT" /\ ~s.connected -> {To(Refused(s), <<>>)}
      [] verb = "SUBSCRIBE" /\ s.connected -> Accepts(s, n) \cup {To(s, <<Ack("SUBACK", 128, n)>>)}
      [] verb = "PUBLISH" /\ s.connected ->
            {To([s EXCEPT !.got = Payload],
                IF arg.qos = 1 THEN <<[type |-> "PUBACK", id |-> PacketId, re |-> n]>> ELSE <<>>)}
      [] OTHER -> {To([s EXCEPT !.alive = FALSE], <<>>)}

Serve ==
    /\ server.alive /\ toServer # <<>>
    /\ LET c == Head(toServer)
       IN \E a \in Answers(server, c.verb, c.arg, c.n) : Answer(a.s, a.replies)
    /\ UNCHANGED data

\* Somebody publishes; the broker forwards it to a subscriber.
Publish ==
    /\ server.alive /\ server.topic
    /\ \E m \in Posts \ server.published :
        /\ server' = [server EXCEPT !.published = @ \cup {m}]
        /\ Send(<<Post(m)>>)
    /\ UNCHANGED data

Ping ==
    /\ server.alive /\ server.connected /\ ~server.pinged
    /\ server' = [server EXCEPT !.pinged = TRUE]
    /\ Send(<<[type |-> "PINGRESP", re |-> 0]>>)
    /\ UNCHANGED data

\* The client never pings: after one and a half times the keep-alive that it announced
\* the broker closes the connection.
Expire ==
    /\ server.alive /\ server.topic /\ toServer = <<>> /\ toClient = <<>>
    /\ server' = [server EXCEPT !.alive = FALSE]
    /\ UNCHANGED <<pc, result, local, sent, toServer, toClient, data, inStep>>

Die == Crash /\ UNCHANGED data

Server == Serve \/ Expire

----------------------------------------------------------------------------
\* Ok is returned only with a message of the topic, or at QoS 1 for one that the
\* broker has.
Whole ==
    result = "ok" => /\ local.op = "subscribe" => local.got \in server.published
                     /\ local.qos = 1 => server.got = Payload
=============================================================================
