------------------------------ MODULE Dialogue ------------------------------
(***************************************************************************)
(* What the clients of the command protocols (FTP, POP3, IMAP, RTSP, DICT,  *)
(* MQTT, LDAP) and WebSocket have in common: one connection to a server,    *)
(* commands one way and replies the other, and a client that writes a       *)
(* command, waits for its reply and goes on or gives up.  Clients.tla       *)
(* composes the protocols.                                                 *)
(***************************************************************************)
EXTENDS Naturals, Sequences

VARIABLES
    pc,        \* what the client waits for; "done" when the call has returned
    result,    \* "none", "ok" or "error"
    local,     \* the client's locals, a record of the protocol's own
    sent,      \* commands written
    toServer,  \* commands that the server has not read: [verb, arg, n]
    toClient,  \* replies that the client has not read; `re` is the n they answer
    server,    \* the server, a record of the protocol's own with alive and refused
    data,      \* a second connection (FTP)
    inStep     \* has every reply so far been taken for the one it is?

vars == <<pc, result, local, sent, toServer, toClient, server, data, inStep>>

NoData == [state |-> "none", q |-> <<>>]

\* The client writes a command and waits for the reply at p.
Ask(verb, arg, p) ==
    /\ pc' = p
    /\ sent' = sent + 1
    /\ toServer' = Append(toServer, [verb |-> verb, arg |-> arg, n |-> sent + 1])
    /\ UNCHANGED result

\* The client goes on without writing.
Goto(p) == pc' = p /\ UNCHANGED <<sent, toServer, result>>

\* The call returns.
Return(r) == pc' = "done" /\ result' = r /\ UNCHANGED <<sent, toServer>>

\* The client reads the next reply, r, and takes it as the answer to its last
\* command; or it only passes over it.
Skip(r) == toClient # <<>> /\ r = Head(toClient) /\ toClient' = Tail(toClient) /\ UNCHANGED inStep
Take(r) ==
    /\ toClient # <<>> /\ r = Head(toClient)
    /\ toClient' = Tail(toClient)
    /\ inStep' = (inStep /\ r.re = sent)

\* The connection breaks: every read or write of the client fails, but the ones of
\* its farewell, whose outcome it ignores.
Broken ==
    /\ pc # "done" /\ ~server.alive
    /\ Return(IF pc = "farewell" THEN "ok" ELSE "error")
    /\ UNCHANGED <<local, toClient, server, data, inStep>>

\* A read timeout, where the client sets one: the server is slow, or silent for good.
Timeout ==
    /\ pc # "done" /\ toClient = <<>>
    /\ Return("error")
    /\ UNCHANGED <<local, toClient, server, data, inStep>>

----------------------------------------------------------------------------
(* The server.                                                             *)

\* It answers a command: to server state s, with these replies, which say so in their `re`.
Answer(s, replies) ==
    /\ server' = s
    /\ toServer' = Tail(toServer)
    /\ toClient' = toClient \o replies
    /\ UNCHANGED <<pc, result, local, sent, inStep>>

\* It sends something on its own.
Send(replies) == toClient' = toClient \o replies /\ UNCHANGED <<pc, result, local, sent, toServer, inStep>>

\* Or it dies; what it sent is still delivered or not (Broken).
Crash ==
    /\ server.alive
    /\ server' = [server EXCEPT !.alive = FALSE]
    /\ UNCHANGED <<pc, result, local, sent, toServer, toClient, inStep>>

Refused(s) == [s EXCEPT !.refused = TRUE]
=============================================================================
