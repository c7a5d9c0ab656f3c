-------------------------------- MODULE Ftp --------------------------------
(***************************************************************************)
(* ftp::fetch, store and append of src/ftp.rs against an FTP server: login, *)
(* passive mode, the data connection and the replies that frame it.         *)
(* Replies are their code; LIST is RETR of a listing; ftps adds handshakes  *)
(* that may fail.                                                          *)
(***************************************************************************)
EXTENDS Dialogue

CONSTANTS
    Remote,   \* the file on the server, a sequence of chunks
    Body,     \* the bytes of an upload
    Offset,   \* resume_at
    Cap       \* chunks that fit into the data connection

Init ==
    /\ \E op \in {"RETR", "STOR", "APPE"}, resume, pathOk \in BOOLEAN :
        /\ resume => op = "STOR"
        /\ local = [op |-> op, resume |-> resume, pathOk |-> pathOk, prelim |-> FALSE,
                    got |-> <<>>, left |-> Body]
    /\ pc = "banner" /\ result = "none" /\ sent = 0 /\ inStep = TRUE
    /\ toServer = <<>> /\ toClient = <<>> /\ data = NoData
    /\ server = [alive |-> TRUE, refused |-> FALSE, phase |-> "new", binary |-> FALSE,
                 mark |-> FALSE, port |-> FALSE, xfer |-> "no", pos |-> 0, stored |-> Remote, n |-> 0]

Upload == local.op \in {"STOR", "APPE"}

----------------------------------------------------------------------------
(* The client.                                                             *)

IsPositive(code) == code \in 200..399

\* Mutant: any reply to PASS will do.
MutPassAccepted(code) == TRUE

PassAccepted(code) == code \in {230, 202}

\* connect_login: the banner, USER and PASS, TYPE I.
Login(r) ==
    \/ pc = "banner" /\ IF IsPositive(r.code) THEN Ask("USER", "", "USER") ELSE Return("error")
    \/ pc = "USER" /\ IF r.code = 230 THEN Ask("TYPE", "I", "TYPE")
                      ELSE IF r.code = 331 THEN Ask("PASS", "", "PASS") ELSE Return("error")
    \/ pc = "PASS" /\ IF PassAccepted(r.code) THEN Ask("TYPE", "I", "TYPE") ELSE Return("error")

\* Logged in: an upload checks its path and asks for the restart.
Prepare(r) ==
    \/ pc = "TYPE" /\ IF r.code # 200 \/ (Upload /\ ~local.pathOk) THEN Return("error")
                      ELSE IF local.resume THEN Ask("REST", Offset, "REST") ELSE Ask("EPSV", "", "EPSV")
    \/ pc = "REST" /\ IF r.code = 350 THEN Ask("EPSV", "", "EPSV") ELSE Return("error")

\* Whether the reply names a port; how parse_epsv and parse_pasv find it is not modelled.
PortOf(s) == s.port

\* open_data once the port is known, then the command; a download checks its path
\* here.  Parsing the reply, the connection or its TLS handshake may fail.
Dial ==
    \/ PortOf(server) /\ local.pathOk /\ data' = [NoData EXCEPT !.state = "open"] /\ Ask(local.op, "", "command")
    \/ Return("error") /\ UNCHANGED data

\* open_passive: EPSV, then PASV.
Passive(r) ==
    \/ pc = "EPSV" /\ \/ r.code = 229 /\ Dial
                      \/ /\ r.code # 229 /\ UNCHANGED data
                         /\ IF r.code \in 400..599 THEN Ask("PASV", "", "PASV") ELSE Return("error")
    \/ pc = "PASV" /\ IF r.code = 227 THEN Dial ELSE Return("error") /\ UNCHANGED data

\* The reply to RETR, STOR or APPE: an upload insists on a preliminary one.
Command(r) ==
    LET prelim == r.code \in {125, 150}
    IN  /\ pc = "command"
        /\ IF prelim \/ (~Upload /\ IsPositive(r.code))
           THEN Goto(IF Upload THEN "write" ELSE "read") /\ local' = [local EXCEPT !.prelim = prelim]
           ELSE Return("error") /\ UNCHANGED local

\* Mutant: a final reply is waited for although the reply to RETR was it.
MutAwaitsFinal(prelim) == TRUE

\* After a preliminary reply the final one is due.
AwaitsFinal(prelim) == prelim

End(r) == pc = "end" /\ IF IsPositive(r.code) THEN Ask("QUIT", "", "farewell") ELSE Return("error")

Farewell(r) == pc = "farewell" /\ Return("ok")

Receive ==
    /\ \E r \in {toClient[i] : i \in DOMAIN toClient} :
        /\ Take(r)
        /\ \/ (Login(r) \/ Prepare(r) \/ End(r) \/ Farewell(r)) /\ UNCHANGED <<local, data>>
           \/ Passive(r) /\ UNCHANGED local
           \/ Command(r) /\ UNCHANGED data
    /\ UNCHANGED server

\* read_to_end of the data connection.
ReadData ==
    /\ pc = "read"
    /\ IF data.q # <<>>
       THEN /\ data' = [data EXCEPT !.q = Tail(@)]
            /\ local' = [local EXCEPT !.got = Append(@, Head(data.q))]
            /\ UNCHANGED <<pc, result, sent, toServer>>
       ELSE /\ data.state \in {"eof", "reset"}
            /\ data' = NoData
            /\ UNCHANGED local
            /\ IF data.state = "reset" THEN Return("error")
               ELSE IF AwaitsFinal(local.prelim) THEN Goto("end") ELSE Ask("QUIT", "", "farewell")
    /\ UNCHANGED <<toClient, server, inStep>>

\* write_all of the body, then the close that ends it.  What is written to a connection
\* that the server closed is lost, or fails.
WriteData ==
    /\ pc = "write"
    /\ IF local.left = <<>>
       THEN Goto("end") /\ data' = [data EXCEPT !.state = "eof"] /\ UNCHANGED local
       ELSE \/ /\ data.state = "open" => Len(data.q) < Cap
               /\ data' = IF data.state = "open" THEN [data EXCEPT !.q = Append(@, Head(local.left))] ELSE data
               /\ local' = [local EXCEPT !.left = Tail(@)]
               /\ UNCHANGED <<pc, result, sent, toServer>>
            \/ data.state # "open" /\ Return("error") /\ UNCHANGED <<data, local>>
    /\ UNCHANGED <<toClient, server, inStep>>

Client == Receive \/ ReadData \/ WriteData \/ Broken

----------------------------------------------------------------------------
(* The server.                                                             *)

Reply(code, n) == [code |-> code, re |-> n]

\* What it may answer to a command: its next state and the code.
To(s, code) == [s |-> s, code |-> code]
Logged(s) == [s EXCEPT !.phase = "in"]
Answers(s, verb) ==
    CASE verb = "USER" /\ s.phase = "user" ->
            {To(Logged(s), 230), To([s EXCEPT !.phase = "pass"], 331), To(s, 332), To(s, 530)}
      [] verb = "PASS" /\ s.phase = "pass" ->
            {To(Logged(s), 230), To(Logged(s), 202), To([s EXCEPT !.phase = "user"], 530)}
      [] verb = "TYPE" /\ s.phase = "in" -> {To([s EXCEPT !.binary = TRUE], 200), To(s, 504)}
      [] verb = "REST" /\ s.phase = "in" -> {To([s EXCEPT !.mark = TRUE], 350), To(s, 502)}
      [] verb = "EPSV" /\ s.phase = "in" ->
            {To([s EXCEPT !.port = TRUE], 229), To(s, 500), To(s, 421)}
      [] verb = "PASV" /\ s.phase = "in" -> {To([s EXCEPT !.port = TRUE], 227), To(s, 502)}
      [] verb \in {"RETR", "STOR", "APPE"} /\ s.phase = "in" /\ s.binary /\ data.state = "open" ->
            {To([s EXCEPT !.xfer = verb,
                          !.stored = IF verb = "RETR" \/ verb = "APPE" THEN Remote
                                     ELSE SubSeq(Remote, 1, IF s.mark THEN Offset ELSE 0)], 150),
             To(s, 550)}
      [] verb = "QUIT" -> {To([s EXCEPT !.alive = FALSE], 221)}
      [] OTHER -> {To(Refused(s), 503)}

Greet ==
    /\ server.alive /\ server.phase = "new"
    /\ server' = [server EXCEPT !.phase = "user"]
    /\ \E replies \in {<<Reply(220, 0)>>, <<Reply(120, 0), Reply(220, 0)>>, <<Reply(421, 0)>>} : Send(replies)
    /\ UNCHANGED data

Serve ==
    /\ server.alive /\ server.phase # "new" /\ server.xfer = "no" /\ toServer # <<>>
    /\ \E a \in Answers(server, Head(toServer).verb) :
        /\ Answer([a.s EXCEPT !.n = Head(toServer).n], <<Reply(a.code, Head(toServer).n)>>)
        /\ data' = IF a.code = 550 THEN [data EXCEPT !.state = "eof"] ELSE data

\* A short file may be sent before the reply, which then is the only one.
ServeAtOnce ==
    /\ server.alive /\ server.xfer = "no" /\ server.phase = "in" /\ server.binary
    /\ toServer # <<>> /\ Head(toServer).verb = "RETR" /\ data.state = "open" /\ Len(Remote) <= Cap
    /\ data' = [state |-> "eof", q |-> Remote]
    /\ Answer(server, <<Reply(226, Head(toServer).n)>>)

\* One chunk of a transfer.
Transfer ==
    /\ server.alive
    /\ \/ /\ server.xfer = "RETR" /\ server.pos < Len(Remote) /\ Len(data.q) < Cap
          /\ data' = [data EXCEPT !.q = Append(@, Remote[server.pos + 1])]
          /\ server' = [server EXCEPT !.pos = @ + 1]
       \/ /\ server.xfer \in {"STOR", "APPE"} /\ data.q # <<>>
          /\ data' = [data EXCEPT !.q = Tail(@)]
          /\ server' = [server EXCEPT !.stored = Append(@, Head(data.q))]
    /\ UNCHANGED <<pc, result, local, sent, toServer, toClient, inStep>>

\* Its end, good or bad.
Complete ==
    /\ server.alive
    /\ server.xfer = "RETR" => server.pos = Len(Remote)
    /\ server.xfer \in {"STOR", "APPE"} => data.state = "eof" /\ data.q = <<>>
    /\ server.xfer # "no"
    /\ server' = [server EXCEPT !.xfer = "no"]
    /\ data' = [data EXCEPT !.state = "eof"]
    /\ Send(<<Reply(226, server.n)>>)

Fail ==
    /\ server.alive /\ server.xfer # "no"
    /\ server' = [server EXCEPT !.xfer = "no"]
    /\ \E st \in {"eof", "reset"} :
        data' = [state |-> IF server.xfer = "RETR" THEN st ELSE "reset", q |-> IF st = "eof" THEN data.q ELSE <<>>]
    /\ Send(<<Reply(426, server.n)>>)

Die == Crash /\ data' = [data EXCEPT !.state = IF @ = "open" THEN "eof" ELSE @]

Server == Greet \/ Serve \/ ServeAtOnce \/ Transfer \/ Complete

----------------------------------------------------------------------------
\* Ok is returned only for the whole file, sent or received.
Whole ==
    result = "ok" =>
        CASE local.op = "RETR" -> local.got = Remote
          [] local.op = "APPE" -> server.stored = Remote \o Body
          [] OTHER -> server.stored = IF local.resume THEN SubSeq(Remote, 1, Offset) \o Body ELSE Body
=============================================================================
