-------------------------------- MODULE Imap --------------------------------
(***************************************************************************)
(* imap::fetch of src/imap.rs against an IMAP server: greeting, CAPABILITY,  *)
(* STARTTLS, authentication, then a listing or one message, LOGOUT.  A      *)
(* reply is a whole response: its status, the capabilities in it and, for   *)
(* UID FETCH, the first literal, <<>> if it has none.                      *)
(***************************************************************************)
EXTENDS Dialogue

CONSTANTS
    ClearCaps, TlsCaps,   \* sets of capabilities that a server announces in the clear, under TLS
    Mails                 \* the message of the UID, <<>> if there is none

Init ==
    /\ \E op \in {"LIST", "UIDS", "UID"}, creds \in {"none", "good", "ctl"}, tls \in BOOLEAN :
        local = [op |-> op, creds |-> creds, tls |-> tls, caps |-> {}, preauth |-> FALSE, got |-> <<>>]
    /\ \E clear \in ClearCaps, secure \in TlsCaps, mail \in Mails, quoted, preauth \in BOOLEAN :
        /\ preauth => clear = {}
        /\ local.tls => clear = {}
        /\ server = [alive |-> TRUE, refused |-> FALSE, phase |-> "new", clear |-> clear, secure |-> secure,
                     tls |-> local.tls, mail |-> mail, quoted |-> quoted, preauth |-> preauth]
    /\ pc = "greeting" /\ result = "none" /\ sent = 0 /\ inStep = TRUE
    /\ toServer = <<>> /\ toClient = <<>> /\ data = NoData

----------------------------------------------------------------------------
(* The client.                                                             *)

\* Caps: the capabilities in a response, in its code or in an untagged line.
CapsOf(r) == r.caps

\* reject_ctl on the credentials.
HasControl(l) == l.creds = "ctl"

\* What remains to be done for the URL.
Fetch(l) == IF l.op = "LIST" THEN Ask("LIST", "", "body") ELSE Ask("SELECT", "", "select")

\* choose_auth
ChooseAuth(caps) ==
    IF "AUTH=PLAIN" \in caps THEN "PLAIN"
    ELSE IF "AUTH=LOGIN" \in caps THEN "LOGIN"
    ELSE IF "LOGINDISABLED" \in caps THEN "none" ELSE "COMMAND"

\* authenticate, if there are credentials and the session is not PREAUTH.
Authenticate(l) ==
    IF l.preauth \/ l.creds = "none" THEN Fetch(l)
    ELSE IF HasControl(l) THEN Return("error")
    ELSE CASE ChooseAuth(l.caps) = "PLAIN"   -> Ask("AUTH=PLAIN", "", "auth")
           [] ChooseAuth(l.caps) = "LOGIN"   -> Ask("AUTH=LOGIN", "", "user")
           [] ChooseAuth(l.caps) = "COMMAND" -> Ask("LOGIN", "", "auth")
           [] OTHER                          -> Return("error")

\* The capabilities are known: STARTTLS if it is offered in the clear.
Secure(l) == IF ~l.tls /\ "STARTTLS" \in l.caps THEN Ask("STARTTLS", "", "starttls") ELSE Authenticate(l)

\* Mutant: what came behind the reply to STARTTLS is read after the handshake.
MutIsClear(rest) == TRUE

\* The buffer behind the reply to STARTTLS.
IsClear(rest) == rest = <<>>

Ok(r) == r.status = "OK"

Greeting(r) ==
    /\ pc = "greeting"
    /\ LET l == [local EXCEPT !.caps = CapsOf(r), !.preauth = (r.status = "PREAUTH")]
       IN  /\ local' = l
           /\ IF r.status \notin {"OK", "PREAUTH"} THEN Return("error")
              ELSE IF l.caps = {} THEN Ask("CAPABILITY", "", "capability") ELSE Secure(l)

Capability(r) ==
    /\ pc \in {"capability", "recapability"}
    /\ LET l == [local EXCEPT !.caps = CapsOf(r)]
       IN  /\ local' = l
           /\ IF ~Ok(r) THEN Return("error") ELSE IF pc = "capability" THEN Secure(l) ELSE Authenticate(l)

\* The handshake may fail, and does if something in the clear is still to be read.
StartTls(r) ==
    /\ pc = "starttls"
    /\ \/ Return("error") /\ UNCHANGED local
       \/ /\ Ok(r) /\ IsClear(Tail(toClient))
          /\ local' = [local EXCEPT !.tls = TRUE]
          /\ Ask("CAPABILITY", "", "recapability")

\* AUTHENTICATE LOGIN: two prompts, either of which may be the completion.
Prompt(r) ==
    /\ pc \in {"user", "password"} /\ UNCHANGED local
    /\ IF r.status = "+" THEN Ask("continue", "", IF pc = "user" THEN "password" ELSE "auth")
       ELSE IF Ok(r) THEN Fetch(local) ELSE Return("error")

Completion(r) ==
    /\ pc \in {"auth", "select"} /\ UNCHANGED local
    /\ IF ~Ok(r) THEN Return("error")
       ELSE IF pc = "auth" THEN Fetch(local) ELSE Ask(local.op, "", "body")

\* The body of the result: the lines, or the first literal.
Fetched(r) ==
    /\ pc = "body"
    /\ IF Ok(r) THEN Ask("LOGOUT", "", "farewell") /\ local' = [local EXCEPT !.got = r.literal]
       ELSE Return("error") /\ UNCHANGED local

Farewell(r) == pc = "farewell" /\ Return("ok") /\ UNCHANGED local

Receive ==
    /\ toClient # <<>> /\ pc # "done"
    /\ LET r == Head(toClient)
       IN  /\ Take(r)
           /\ \/ Greeting(r) \/ Capability(r) \/ StartTls(r) \/ Prompt(r)
              \/ Completion(r) \/ Fetched(r) \/ Farewell(r)
    /\ UNCHANGED <<server, data>>

Client == Receive \/ Broken

----------------------------------------------------------------------------
(* The server.                                                             *)

Reply(status, caps, literal, n) == [status |-> status, caps |-> caps, literal |-> literal, re |-> n]
Status(status) == Reply(status, {}, <<>>, Head(toServer).n)
Caps(s) == IF s.tls THEN s.secure ELSE s.clear
To(s, r) == [s |-> s, replies |-> <<r>>]
In(s) == [s EXCEPT !.phase = "in"]
Done(s) == {To(In(s), Status("OK")), To(s, Status("NO"))}

\* Something in the clear may follow the reply to STARTTLS.
Staged == Reply("OK", {"AUTH=PLAIN"}, <<>>, 0)

\* The literal in the answer to UID FETCH: none if the server sends the message as a quoted
\* string, as it may.
Literals(s, verb) == IF verb = "UID" /\ ~s.quoted THEN {s.mail} ELSE {<<>>}

Answers(s, verb) ==
    CASE verb = "CAPABILITY" -> {To(s, [Status("OK") EXCEPT !.caps = Caps(s)])}
      [] verb = "STARTTLS" /\ "STARTTLS" \in Caps(s) ->
            {To([s EXCEPT !.tls = TRUE], Status("OK")), To(s, Status("NO")),
             [s |-> [s EXCEPT !.tls = TRUE], replies |-> <<Status("OK"), Staged>>]}
      [] verb = "AUTH=PLAIN" /\ verb \in Caps(s) /\ s.phase = "new" -> Done(s) \cup {To(s, Status("+"))}
      [] verb = "AUTH=LOGIN" /\ verb \in Caps(s) /\ s.phase = "new" ->
            {To([s EXCEPT !.phase = "user"], Status("+")), To(s, Status("NO"))}
      [] verb = "continue" /\ s.phase = "user" -> {To([s EXCEPT !.phase = "password"], Status("+"))}
      [] verb = "continue" /\ s.phase = "password" -> Done(s)
      [] verb = "LOGIN" /\ "LOGINDISABLED" \notin Caps(s) /\ s.phase = "new" -> Done(s)
      [] verb \in {"LIST", "SELECT", "UIDS", "UID"} ->   \* NO to a client that is not logged in
            IF s.phase # "in" THEN {To(s, Status("NO"))}
            ELSE {To(s, [Status("OK") EXCEPT !.literal = l]) : l \in Literals(s, verb)} \cup {To(s, Status("NO"))}
      [] verb = "LOGOUT" -> {To([s EXCEPT !.alive = FALSE], Status("OK"))}
      [] OTHER -> {To(Refused(s), Status("BAD"))}

Greet ==
    /\ server.alive /\ pc = "greeting" /\ toClient = <<>> /\ sent = 0
    /\ \E inline \in BOOLEAN, status \in {"OK", "BYE"} :
        /\ Send(<<Reply(IF status = "OK" /\ server.preauth THEN "PREAUTH" ELSE status,
                        IF inline THEN Caps(server) ELSE {}, <<>>, 0)>>)
        /\ server' = IF server.preauth THEN In(server) ELSE server
    /\ UNCHANGED data

Serve ==
    /\ server.alive /\ toServer # <<>>
    /\ LET verb == Head(toServer).verb
       IN \E a \in Answers(server, verb) : Answer(a.s, a.replies)
    /\ UNCHANGED data

Die == Crash /\ UNCHANGED data

Server == Greet \/ Serve

----------------------------------------------------------------------------
\* Ok is returned with the message asked for, or with nothing: if there is none, or if the
\* server sent it as a quoted string, in which fetch finds no literal (imap.rs:237).  The
\* lines of a listing are left out.
Whole == result = "ok" => local.got = IF local.op = "UID" /\ ~server.quoted THEN server.mail ELSE <<>>
=============================================================================
