-------------------------------- MODULE Pop3 --------------------------------
(***************************************************************************)
(* pop3::fetch of src/pop3.rs against a POP3 server: USER and PASS, then    *)
(* LIST or RETR with its dot-stuffed lines.  A line is a sequence of        *)
(* characters.                                                             *)
(***************************************************************************)
EXTENDS Dialogue

CONSTANTS
    Messages,   \* sequences of lines
    Listings    \* no line of a listing starts with a dot

Init ==
    /\ \E action \in {"LIST", "RETR"} :
       \E payload \in IF action = "LIST" THEN Listings ELSE Messages :
        /\ local = [action |-> action, got |-> <<>>]
        /\ server = [alive |-> TRUE, refused |-> FALSE, phase |-> "new", payload |-> payload]
    /\ pc = "greeting" /\ result = "none" /\ sent = 0 /\ inStep = TRUE
    /\ toServer = <<>> /\ toClient = <<>> /\ data = NoData

----------------------------------------------------------------------------
(* The client.                                                             *)

Terminator == <<".">>

\* Mutant: lines are passed on as they came.
MutUnDotStuff(line) == line

UnDotStuff(line) == IF line # <<>> /\ line[1] = "." THEN Tail(line) ELSE line

\* What comes after a +OK.
Proceed ==
    \/ pc = "greeting" /\ Ask("USER", "", "USER")
    \/ pc = "USER" /\ Ask("PASS", "", "PASS")
    \/ pc = "PASS" /\ Ask(local.action, "", "command")
    \/ pc = "command" /\ Goto("body")
    \/ pc = "farewell" /\ Return("ok")

\* read_status
Status(r) ==
    /\ pc # "body"
    /\ IF r.ok THEN Proceed ELSE Return(IF pc = "farewell" THEN "ok" ELSE "error")
    /\ UNCHANGED local

\* read_multiline; only RETR is unstuffed.
Line(r) ==
    /\ pc = "body"
    /\ IF r.line = Terminator
       THEN Ask("QUIT", "", "farewell") /\ UNCHANGED local
       ELSE /\ local' = [local EXCEPT !.got = Append(@,
                            IF local.action = "RETR" THEN UnDotStuff(r.line) ELSE r.line)]
            /\ UNCHANGED <<pc, result, sent, toServer>>

Receive ==
    /\ toClient # <<>> /\ pc # "done"
    /\ LET r == Head(toClient) IN Take(r) /\ (Status(r) \/ Line(r))
    /\ UNCHANGED <<server, data>>

Client == Receive \/ Broken

----------------------------------------------------------------------------
(* The server.                                                             *)

Stuff(line) == IF line # <<>> /\ line[1] = "." THEN <<".">> \o line ELSE line
Ok(n) == [ok |-> TRUE, re |-> n]
Err(n) == [ok |-> FALSE, re |-> n]
TextBlock(s, n) ==
    Append([i \in DOMAIN s.payload |-> [line |-> Stuff(s.payload[i]), re |-> n]], [line |-> Terminator, re |-> n])

\* What it may answer: its next state and the lines.
To(s, lines) == [s |-> s, lines |-> lines]
Answers(s, verb, n) ==
    CASE verb = "USER" /\ s.phase = "new" ->
            {To([s EXCEPT !.phase = "user"], <<Ok(n)>>), To(s, <<Err(n)>>)}
      [] verb = "PASS" /\ s.phase = "user" ->
            {To([s EXCEPT !.phase = "in"], <<Ok(n)>>), To([s EXCEPT !.phase = "new"], <<Err(n)>>)}
      [] verb \in {"LIST", "RETR"} /\ s.phase = "in" -> {To(s, <<Ok(n)>> \o TextBlock(s, n)), To(s, <<Err(n)>>)}
      [] verb = "QUIT" -> {To([s EXCEPT !.alive = FALSE], <<Ok(n)>>)}
      [] OTHER -> {To(Refused(s), <<Err(n)>>)}

Greet ==
    /\ server.alive /\ server.phase = "new" /\ sent = 0 /\ toClient = <<>> /\ pc = "greeting"
    /\ Send(<<Ok(0)>>) \/ Send(<<Err(0)>>)
    /\ UNCHANGED <<server, data>>

Serve ==
    /\ server.alive /\ toServer # <<>>
    /\ LET c == Head(toServer)
       IN \E a \in Answers(server, c.verb, c.n) : Answer(a.s, a.lines)
    /\ UNCHANGED data

Server == Greet \/ Serve

Die == Crash /\ UNCHANGED data

----------------------------------------------------------------------------
\* Ok is returned only with the whole message or listing, as it was stored.
Whole == result = "ok" => local.got = server.payload
=============================================================================
