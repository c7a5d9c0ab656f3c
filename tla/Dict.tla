-------------------------------- MODULE Dict --------------------------------
(***************************************************************************)
(* dict::fetch of src/dict.rs against a DICT server: the banner, CLIENT     *)
(* (whatever it answers), one DEFINE, MATCH or SHOW DATABASES with its text *)
(* blocks, QUIT.  A text line is a sequence of characters; a status line is *)
(* its code.                                                               *)
(***************************************************************************)
EXTENDS Dialogue

CONSTANTS
    Texts,        \* text blocks: sequences of lines
    Definitions   \* sequences of them

Payloads(verb) == IF verb = "DEFINE" THEN Definitions ELSE {<<b>> : b \in Texts}

Init ==
    /\ \E verb \in {"DEFINE", "MATCH", "SHOW"} : \E payload \in Payloads(verb) :
        /\ local = [verb |-> verb, got |-> <<>>, in |-> FALSE, outcome |-> "ok"]
        /\ server = [alive |-> TRUE, refused |-> FALSE, greeted |-> FALSE, payload |-> payload,
                     left |-> payload, code |-> 0, re |-> 0]
    /\ pc = "banner" /\ result = "none" /\ sent = 0 /\ inStep = TRUE
    /\ toServer = <<>> /\ toClient = <<>> /\ data = NoData

----------------------------------------------------------------------------
(* The client.                                                             *)

\* read_text_block: a lone dot ends the block, a leading one is stuffing.
EndOfBlock(line) == line = <<".">>
Unescaped(line) == IF line # <<>> /\ line[1] = "." THEN Tail(line) ELSE line

\* The codes that a text block follows.
OpensBlock(verb, code) == <<verb, code>> \in {<<"SHOW", 110>>, <<"MATCH", 152>>, <<"DEFINE", 151>>}

\* Informational codes.
Passes(verb, code) == code \in {130, 230} \/ (verb = "DEFINE" /\ code = 150)

\* The response is over (however it ended) and QUIT is sent.
Finish(outcome) ==
    /\ Ask("QUIT", "", "farewell")
    /\ local' = [local EXCEPT !.outcome = outcome]

\* One status line of read_response; a code it does not know ends it, well.
Status(r) ==
    /\ pc = "response" /\ ~local.in
    /\ IF r.code \in 400..599 THEN Finish("error")
       ELSE IF OpensBlock(local.verb, r.code)
       THEN local' = [local EXCEPT !.in = TRUE, !.got = Append(@, <<>>)] /\ Goto(pc)
       ELSE IF Passes(local.verb, r.code) THEN Goto(pc) /\ UNCHANGED local
       ELSE Finish("ok")

TextLine(r) ==
    /\ pc = "response" /\ local.in
    /\ Goto(pc)
    /\ LET last == Len(local.got)
       IN  local' = IF EndOfBlock(r.line) THEN [local EXCEPT !.in = FALSE]
                    ELSE [local EXCEPT !.got[last] = Append(@, Unescaped(r.line))]

Receive ==
    /\ toClient # <<>> /\ pc # "done"
    /\ LET r == Head(toClient)
       IN  /\ Take(r)
           /\ \/ /\ pc = "banner" /\ UNCHANGED local
                 /\ IF r.code = 220 THEN Ask("CLIENT", "", "hello") ELSE Return("error")
              \/ pc = "hello" /\ Ask(local.verb, "", "response") /\ UNCHANGED local
              \/ Status(r)
              \/ TextLine(r)
              \/ pc = "farewell" /\ Return(local.outcome) /\ UNCHANGED local
    /\ UNCHANGED <<server, data>>

\* A broken connection or a timeout; once the response is over it changes nothing.
Breaks ==
    /\ pc # "done" /\ (~server.alive \/ toClient = <<>>)
    /\ Return(IF pc = "farewell" THEN local.outcome ELSE "error")
    /\ UNCHANGED <<local, toClient, server, data, inStep>>

Client == Receive \/ Breaks

----------------------------------------------------------------------------
(* The server.                                                             *)

Escaped(line) == IF line # <<>> /\ line[1] = "." THEN <<".">> \o line ELSE line
Code(code, n) == [code |-> code, re |-> n]
Block(code, b, n) ==
    <<Code(code, n)>> \o Append([i \in DOMAIN b |-> [line |-> Escaped(b[i]), re |-> n]], [line |-> <<".">>, re |-> n])

Greet ==
    /\ server.alive /\ ~server.greeted
    /\ server' = [server EXCEPT !.greeted = TRUE]
    /\ \E code \in {220, 420} : Send(<<Code(code, 0)>>)
    /\ UNCHANGED data

\* The code that starts a text block, the one of "nothing found".
Starts(verb) == CASE verb = "SHOW" -> 110 [] verb = "MATCH" -> 152 [] OTHER -> 151
Fails(verb) == IF verb = "SHOW" THEN 554 ELSE 552

\* A query is answered at once or, block by block, with what was found.
Serve ==
    /\ server.alive /\ server.re = 0 /\ toServer # <<>>
    /\ LET c == Head(toServer)
       IN  \/ c.verb = "CLIENT" /\ \E code \in {250, 500} : Answer(server, <<Code(code, c.n)>>)
           \/ c.verb = "QUIT" /\ Answer([server EXCEPT !.alive = FALSE], <<Code(221, c.n)>>)
           \/ /\ c.verb \notin {"CLIENT", "QUIT"}
              /\ \/ Answer(server, <<Code(Fails(c.verb), c.n)>>)
                 \/ Answer([server EXCEPT !.re = c.n, !.code = Starts(c.verb)],
                           IF c.verb = "DEFINE" THEN <<Code(150, c.n)>> ELSE <<>>)
    /\ UNCHANGED data

\* The next block, or the end.
Found ==
    /\ server.alive /\ server.re # 0
    /\ IF server.left # <<>>
       THEN /\ server' = [server EXCEPT !.left = Tail(@)]
            /\ Send(Block(server.code, Head(server.left), server.re))
       ELSE server' = [server EXCEPT !.re = 0] /\ Send(<<Code(250, server.re)>>)
    /\ UNCHANGED data

Die == Crash /\ UNCHANGED data

Server == Greet \/ Serve \/ Found

----------------------------------------------------------------------------
\* Ok is returned only with every text block, as it was before it was escaped.
Whole == result = "ok" => local.got = server.payload
=============================================================================
