------------------------------- MODULE Gopher -------------------------------
(***************************************************************************)
(* gopher::fetch of src/gopher.rs: the selector of the URL's path, with the *)
(* search words behind a TAB, and one response that only the end of the     *)
(* stream ends.  A path is a sequence of its parts.                        *)
(***************************************************************************)
EXTENDS Dialogue

CONSTANTS
    MaxResponse,        \* MAX_RESPONSE_BYTES, in blocks
    Selectors, Words    \* what a user may ask for; Words start with "?", unless there are none

\* A wish, and the URL path that says so.
Wishes == [selector : Selectors, words : Words]
Path(w) == {<<"/", "7">> \o w.selector \o w.words} \cup (IF w.selector = <<>> /\ w.words = <<>> THEN {<<>>, <<"/">>} ELSE {})
Meant(w) == IF w.words = <<>> THEN w.selector ELSE w.selector \o <<"TAB">> \o Tail(w.words)

Init ==
    /\ \E w \in Wishes : \E path \in Path(w) :
        /\ local = [path |-> path, got |-> 0]
        /\ server = [alive |-> TRUE, refused |-> FALSE, wanted |-> Meant(w), asked |-> <<"nothing">>, wrote |-> 0]
    /\ pc = "start" /\ result = "none" /\ sent = 0 /\ inStep = TRUE
    /\ toServer = <<>> /\ toClient = <<>> /\ data = NoData

\* selector_from_path: the slash and the item type go, the first "?" becomes a TAB.
Selector(path) ==
    LET bare == IF path # <<>> /\ Head(path) = "/" THEN Tail(path) ELSE path
        rest == IF bare = <<>> THEN <<>> ELSE Tail(bare)
        marks == {i \in DOMAIN rest : rest[i] = "?"}
    IN  IF marks = {} THEN rest ELSE [rest EXCEPT ![CHOOSE i \in marks : \A j \in marks : i <= j] = "TAB"]

Fetch ==
    /\ pc = "start"
    /\ Ask("SELECT", Selector(local.path), "response")
    /\ UNCHANGED <<local, toClient, server, data, inStep>>

\* read_capped: read to the end of the stream, an error when it is beyond the cap.
Receive ==
    /\ pc = "response" /\ toClient # <<>>
    /\ LET r == Head(toClient)
       IN  /\ Take(r)
           /\ IF r.kind = "end" THEN Return("ok") /\ UNCHANGED local
              ELSE /\ local' = [local EXCEPT !.got = @ + 1]
                   /\ IF local.got = MaxResponse THEN Return("error") ELSE Goto(pc)
    /\ UNCHANGED <<server, data>>

Client == Fetch \/ Receive \/ Broken \/ (pc = "response" /\ Timeout)

----------------------------------------------------------------------------
Part(kind) == [kind |-> kind, re |-> Head(toServer).n]

\* A server writes blocks and closes, or is not done within the client's patience.
Serve ==
    /\ server.alive /\ toServer # <<>>
    /\ \E n \in 0 .. MaxResponse + 1, closes \in BOOLEAN :
        Answer([server EXCEPT !.asked = Head(toServer).arg, !.wrote = n],
               [i \in 1 .. n |-> Part("block")] \o (IF closes THEN <<Part("end")>> ELSE <<>>))
    /\ UNCHANGED data

Die == Crash /\ UNCHANGED data

Server == Serve

----------------------------------------------------------------------------
\* Ok is returned with all that the server wrote, about what was asked for.
Whole == result = "ok" => local.got = server.wrote /\ server.asked = server.wanted
=============================================================================
