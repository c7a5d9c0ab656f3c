------------------------------- MODULE MCHttp1 -------------------------------
(* Requests and responses for model checking Http1.                        *)
EXTENDS Http1

\* A request and a response like any other; the sets below vary them.
Get == [scheme |-> "https", host |-> "a", method |-> "GET", valid |-> TRUE,
        verify |-> TRUE, caBundle |-> FALSE, direct |-> TRUE]
Plain == [Get EXCEPT !.scheme = "http"]
Ok == [status |-> "final", framing |-> "length", version |-> "1.1", connection |-> "",
       encoded |-> FALSE, fault |-> "no"]

AHost == {"a"}
TwoHosts == {"a", "b"}

\* One request of each kind that matters for sharing connections.
MixedRequests ==
    {Get, [Get EXCEPT !.verify = FALSE], [Get EXCEPT !.caBundle = TRUE], [Get EXCEPT !.direct = FALSE],
     [Get EXCEPT !.host = "b"], [Get EXCEPT !.valid = FALSE], Plain, [Plain EXCEPT !.method = "HEAD"]}
OneRequest == {Plain}

\* A request whose connection is never shared.
Unshared == {[Get EXCEPT !.verify = FALSE]}

\* Every kind of answer.
AllResponses ==
    {Ok, [Ok EXCEPT !.framing = "chunked"], [Ok EXCEPT !.framing = "none"],
     [Ok EXCEPT !.status = "nobody", !.framing = "none"], [Ok EXCEPT !.connection = "close"],
     [Ok EXCEPT !.version = "1.0"], [Ok EXCEPT !.version = "1.0", !.connection = "keep-alive"],
     [Ok EXCEPT !.encoded = TRUE], [Ok EXCEPT !.fault = "head"],
     [Ok EXCEPT !.fault = "body"]}
OkResponse == {Ok}
=============================================================================
