----------------------------- MODULE MCRedirect -----------------------------
(* Hosts and origins for model checking Redirect and CommandLine, and the    *)
(* sum of the two: chains for the caller's credentials, against the deadline,    *)
(* and invocations with a jar, where cookies expire.                       *)
EXTENDS CommandLine

Com == "com"
Ex == "ex.com"
A == "a.ex.com"
Other == "other.com"
Ip == "10.0.0.1"

SomeHosts == {Com, Ex, A, Other, Ip}
SomeBelow == {<<A, Ex>>, <<A, Com>>, <<Ex, Com>>, <<Other, Com>>}
SomeBareLabels == {Com}
SomeIps == {Ip}
At(s, h, p) == [scheme |-> s, host |-> h, port |-> p]

\* A chain for the caller's credentials: by host, by scheme, by port.
CredentialOrigins == {At("https", A, 443), At("http", A, 80), At("https", A, 8443), At("https", Other, 443)}
AllCallers ==
    {c \in [method : {"GET", "POST"}, body : BOOLEAN, auth : BOOLEAN, cookie : BOOLEAN,
            userinfo : {"nobody", "caller"}, useJar : {FALSE}, follow : BOOLEAN] : c.body => c.method = "POST"}
Root == [segs |-> <<"">>, query |-> FALSE]
RootOnly == {Root}
NoFile == {{}}
NoOptions == {}

\* Invocations for cookies: parent, child and a stranger, an address; a page in a
\* directory, and the directory's own name with a query.
CookieOrigins == {At("https", A, 443), At("http", A, 80), At("https", Ex, 443), At("http", Ip, 80)}
CookiePaths == {[segs |-> <<"d", "x">>, query |-> FALSE], [segs |-> <<"d">>, query |-> TRUE]}
Line(d, s, p, l) == [domain |-> d, secure |-> s, path |-> p, lives |-> l]
CookieAttributes ==
    {Line(NoDomain, FALSE, NoPath, "session"), Line(Ex, TRUE, NoPath, "short"), Line(Ex, FALSE, <<>>, "over"),
     Line(Com, FALSE, <<>>, "session")}
Stored(d, h, s, e, n) ==
    [name |-> "sid", domain |-> d, hostOnly |-> h, secure |-> s, expires |-> e, path |-> <<>>, by |-> d, line |-> n]
CookieFiles == {{Stored(Com, FALSE, FALSE, 9, 1), Stored(Ex, FALSE, TRUE, 1, 2), Stored(Ex, FALSE, FALSE, 9, 3)}}
JarOptions == {[b |-> "none", c |-> TRUE], [b |-> "pairs", c |-> TRUE], [b |-> "file", c |-> FALSE]}
JarCaller == {[method |-> "GET", body |-> FALSE, auth |-> FALSE, cookie |-> TRUE,
               userinfo |-> "nobody", useJar |-> TRUE, follow |-> TRUE]}

Shell == INSTANCE CommandLine WITH
    Origins <- CookieOrigins, Callers <- JarCaller, Statuses <- {"final", "307-308"},
    Userinfos <- {"nobody"}, Paths <- CookiePaths, Attributes <- CookieAttributes,
    MaxRedirs <- 1, MaxTime <- 9, MaxHopTime <- 1, MaxClock <- 1,
    Files <- CookieFiles, Options <- JarOptions, MaxUrls <- 1, MaxInvocations <- 2

MCInit == (Init /\ file = Nothing /\ options = Nothing /\ urls = 0 /\ invocations = 0) \/ Shell!InitShell
MCNext == (~useJar /\ Next /\ UNCHANGED shell) \/ (useJar /\ Shell!NextShell)
MCSpec == MCInit /\ [][MCNext]_<<vars, shell>>
=============================================================================
