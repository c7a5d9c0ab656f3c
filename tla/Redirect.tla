------------------------------ MODULE Redirect ------------------------------
(***************************************************************************)
(* Request::send_to of src/http.rs: one request, the redirects that it      *)
(* follows, the credentials and cookies that travel with it, and            *)
(* --max-time.  One hop (send_once) is the transport's business: it answers *)
(* or fails, and takes up to MaxHopTime.                                   *)
(***************************************************************************)
EXTENDS CookieJar, Integers

CONSTANTS
    Origins,     \* [scheme, host, port]
    Callers,     \* requests that are made
    Statuses,    \* classes of statuses that servers answer with
    Userinfos,   \* "server" if a Location may have userinfo
    Paths,       \* paths of URLs
    Attributes,  \* of Set-Cookie lines: [domain, secure, path, lives]
    MaxRedirs,   \* max_redirs
    MaxTime,     \* max_time
    MaxHopTime,  \* the longest send_once
    MaxClock     \* bound on the clock

ASSUME RedirectAssumption ==
    /\ Origins \subseteq [scheme : {"http", "https"}, host : Hosts, port : Nat]
    /\ Callers \subseteq [method : {"GET", "POST"}, body : BOOLEAN, auth : BOOLEAN, cookie : BOOLEAN,
                          userinfo : {"nobody", "caller"}, useJar : BOOLEAN, follow : BOOLEAN]
    /\ Statuses \subseteq {"final", "301-303", "307-308"} /\ Userinfos \subseteq {"nobody", "server"}
    /\ \A p \in Paths : p.segs # <<>> /\ p.query \in BOOLEAN
    /\ \A a \in Attributes : a.domain \in Hosts \cup {NoDomain} /\ a.lives \in {"session", "over", "short"}
    /\ MaxRedirs \in Nat /\ MaxTime \in Nat /\ MaxHopTime \in Nat /\ MaxClock \in Nat

VARIABLES
    first,     \* the origin and method of the caller's request
    url,       \* req.url: the origin, and whose userinfo it has
    method,
    body,      \* is there a body?
    auth,      \* Authorization header or basic_auth of the caller
    cookie,    \* Cookie header of the caller
    useJar,    \* jar is Some
    jar,
    follow,    \* follow_redirects
    hopsLeft,
    clock,
    sends,     \* requests sent so far
    sent,      \* the request on the wire
    state      \* "hop", "wait", or how send_to returned

vars == <<first, url, method, body, auth, cookie, useJar, jar, follow, hopsLeft,
          clock, sends, sent, state>>
request == <<url, method, body, auth, cookie>>

Nothing == [to |-> "nowhere"]

Init ==
    /\ \E o \in Origins, p \in Paths, c \in Callers :
        /\ url = [origin |-> o, userinfo |-> c.userinfo, path |-> p]
        /\ method = c.method /\ body = c.body /\ auth = c.auth /\ cookie = c.cookie
        /\ useJar = c.useJar /\ follow = c.follow
        /\ first = [origin |-> o, method |-> c.method]
    /\ jar = {} /\ hopsLeft = MaxRedirs /\ clock = 0 /\ sends = 0
    /\ sent = Nothing /\ state = "hop"

\* effective_basic_auth, and an Authorization header before it.
EffectiveAuth == IF auth THEN "caller" ELSE url.userinfo

Tls == url.origin.scheme = "https"

\* The head of the loop: the deadline, the Cookie header, the request.
Hop ==
    /\ state = "hop"
    /\ IF clock >= MaxTime
       THEN state' = "timeout" /\ UNCHANGED <<jar, sends, sent>>
       ELSE /\ jar' = PurgeExpired(jar, clock)
            /\ sent' = [to |-> url.origin, path |-> url.path, method |-> method, body |-> body, auth |-> EffectiveAuth,
                        cookie |-> cookie /\ ~useJar,
                        jar |-> IF useJar THEN CookieHeader(jar', url.origin.host, url.path, Tls, clock) ELSE {}]
            /\ sends' = sends + 1
            /\ state' = "wait"
    /\ UNCHANGED <<first, request, useJar, follow, hopsLeft, clock>>

SendFails ==
    /\ state = "wait"
    /\ state' = "error"
    /\ UNCHANGED <<first, request, useJar, jar, follow, hopsLeft, clock, sends, sent>>

\* url::resolve: a reference without an authority keeps the origin and drops the
\* userinfo, and one without a slash replaces the last segment of the path.
Resolve(location) ==
    CASE location.kind = "relative" ->
            [origin |-> url.origin, userinfo |-> "nobody",
             path |-> [location.path EXCEPT !.segs = Front(url.path.segs) \o @]]
      [] location.kind = "rooted" -> [origin |-> url.origin, userinfo |-> "nobody", path |-> location.path]
      [] OTHER -> [origin |-> location.origin, userinfo |-> location.userinfo, path |-> location.path]

\* Mutant: only the name of the host counts.
MutHostChanged(next) == next.origin.host # url.origin.host

HostChanged(next) == next.origin # url.origin

\* Mutant: the body goes along with the rewritten method.
MutKeepsBody(status) == TRUE

Rewrites(status) == status = "301-303" /\ method # "GET"
KeepsBody(status) == ~Rewrites(status)

\* The next request of the chain.
Follow(status, location) ==
    LET next == Resolve(location)
    IN  /\ url' = next
        /\ auth' = (auth /\ ~HostChanged(next))
        /\ cookie' = (cookie /\ ~HostChanged(next))
        /\ method' = IF Rewrites(status) THEN "GET" ELSE method
        /\ body' = (body /\ KeepsBody(status))

\* Mutant: the last hop is counted after it is taken.
MutOutOfHops == hopsLeft = 0 /\ sends > MaxRedirs + 1

OutOfHops == hopsLeft = 0

\* The response of a hop: its cookies are in the jar, then return it or follow it.
Respond(status, location, stored, now) ==
    /\ clock' = now
    /\ jar' = stored
    /\ IF ~follow \/ status = "final"
       THEN state' = "ok" /\ UNCHANGED <<request, hopsLeft>>
       ELSE IF OutOfHops THEN state' = "too-many" /\ UNCHANGED <<request, hopsLeft>>
       ELSE IF location.kind = "none" THEN state' = "ok" /\ UNCHANGED <<request, hopsLeft>>
       ELSE IF location.kind = "invalid" THEN state' = "error" /\ UNCHANGED <<request, hopsLeft>>
       ELSE /\ Follow(status, location)
            /\ hopsLeft' = hopsLeft - 1
            /\ state' = "hop"
    /\ UNCHANGED <<first, useJar, follow, sends, sent>>

\* What servers answer: at most one Set-Cookie line with a redirect or a page.
Locations == [kind : {"none", "invalid"}]
             \cup [kind : {"relative", "rooted"}, path : Paths]
             \cup [kind : {"absolute"}, origin : Origins, userinfo : Userinfos, path : Paths]
Expiry(lives, now) == CASE lives = "session" -> Session [] lives = "over" -> now [] OTHER -> now + 1
Lines(now) == {[name |-> n, domain |-> a.domain, secure |-> a.secure, path |-> a.path,
                expires |-> Expiry(a.lives, now)] : n \in Names, a \in Attributes}

Reply ==
    /\ state = "wait"
    /\ \E status \in Statuses :
       \E location \in IF follow /\ status # "final" THEN Locations ELSE [kind : {"none"}] :
       \E now \in clock..(clock + MaxHopTime) :
       \E stored \in {jar} \cup (IF useJar
                                 THEN {AddSetCookie(jar, url.origin.host, url.path, l, now) : l \in Lines(now)}
                                 ELSE {}) :
          now <= MaxClock /\ Respond(status, location, stored, now)

Finished == state \notin {"hop", "wait"} /\ UNCHANGED vars

Next == Hop \/ SendFails \/ Reply \/ Finished

Spec == Init /\ [][Next]_vars

----------------------------------------------------------------------------
(* Properties.                                                             *)

\* The caller's credentials and Cookie header only go to the scheme, host and
\* port the caller gave them for, wherever the redirects lead and come back to.
CredentialsStayHome ==
    sent # Nothing /\ sent.to # first.origin => sent.auth # "caller" /\ ~sent.cookie

\* A cookie goes only to hosts that share a domain with the host that set it (to
\* that host alone without Domain), below its path, Secure ones over TLS
\* only, none when expired, through redirects, URLs and invocations.
Family(h) == {d \in Hosts \ BareLabels : DomainMatch(h, d, FALSE)}
CookiesStayHome ==
    state = "wait" => \A c \in sent.jar :
        /\ sent.to.host = c.by \/ (~c.hostOnly /\ Family(sent.to.host) \cap Family(c.by) # {})
        /\ IsPrefix(c.path, sent.path.segs)
        /\ c.secure => sent.to.scheme = "https"
        /\ ~Expired(c, clock)

\* Once a response or -b has set a cookie the jar holds that one value for its name,
\* domain and path, through redirects, URLs, saves and loads.  Only what a cookies.txt
\* had twice when somebody else wrote it stays double until then: load_netscape pushes
\* each line (cookie.rs:166), unlike add_set_cookie and add_explicit.
OneValuePerCookie ==
    \A c, d \in jar :
        c.name = d.name /\ c.domain = d.domain /\ c.path = d.path => c = d \/ (c.line # 0 /\ d.line # 0)

\* The caller's body only travels with the caller's method.
BodyWithItsMethod == sent # Nothing /\ sent.body => sent.method = first.method

\* send_to returns after at most max_redirs redirects.
SendsBounded == sends <= MaxRedirs + 1
=============================================================================
