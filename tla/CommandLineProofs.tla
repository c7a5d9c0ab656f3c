------------------------- MODULE CommandLineProofs -------------------------
(***************************************************************************)
(* TLAPS proofs about Request::send_to and the command line around it.  For *)
(* every set of origins, every number of redirects and every answer of the  *)
(* servers, the caller's credentials and body stay where they belong and    *)
(* the chain is finite.  For every set of hosts, every Set-Cookie line and  *)
(* every sequence of invocations that share a file, cookies reach only the  *)
(* hosts and paths they are for, and replace the ones they should.          *)
(***************************************************************************)
EXTENDS CommandLine, TLAPS

-----------------------------------------------------------------------------
(* One chain of redirects.                                                 *)

\* What the request being built still has of the caller's it has for the
\* caller's origin; a changed method has lost the body; every hop is paid for.
ChainInv ==
    /\ auth \in BOOLEAN /\ cookie \in BOOLEAN /\ body \in BOOLEAN
    /\ auth \/ cookie \/ url.userinfo = "caller" => url.origin = first.origin
    /\ body => method = first.method
    /\ hopsLeft \in Nat /\ sends \in Nat
    /\ sends + hopsLeft = IF state \in {"hop", "timeout"} THEN MaxRedirs ELSE MaxRedirs + 1
    /\ CredentialsStayHome
    /\ BodyWithItsMethod

\* The invariant holds of the caller's own request.
LEMMA ChainInit == Init => ChainInv
  <1> SUFFICES ASSUME Init PROVE ChainInv
    OBVIOUS
  <1> PICK o \in Origins, p \in Paths, c \in Callers :
        /\ url = [origin |-> o, userinfo |-> c.userinfo, path |-> p]
        /\ method = c.method /\ body = c.body /\ auth = c.auth /\ cookie = c.cookie
        /\ first = [origin |-> o, method |-> c.method]
    BY DEF Init
  <1>1. auth \in BOOLEAN /\ cookie \in BOOLEAN /\ body \in BOOLEAN
    BY RedirectAssumption
  <1>2. url.origin = first.origin /\ method = first.method
    OBVIOUS
  <1>3. hopsLeft = MaxRedirs /\ sends = 0 /\ state = "hop" /\ sent = Nothing /\ MaxRedirs \in Nat
    BY RedirectAssumption DEF Init
  <1> QED BY <1>1, <1>2, <1>3 DEF ChainInv, CredentialsStayHome, BodyWithItsMethod

\* Sending a hop puts on the wire what the invariant allows.
LEMMA HopInv == ASSUME ChainInv, Hop PROVE ChainInv'
  <1>1. UNCHANGED <<first, url, method, body, auth, cookie, hopsLeft>> /\ state = "hop"
    BY DEF Hop, request
  <1>2. CASE clock >= MaxTime
    <2>1. state' = "timeout" /\ UNCHANGED <<sends, sent>>
      BY <1>2 DEF Hop
    <2> QED BY <1>1, <2>1 DEF ChainInv, CredentialsStayHome, BodyWithItsMethod
  <1>3. CASE ~(clock >= MaxTime)
    <2>1. /\ sends' = sends + 1 /\ state' = "wait"
          /\ sent'.to = url.origin /\ sent'.auth = EffectiveAuth /\ sent'.cookie = (cookie /\ ~useJar)
          /\ sent'.body = body /\ sent'.method = method
      BY <1>3 DEF Hop
    <2>2. CredentialsStayHome'
      BY <1>1, <2>1 DEF ChainInv, CredentialsStayHome, EffectiveAuth
    <2>3. BodyWithItsMethod'
      BY <1>1, <2>1 DEF ChainInv, BodyWithItsMethod
    <2>4. sends' \in Nat /\ sends' + hopsLeft' = MaxRedirs + 1
      BY <1>1, <2>1, RedirectAssumption DEF ChainInv
    <2> QED BY <1>1, <2>1, <2>2, <2>3, <2>4 DEF ChainInv
  <1> QED BY <1>2, <1>3

\* Following a redirect drops what may not go along.
LEMMA FollowInv ==
    ASSUME ChainInv, NEW status, NEW location \in Locations,
           location.kind \notin {"none", "invalid"},
           Follow(status, location), hopsLeft' = hopsLeft - 1, hopsLeft # 0,
           state = "wait", state' = "hop", UNCHANGED <<first, sends, sent>>
    PROVE  ChainInv'
  <1> DEFINE next == Resolve(location)
  <1>1. next.userinfo # "caller"
    BY RedirectAssumption DEF Resolve, Locations
  <1>2. /\ url' = next /\ auth' = (auth /\ ~HostChanged(next)) /\ cookie' = (cookie /\ ~HostChanged(next))
        /\ body' = (body /\ KeepsBody(status))
        /\ method' = IF Rewrites(status) THEN "GET" ELSE method
    BY DEF Follow
  <1> HIDE DEF next
  <1>3. auth' \in BOOLEAN /\ cookie' \in BOOLEAN /\ body' \in BOOLEAN
    BY <1>2 DEF ChainInv
  <1>4. auth' \/ cookie' \/ url'.userinfo = "caller" => url'.origin = first'.origin
    BY <1>1, <1>2 DEF ChainInv, HostChanged
  <1>5. body' => method' = first'.method
    BY <1>2 DEF ChainInv, KeepsBody
  <1>6. hopsLeft' \in Nat /\ sends' \in Nat /\ sends' + hopsLeft' = MaxRedirs
    BY RedirectAssumption DEF ChainInv
  <1>7. CredentialsStayHome' /\ BodyWithItsMethod'
    BY DEF ChainInv, CredentialsStayHome, BodyWithItsMethod
  <1> QED BY <1>3, <1>4, <1>5, <1>6, <1>7 DEF ChainInv

\* Every step keeps the invariant.
LEMMA ChainNext == ChainInv /\ [Next]_vars => ChainInv'
  <1> SUFFICES ASSUME ChainInv, [Next]_vars PROVE ChainInv'
    OBVIOUS
  <1>1. ASSUME UNCHANGED <<first, request, hopsLeft, sends, sent>>, state = "wait",
               state' \in {"ok", "too-many", "error"}
        PROVE  ChainInv'
    BY <1>1 DEF ChainInv, request, CredentialsStayHome, BodyWithItsMethod
  <1>2. CASE Hop
    BY <1>2, HopInv
  <1>3. CASE SendFails
    BY <1>1, <1>3 DEF SendFails
  <1>4. CASE Reply
    <2> PICK status \in Statuses, location \in Locations : \E now, stored : Respond(status, location, stored, now)
      BY <1>4 DEF Reply, Locations
    <2> PICK now, stored : Respond(status, location, stored, now)
      OBVIOUS
    <2>1. state = "wait" /\ UNCHANGED <<first, sends, sent>>
      BY <1>4 DEF Respond, Reply
    <2>2. CASE UNCHANGED <<request, hopsLeft>> /\ state' \in {"ok", "too-many", "error"}
      BY <1>1, <2>1, <2>2
    <2>3. CASE ~(UNCHANGED <<request, hopsLeft>> /\ state' \in {"ok", "too-many", "error"})
      <3>1. /\ Follow(status, location) /\ hopsLeft' = hopsLeft - 1 /\ state' = "hop"
            /\ ~OutOfHops /\ location.kind \notin {"none", "invalid"}
        BY <2>3 DEF Respond
      <3> QED BY <2>1, <3>1, FollowInv DEF OutOfHops
    <2> QED BY <2>2, <2>3
  <1>5. CASE Finished \/ UNCHANGED vars
    BY <1>5 DEF Finished, vars, ChainInv, CredentialsStayHome, BodyWithItsMethod
  <1> QED BY <1>2, <1>3, <1>4, <1>5 DEF Next

\* The inductive invariant of send_to.
THEOREM ChainInvariance == Spec => []ChainInv
  BY ChainInit, ChainNext, PTL DEF Spec

\* The caller's Authorization, userinfo and Cookie header never leave the
\* caller's scheme, host and port, however long the chain of redirects is.
THEOREM CredentialsSafe == Spec => []CredentialsStayHome
  <1>1. ChainInv => CredentialsStayHome
    BY DEF ChainInv
  <1> QED BY <1>1, ChainInvariance, PTL

\* A body never travels with a method that the caller did not choose.
THEOREM BodySafe == Spec => []BodyWithItsMethod
  <1>1. ChainInv => BodyWithItsMethod
    BY DEF ChainInv
  <1> QED BY <1>1, ChainInvariance, PTL

\* send_to sends at most max_redirs + 1 requests.
THEOREM ChainFinite == Spec => []SendsBounded
  <1>1. ChainInv => SendsBounded
    BY RedirectAssumption DEF ChainInv, SendsBounded
  <1> QED BY <1>1, ChainInvariance, PTL

-----------------------------------------------------------------------------
(* Invocations that share a jar.                                           *)

\* A cookie is its setter's own, or of a domain, not a top-level one, that the setter is in.
InScope(c) ==
    /\ c.hostOnly => c.domain = c.by
    /\ ~c.hostOnly => c.domain \in Hosts \ BareLabels /\ DomainMatch(c.by, c.domain, FALSE)

\* One value per name, domain and path, but for lines of a file that came with two.
Unique(cookies) ==
    \A c, d \in cookies :
        c.name = d.name /\ c.domain = d.domain /\ c.path = d.path => c = d \/ (c.line # 0 /\ d.line # 0)

\* The jar and what can be loaded of the file are in scope and unique.
CookieInv ==
    /\ \A c \in jar : InScope(c)
    /\ Unique(jar)
    /\ \A c \in LoadedCookies(file.lines) : InScope(c)
    /\ Unique(file.lines)
    /\ CookiesStayHome

\* A cookie that a request carries is in scope there.
LEMMA CarriedInScope ==
    ASSUME NEW c, InScope(c), NEW host, NEW path, NEW tls, NEW now, MatchesRequest(c, host, path, tls, now)
    PROVE  host = c.by \/ (~c.hostOnly /\ Family(host) \cap Family(c.by) # {})
  <1>1. CASE c.hostOnly
    BY <1>1 DEF InScope, MatchesRequest, DomainMatch
  <1>2. CASE ~c.hostOnly
    <2>1. DomainMatch(host, c.domain, FALSE)
      BY <1>2 DEF MatchesRequest, DomainMatch
    <2>2. c.domain \in Family(host) /\ c.domain \in Family(c.by)
      BY <1>2, <2>1 DEF InScope, Family
    <2> QED BY <1>2, <2>2
  <1> QED BY <1>1, <1>2

\* A Set-Cookie line yields at most one cookie, in scope.
LEMMA ParsedInScope ==
    ASSUME NEW host, NEW path, NEW now, NEW l \in Lines(now), NEW c \in ParseSetCookie(host, path, l)
    PROVE  InScope(c) /\ ParseSetCookie(host, path, l) = {c}
  <1>1. l.domain \in Hosts \cup {NoDomain}
    BY RedirectAssumption DEF Lines
  <1>2. CASE DomainIgnored(host, l)
    <2>1. c.hostOnly = TRUE /\ c.domain = host /\ c.by = host
      BY <1>2 DEF ParseSetCookie
    <2>2. ParseSetCookie(host, path, l) = {c}
      BY <1>2 DEF ParseSetCookie
    <2> QED BY <2>1, <2>2 DEF InScope
  <1>3. CASE ~DomainIgnored(host, l)
    <2>1. DomainAllowed(host, l.domain) /\ c.domain = l.domain /\ c.hostOnly = FALSE /\ c.by = host
      BY <1>3 DEF ParseSetCookie
    <2>2. InScope(c)
      BY <1>1, <1>3, <2>1 DEF InScope, DomainAllowed, DomainIgnored
    <2>3. ParseSetCookie(host, path, l) = {c}
      BY <1>3, <2>1 DEF ParseSetCookie
    <2> QED BY <2>2, <2>3
  <1> QED BY <1>2, <1>3

\* Storing a line keeps the jar in scope and unique.
LEMMA StoredWell ==
    ASSUME \A c \in jar : InScope(c), Unique(jar), NEW host, NEW path, NEW now, NEW l \in Lines(now)
    PROVE  /\ \A c \in AddSetCookie(jar, host, path, l, now) : InScope(c)
           /\ Unique(AddSetCookie(jar, host, path, l, now))
  <1> DEFINE P == ParseSetCookie(host, path, l)
  <1> DEFINE J == AddSetCookie(jar, host, path, l, now)
  <1>1. \A c \in J : (c \in jar /\ \A p \in P : c \in RemoveMatching(jar, p)) \/ c \in P
    BY DEF AddSetCookie
  <1>2. \A p \in P : InScope(p) /\ P = {p}
    BY ParsedInScope
  <1>3. \A c \in jar, p \in P : c \in RemoveMatching(jar, p) =>
            ~(c.name = p.name /\ c.domain = p.domain /\ c.path = p.path)
    BY DEF RemoveMatching
  <1> HIDE DEF P, J
  <1>4. \A c \in J : InScope(c)
    BY <1>1, <1>2
  <1>5. Unique(J)
    <2> SUFFICES ASSUME NEW c \in J, NEW d \in J, c.name = d.name, c.domain = d.domain, c.path = d.path
                 PROVE  c = d \/ (c.line # 0 /\ d.line # 0)
      BY DEF Unique
    <2>1. CASE c \in P
      BY <2>1, <1>1, <1>2, <1>3
    <2>2. CASE d \in P
      BY <2>2, <1>1, <1>2, <1>3
    <2>3. CASE c \in jar /\ d \in jar
      BY <2>3 DEF Unique
    <2> QED BY <1>1, <2>1, <2>2, <2>3
  <1> QED BY <1>4, <1>5 DEF J

\* The pairs of -b are their host's own cookies, one per name.
LEMMA ExplicitWell ==
    ASSUME \A c \in jar : InScope(c), Unique(jar), NEW host, NEW names
    PROVE  /\ \A c \in AddExplicit(jar, host, names) : InScope(c)
           /\ Unique(AddExplicit(jar, host, names))
  <1> DEFINE E == {Explicit(host, n) : n \in names}
  <1> DEFINE J == AddExplicit(jar, host, names)
  <1>1. \A c \in J : (c \in jar /\ \A n \in names : c \in RemoveMatching(jar, Explicit(host, n))) \/ c \in E
    BY DEF AddExplicit
  <1>2. ASSUME NEW c \in E PROVE InScope(c)
    <2>1. PICK n \in names : c = Explicit(host, n)
      OBVIOUS
    <2> QED BY <2>1 DEF Explicit, InScope
  <1>3. ASSUME NEW c \in E, NEW d \in E, c.name = d.name PROVE c = d
    <2>1. PICK n \in names : c = Explicit(host, n)
      OBVIOUS
    <2>2. PICK k \in names : d = Explicit(host, k)
      OBVIOUS
    <2>3. n = k
      BY <1>3, <2>1, <2>2 DEF Explicit
    <2> QED BY <2>1, <2>2, <2>3
  <1>4. ASSUME NEW c \in jar, \A n \in names : c \in RemoveMatching(jar, Explicit(host, n)), NEW d \in E
        PROVE  ~(c.name = d.name /\ c.domain = d.domain /\ c.path = d.path)
    <2>1. PICK n \in names : d = Explicit(host, n)
      OBVIOUS
    <2> QED BY <1>4, <2>1 DEF RemoveMatching
  <1> HIDE DEF E, J
  <1>5. \A c \in J : InScope(c)
    BY <1>1, <1>2
  <1>6. Unique(J)
    <2> SUFFICES ASSUME NEW c \in J, NEW d \in J, c.name = d.name, c.domain = d.domain, c.path = d.path
                 PROVE  c = d \/ (c.line # 0 /\ d.line # 0)
      BY DEF Unique
    <2>1. CASE c \in E /\ d \in E
      BY <2>1, <1>3
    <2>2. CASE c \in E /\ d \notin E
      BY <2>2, <1>1, <1>4
    <2>3. CASE c \notin E /\ d \in E
      BY <2>3, <1>1, <1>4
    <2>4. CASE c \in jar /\ d \in jar
      BY <2>4 DEF Unique
    <2> QED BY <1>1, <2>1, <2>2, <2>3, <2>4
  <1> QED BY <1>5, <1>6 DEF J

\* Whoever wrote the first file, what load_netscape takes of it is in scope.
LEMMA InitCookie == InitShell => CookieInv
  <1> SUFFICES ASSUME InitShell PROVE CookieInv
    OBVIOUS
  <1>1. PICK lines \in Files : file = [lines |-> lines, torn |-> FALSE]
    BY DEF InitShell
  <1>2. \A c \in lines : c.by = c.domain /\ c.domain \in Hosts /\ c.hostOnly \in BOOLEAN /\ c.line # 0
    BY FilesAssumption
  <1>3. \A c \in LoadedCookies(file.lines) : InScope(c)
    BY <1>1, <1>2 DEF LoadedCookies, Broadcasts, InScope, DomainMatch
  <1>4. Unique(file.lines)
    BY <1>1, <1>2 DEF Unique
  <1>5. jar = {} /\ state = "exited"
    BY DEF InitShell
  <1>6. Unique(jar) /\ \A c \in jar : InScope(c)
    BY <1>5 DEF Unique
  <1>7. CookiesStayHome
    BY <1>5 DEF CookiesStayHome
  <1> QED BY <1>3, <1>4, <1>6, <1>7 DEF CookieInv

\* A new jar is empty or what the file holds.
LEMMA MainKeeps == CookieInv /\ Main => CookieInv'
  <1> SUFFICES ASSUME CookieInv, Main PROVE CookieInv'
    OBVIOUS
  <1>1. UNCHANGED file /\ state' \in {"exited", "next"}
    BY DEF Main
  <1>2. jar' = jar \/ jar' = {} \/ jar' = LoadedCookies(file.lines)
    BY DEF Main
  <1>3. LoadedCookies(file.lines) \subseteq file.lines
    BY DEF LoadedCookies
  <1>4. (\A c \in jar' : InScope(c)) /\ Unique(jar')
    BY <1>2, <1>3 DEF CookieInv, Unique
  <1>5. CookiesStayHome'
    BY <1>1 DEF CookiesStayHome
  <1> QED BY <1>1, <1>4, <1>5 DEF CookieInv, InScope

\* A URL may add the pairs of -b.
LEMMA UrlKeeps == CookieInv /\ ProcessUrl => CookieInv'
  <1> SUFFICES ASSUME CookieInv, ProcessUrl PROVE CookieInv'
    OBVIOUS
  <1>1. UNCHANGED file /\ state' = "hop"
    BY DEF ProcessUrl
  <1>2. PICK host, names : jar' = jar \/ jar' = AddExplicit(jar, host, names)
    BY DEF ProcessUrl
  <1>3. (\A c \in jar' : InScope(c)) /\ Unique(jar')
    BY <1>2, ExplicitWell DEF CookieInv
  <1>4. CookiesStayHome'
    BY <1>1 DEF CookiesStayHome
  <1> QED BY <1>1, <1>3, <1>4 DEF CookieInv

\* The request of a hop carries cookies that are in scope where it goes.
LEMMA HopKeeps == CookieInv /\ Hop /\ UNCHANGED shell => CookieInv'
  <1> SUFFICES ASSUME CookieInv, Hop, UNCHANGED shell PROVE CookieInv'
    OBVIOUS
  <1>1. jar' \subseteq jar /\ UNCHANGED file
    BY DEF Hop, PurgeExpired, shell
  <1>2. (\A c \in jar' : InScope(c)) /\ Unique(jar')
    BY <1>1 DEF CookieInv, Unique
  <1>3. CASE clock >= MaxTime
    <2>1. state' = "timeout"
      BY <1>3 DEF Hop
    <2> QED BY <1>1, <1>2, <2>1 DEF CookieInv, CookiesStayHome
  <1>4. CASE ~(clock >= MaxTime)
    <2>1. clock' = clock /\ sent'.to = url.origin /\ sent'.path = url.path
      BY <1>4 DEF Hop
    <2>2. sent'.jar = IF useJar THEN CookieHeader(jar', url.origin.host, url.path, Tls, clock) ELSE {}
      BY <1>4 DEF Hop
    <2>3. ASSUME NEW c \in sent'.jar
          PROVE  /\ url.origin.host = c.by \/ (~c.hostOnly /\ Family(url.origin.host) \cap Family(c.by) # {})
                 /\ IsPrefix(c.path, url.path.segs)
                 /\ c.secure => url.origin.scheme = "https"
                 /\ ~Expired(c, clock)
      <3>1. c \in jar' /\ MatchesRequest(c, url.origin.host, url.path, Tls, clock)
        BY <2>2, <2>3 DEF CookieHeader
      <3>2. url.origin.host = c.by \/ (~c.hostOnly /\ Family(url.origin.host) \cap Family(c.by) # {})
        BY <3>1, <1>2, CarriedInScope
      <3>3. IsPrefix(c.path, url.path.segs) /\ ~Expired(c, clock) /\ (c.secure => Tls)
        BY <3>1 DEF MatchesRequest, PathMatch
      <3> QED BY <3>2, <3>3 DEF Tls
    <2>4. CookiesStayHome'
      <3> SUFFICES ASSUME NEW c \in sent'.jar
                   PROVE  /\ sent'.to.host = c.by \/ (~c.hostOnly /\ Family(sent'.to.host) \cap Family(c.by) # {})
                          /\ IsPrefix(c.path, sent'.path.segs)
                          /\ c.secure => sent'.to.scheme = "https"
                          /\ ~Expired(c, clock')
        BY DEF CookiesStayHome
      <3> QED BY <2>1, <2>3
    <2> QED BY <1>1, <1>2, <2>4 DEF CookieInv
  <1> QED BY <1>3, <1>4

\* A response stores at most one line.
LEMMA ReplyKeeps == CookieInv /\ Reply /\ UNCHANGED shell => CookieInv'
  <1> SUFFICES ASSUME CookieInv, Reply, UNCHANGED shell PROVE CookieInv'
    OBVIOUS
  <1>1. PICK status, location, now, stored :
            /\ stored = jar \/ \E l \in Lines(now) : stored = AddSetCookie(jar, url.origin.host, url.path, l, now)
            /\ Respond(status, location, stored, now)
    BY DEF Reply
  <1>2. state' # "wait"
    BY <1>1 DEF Respond
  <1>3. UNCHANGED file
    BY DEF shell
  <1>5. jar' = jar \/ \E l \in Lines(now) : jar' = AddSetCookie(jar, url.origin.host, url.path, l, now)
    BY <1>1 DEF Respond
  <1>6. (\A c \in jar' : InScope(c)) /\ Unique(jar')
    BY <1>5, StoredWell DEF CookieInv
  <1>7. CookiesStayHome'
    BY <1>2 DEF CookiesStayHome
  <1> QED BY <1>3, <1>6, <1>7 DEF CookieInv

\* What is saved, all of it or a part, came from the jar.
LEMMA ExitKeeps == CookieInv /\ Exit => CookieInv'
  <1> SUFFICES ASSUME CookieInv, Exit PROVE CookieInv'
    OBVIOUS
  <1>1. jar' = {} /\ state' = "exited"
    BY DEF Exit
  <1>2. file' = file \/ file'.lines \subseteq SavedCookies(jar)
    BY DEF Exit
  <1>3. SavedCookies(jar) \subseteq jar
    BY DEF SavedCookies
  <1>4. /\ \A c \in LoadedCookies(file'.lines) : InScope(c)
        /\ Unique(file'.lines)
    <2>1. CASE file' = file
      BY <2>1 DEF CookieInv
    <2>2. CASE file'.lines \subseteq jar
      BY <2>2 DEF CookieInv, LoadedCookies, Unique
    <2> QED BY <1>2, <1>3, <2>1, <2>2
  <1>5. Unique(jar') /\ CookiesStayHome'
    BY <1>1 DEF Unique, CookiesStayHome
  <1> QED BY <1>1, <1>4, <1>5 DEF CookieInv

\* Every step of every sequence of invocations.
LEMMA CookieStep == CookieInv /\ [NextShell]_<<vars, shell>> => CookieInv'
  <1> SUFFICES ASSUME CookieInv, [NextShell]_<<vars, shell>> PROVE CookieInv'
    OBVIOUS
  <1>1. CASE Main
    BY <1>1, MainKeeps
  <1>2. CASE ProcessUrl
    BY <1>2, UrlKeeps
  <1>3. CASE Hop /\ UNCHANGED shell
    BY <1>3, HopKeeps
  <1>4. CASE SendFails /\ UNCHANGED shell
    <2>1. UNCHANGED <<jar, file>> /\ state' = "error"
      BY <1>4 DEF SendFails, shell
    <2> QED BY <2>1 DEF CookieInv, CookiesStayHome
  <1>5. CASE Reply /\ UNCHANGED shell
    BY <1>5, ReplyKeeps
  <1>6. CASE Exit
    BY <1>6, ExitKeeps
  <1>7. CASE UNCHANGED <<vars, shell>>
    <2>1. UNCHANGED <<jar, file, sent, state, clock>>
      BY <1>7 DEF vars, shell
    <2> QED BY <2>1 DEF CookieInv, CookiesStayHome
  <1> QED BY <1>1, <1>2, <1>3, <1>4, <1>5, <1>6, <1>7 DEF NextShell, Chain, Done

\* However many invocations share a cookies.txt, whatever the responses, redirects,
\* -b pairs and failed saves are (main, send_to, cookie.rs): a request only carries
\* cookies of its host's own domains, for its path, Secure ones over TLS, none expired.
THEOREM CookiesSafe == SpecShell => []CookiesStayHome
  <1>1. CookieInv => CookiesStayHome
    BY DEF CookieInv
  <1> QED BY InitCookie, CookieStep, <1>1, PTL DEF SpecShell

\* add_set_cookie and add_explicit replace: the jar never has two values for one name,
\* domain and path of which one was set by a response or -b, also when it was filled
\* from a file, whatever the file held at first.
THEOREM CookiesUnique == SpecShell => []OneValuePerCookie
  <1>1. CookieInv => OneValuePerCookie
    BY DEF CookieInv, Unique, OneValuePerCookie
  <1> QED BY InitCookie, CookieStep, <1>1, PTL DEF SpecShell
=============================================================================
