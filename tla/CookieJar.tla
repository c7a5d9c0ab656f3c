------------------------------ MODULE CookieJar ------------------------------
(***************************************************************************)
(* The cookie jar of src/cookie.rs: what a Set-Cookie line, a -b pair or a  *)
(* line of cookies.txt stores, which cookies a request carries, and which   *)
(* are saved.  Names and values have no forbidden characters.              *)
(***************************************************************************)
EXTENDS Naturals, SequencesExt

CONSTANTS
    Hosts,       \* host names, a domain is one too
    Below,       \* <<h, d>>: h is a subdomain of d (h ends with "." followed by d)
    BareLabels,  \* hosts without a dot, as "com" or "localhost"
    IpHosts,     \* hosts that are IP literals
    Names,       \* cookie names
    Session      \* expires = None

ASSUME JarAssumption ==
    /\ Below \subseteq Hosts \X Hosts /\ \A p \in Below : p[1] # p[2]
    /\ BareLabels \subseteq Hosts /\ IpHosts \subseteq Hosts

\* A Set-Cookie line without a Domain, or Path, attribute.
NoDomain == "no-domain"
NoPath == <<"no-path">>
ASSUME NoDomainAssumption == NoDomain \notin Hosts /\ Session \notin Nat

\* The path of a URL is [segs, query]: the segments between the slashes (the last is ""
\* behind a final slash) and whether a query (without a slash) follows.  The path of a
\* cookie is its segments: <<>> is "/".  A cookie is [name, domain, hostOnly, secure,
\* expires, path, by, line]: `by` is the host whose response or command line set it, `line`
\* its line in a cookies.txt that somebody else wrote (0 when a response or -b set it).

Expired(c, now) == c.expires # Session /\ c.expires <= now

DomainMatch(host, domain, hostOnly) ==
    host = domain \/ (~hostOnly /\ <<host, domain>> \in Below)

\* Url::path has the query: "/a?q" is neither "/a" nor below it.
PathMatch(request, path) == IsPrefix(path, request.segs) /\ (request.query => path # request.segs)

\* The directory of the request.
DefaultPath(request) == Front(request.segs)

\* parse_set_cookie refuses a domain that is a bare label or not the host's own.
DomainAllowed(host, domain) == domain \notin BareLabels /\ DomainMatch(host, domain, FALSE)

DomainIgnored(host, line) == line.domain = NoDomain \/ host \in IpHosts

\* The cookies that a Set-Cookie line yields: none, or one.  A line is
\* [name, domain, secure, expires, path]; on an IP literal Domain is ignored.
ParseSetCookie(host, path, line) ==
    LET cookie(d, h) == [name |-> line.name, domain |-> d, hostOnly |-> h, secure |-> line.secure,
                         expires |-> line.expires, by |-> host, line |-> 0,
                         path |-> IF line.path = NoPath THEN DefaultPath(path) ELSE line.path]
    IN  IF DomainIgnored(host, line) THEN {cookie(host, TRUE)}
        ELSE IF DomainAllowed(host, line.domain) THEN {cookie(line.domain, FALSE)}
        ELSE {}

\* Mutant: the new cookie is added to the old ones.
MutRemoveMatching(jar, c) == jar

RemoveMatching(jar, c) == {x \in jar : x.name # c.name \/ x.domain # c.domain \/ x.path # c.path}

\* add_set_cookie: replace, or delete when the cookie is expired already.
AddSetCookie(jar, host, path, line, now) ==
    LET parsed == ParseSetCookie(host, path, line)
    IN  {x \in jar : \A c \in parsed : x \in RemoveMatching(jar, c)}
        \cup {c \in parsed : ~Expired(c, now)}

\* add_explicit, for every pair: a session cookie of the URL's host, for all paths.
Explicit(host, name) ==
    [name |-> name, domain |-> host, hostOnly |-> TRUE, secure |-> FALSE,
     expires |-> Session, path |-> <<>>, by |-> host, line |-> 0]
AddExplicit(jar, host, names) ==
    {x \in jar : \A n \in names : x \in RemoveMatching(jar, Explicit(host, n))}
    \cup {Explicit(host, n) : n \in names}

PurgeExpired(jar, now) == {c \in jar : ~Expired(c, now)}

MatchesRequest(c, host, path, tls, now) ==
    /\ ~Expired(c, now) /\ (c.secure => tls)
    /\ DomainMatch(host, c.domain, c.hostOnly) /\ PathMatch(path, c.path)

CookieHeader(jar, host, path, tls, now) == {c \in jar : MatchesRequest(c, host, path, tls, now)}

\* save_netscape: everything but session cookies, what has expired meanwhile included.
SavedCookies(jar) == {c \in jar : c.expires # Session}

\* parse_netscape_line refuses a line that would broadcast to a bare label.
Broadcasts(c) == ~c.hostOnly /\ c.domain \in BareLabels

\* Mutant: a line for a whole top-level domain is taken.
MutLoadedCookies(lines) == lines

\* load_netscape pushes every other line, two of one name, domain and path as well.
LoadedCookies(lines) == {c \in lines : ~Broadcasts(c)}
=============================================================================
