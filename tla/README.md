# rsurl: a TLA+ model

This directory is a verification development of **rsurl**, a curl written in Rust
(`src/src/*.rs`): TLA+ modules that model the parts of it that keep protocol
state, TLC configurations that check them on small instances, and TLAPS proofs
of the properties that matter most. Line numbers below are those of `src/src/`.

    tlc -workers 2 -config H2Batch.cfg MCH2Multiplex     one run (PROJECT.json lists them)
    tlapm CommandLineProofs.tla                          one module of proofs

## 1. The system

A call enters through the command line (`bin/rsurl.rs`), the C interface
(`ffi.rs`) or the Rust API, and `transfer.rs` picks a client by the scheme of the
URL. Every client runs synchronously on its caller's thread: there is no event
loop and no background thread. What threads share is two process-wide pools of
idle HTTP/1.1 connections (`pool.rs`), one of HTTP/2 connections (`http2.rs`) and,
in the C interface, whatever the application shares. Everything else that can
interleave is on the wire: frames of several streams, datagrams, redirects and
cookies of a chain, connections that servers close when they like.

| Component (source) | State it keeps | Operations | What is hard | What makes it correct |
|---|---|---|---|---|
| HTTP/2 connection and multiplexing driver (`http2.rs`) | streams, both kinds of windows, the peer's settings, GOAWAY, the open header block; queue, id map and result slots of a batch | `run_multiplexed`, `start_queued`, `pump_pending_sends`, `read_and_dispatch`, one handler per frame | frames of all streams in any order; settings, resets and GOAWAY in mid-flight; windows below zero; errors of one stream or of all | every request gets exactly one answer, its own and whole; both ends agree on credit; the driver never waits for something that cannot come |
| HTTP/2 pool and version routing (`http.rs`, `http2.rs`) | parked connections by origin; how far a request got | `send_https`, `send`, `send_multiplexed`, `checkout`, `release` | fallbacks within fallbacks: HTTP/3 to 2 to 1.1, pooled to fresh, batch to single | a request goes out over versions it asked for, under its own TLS terms, a bounded number of times |
| HPACK (`http2.rs`) | dynamic tables of encoder and decoder | encode, decode, table size changes | two ends that must evict in step | every index means the same field at both ends |
| HTTP/1.1 exchange and pool (`http.rs`, `pool.rs`) | parked connections by scheme and authority; position in a response | `send_plain`, `send_https`, `checkout`, `release`, `read_response`, `response_is_reusable` | threads that share the pool; parked connections that died; when is a response over | a parked connection is quiet, was made on terms its next user accepts; each answer is the caller's own |
| HTTP/3 and QPACK (`http3.rs`) | QPACK table, response under construction | `write_request`, `read_response`, `drain_uni_streams` | streams that QUIC orders independently | sections decode to what was meant, and only an overtaken one is refused |
| Redirects, credentials, `--max-time` (`http.rs`, `url.rs`) | the request being rewritten, hops left, deadline | `Request::send_to` | what was dropped must not come back | credentials stay at the caller's origin, the body with its method, the chain is finite |
| Cookie jar (`cookie.rs`) and the command line's use of it (`bin/rsurl.rs`) | cookies by name, domain, path; cookies.txt | `add_set_cookie`, `add_explicit`, `cookie_header`, `purge_expired`, load and save | replacement, expiry, domains, what an earlier invocation left | cookies reach only hosts, paths and schemes they are for |
| TFTP (`tftp.rs`) | latched port, expected block, last packet, retries | `fetch`, `store` | loss, duplication, delay, reordering, several sessions, u16 block numbers | Ok means the whole file |
| FTP (`ftp.rs`) | control connection, data connection, reply codes | download, upload, append, resume | two connections and replies of five classes | no deadlock between the two, the whole file |
| IMAP, POP3, LDAP, MQTT, RTSP, DICT, Gopher | buffered reader, tag, CSeq or message id | log in, then one transaction at a time | STARTTLS with buffered plaintext, unsolicited packets, a reader per response | an answer belongs to its command, Ok means all of it |
| WebSocket (`websocket.rs`) | message being reassembled, inflation | upgrade, `read_message`, close | control frames between fragments | messages whole |
| Content decoding (`compress.rs`), URL parsing (`url.rs`) | none (algorithms) | `decode_body`, `parse`, `resolve` | a size budget, a grammar | budget holds, round trips |
| TLS, SSH glue (`tls/`, `ssh.rs`) | held by rustls, purecrypto, puressh | connect, read, write | outside this code | as configured |
| C interface, `file://` | a handle; nothing | one call at a time | nothing concurrent | plain |

The components meet in few places: `main` calls `Request::send_to` with one jar for
all its URLs; `send_to` calls `send_once`, which is `send_plain`, `send_https` or a
client of another protocol; `send_https` calls `http3::send` and `http2::send`, falls
back to its own HTTP/1.1 part, and both pools outlive the call. The model is cut at
those calls: an exchange is one step of the caller's module and the subject of the
callee's.

`PROJECT.json` lists every component with its status, and under `hazards` the
lines where this code could go wrong in a way a test would hardly reach.

## 2. The modules

    H2Connection <- H2Multiplex <- MCH2Multiplex, H2MultiplexProofs
    SendHttps <- MCSendHttps, SendHttpsProofs
    Hpack, Http3 <- HeaderCoding <- MCHeaderCoding, HeaderCodingProofs
    Http1 <- MCHttp1, Http1Proofs
    CookieJar <- Redirect <- CommandLine <- MCRedirect, CommandLineProofs
    Tftp <- TftpFetch (implements FileTransfer) <- TftpFetchProofs, MCTftp
         <- TftpStore (implements FileTransfer) <- TftpStoreProofs, MCTftp
    Dialogue <- Ftp, Pop3, Dict, Rtsp, Mqtt, Ldap, Imap, WebSocket, Gopher
        <- Clients <- MCClients, ClientsProofs

**H2Connection** is the `Connection` value and its handlers as operators: each
takes a connection and a frame and yields the connection afterwards, whether the
handler returned `Continue`, `Done` or `Err`, and the WINDOW_UPDATEs it wrote.
A stream is `{state, send, recv, basis, response headers, body, pending body}`;
bytes are counted, header blocks are one of four kinds (final, informational,
without `:status`, undecodable).

**H2Multiplex** is `run_multiplexed` by the program counter of its one thread: inside
`start_queued` (`Start`, `StartStop`), inside `pump_pending_sends` (`PumpChunk`, `PumpDone`,
`PumpFails`), at the head of the loop (`Top`), blocked in `read_and_dispatch` (`ReadFrame`,
`ReadFails`). It also keeps `peer`, the ledger of the other end: what was granted and sent
on each stream, never read by the client. With `Strict` the peer sends only what RFC 9113
lets it send by that ledger, bodies above `MaxResponseBytes` among it; otherwise it sends
any frame, malformed ones included. The frame is chosen when it is read; a slower peer's
choices are among those, because the client does not write while it waits. Partial transport
reads and TLS are below the model.

**SendHttps** is what happens around such a connection: threads that make single
calls with every version preference, or batches of two, over one shared pool. A
call walks through `send_https`, `http2::send` or `send_multiplexed` by its program
counter: HTTP/3 first if asked for, a parked connection, a dial with ALPN, writing,
reading, releasing, and every fallback. `conn[c]` keeps what the server does with
a connection apart from what the client has been told of it. `tries` is the history of
every time a request was written, over which version, and how that peer was verified.

**Hpack** has the two codecs of `http2.rs`, each with a peer that follows RFC 7541 at
the other end of an ordered wire, and the table sizes that the peer changes
between blocks. **Http3** is one exchange with its QPACK table: encoder stream and
request stream arrive in any interleaving and in any pieces, the insert count wraps,
Base is the server's choice, and evicted entries are those that RFC 9204 lets it
evict. Integers and strings are values in both; where a datagram may end inside an
integer is the constant `SplitInts`. **HeaderCoding** is either connection.

**Http1** is any number of threads, each making one call of `send_plain` or the
HTTP/1.1 part of `send_https`: check out or dial, write, read the head, read the
body by its framing (behind the last chunk, trailer lines until an empty one), finalize
(park or drop), with `Stale` and `Hard` failures as
`stale_or_hard` (http.rs:563) makes them and the one retry. A connection is seen
from both ends, so a request that was written, an answer half sent and bytes that
nobody read are all visible. Servers answer in order, in every framing, may send
a 1xx first to the requests in `Interim`, and close at any time.

**CookieJar** is the jar as a set of cookies, with domains, host-only, Secure, expiry
and paths; a cookie also remembers `by`, the host that set it, which no operator
reads. **Redirect** is `send_to`: the deadline test, `purge_expired` and the `Cookie`
header, `send_once` (it answers or fails, within `MaxHopTime`), storing `Set-Cookie`,
`resolve`, and the rewriting of the request. Statuses are three classes: final, the
301-303 that rewrite a POST and the 307-308 that do not; the method `"GET"` stands for
GET and HEAD, which the rewriting treats alike; a redirect to a scheme that
`send_once` refuses is `SendFails`. Host names are model values with a subdomain
relation, a path is its segments and whether a query follows. A cookie of a `cookies.txt`
that somebody else wrote carries the number of its line, so that two lines of one name,
domain and path are two cookies, as they are for `load_netscape`. **CommandLine** puts
`main` around it: an invocation loads the jar from `-b` or `-c`, adds the pairs of
`-b` before every URL, calls `send_to`, and saves; the save may fail at any line; the
next invocation reads what is left.

**Tftp**, **TftpFetch**, **TftpStore** are `fetch` and `store` with the datagram
network and a server that opens a session, on a port of its own, for every request
that arrives. With `Persist` a datagram stays in the network when it is received:
that covers loss, delay, reordering and duplication together. Without it a
datagram is consumed and `Lose` removes up to `MaxLosses`. The file is its chunks
1..total, the last of which is short. Stray packets come from a host the client
did not ask. **FileTransfer** is what a transfer promises, and both implement it
(`FetchesFile`, `StoresFile`): the receiver holds a prefix of the file at every
moment, and Ok means all of it. For a download the receiver is `out`, for an
upload it is the session that the client latched on.

**Dialogue** is what the clients of the command protocols share: a connection, commands
one way and replies the other, `Ask`, `Take`, `Return`. Each protocol's module adds
its client, one disjunct per reply it waits for, and a server that follows the
protocol's specification but may refuse, answer late, say something nobody asked for,
or die. Every reply carries `re`, the number of the command it answers, which the
client never reads: `Take` compares it. **Clients** is a call of any one of them. What the
servers hold (files, mails, listings, definitions, entries, messages, capabilities) and
what the user asks for are its constants, sequences over `Text`, a set of which only a
few elements are special: the dot of dot-stuffing, and the slash, digit, question mark and
tab of a Gopher path. **MCClients** gives them values.

`PROJECT.json` maps each definition to the lines it stands for. Operators
called `Mut...` are mutated forms of the definition that follows them, each a
plausible bug in that code; replacing the definition by it makes TLC violate the
property it is listed with.

## 3. The runs

| Run | Checks | Instance |
|---|---|---|
| `h2_batch` | `DeliveredWhole`, `CompleteIsDelivered`, `ConformingPeerNeverFatal`, `GoawayBoundary`, `ResetIsIsolated` | two requests, one with a body longer than a frame; a conforming peer with 1xx, CONTINUATION, RST_STREAM, GOAWAY, padding, bodies above the cap, a stream limit of 0 or 1 |
| `h2_flow` | `WindowsAgree`, `PeerNeverStarved`, `SendsWithinCredit`, `StreamLimitHonoured`, `BatchReturns` | two uploads and downloads larger than the windows; SETTINGS that move the initial window between 0 and 3, the frame size and the limit; a fresh connection, and one with the least windows that earlier requests may leave |
| `h2_faults` | `TypeOK`, `EveryRequestAccounted`, `NoInternalError` | any frame in any order, malformed ones included; writes that fail; a transport that ends; the same two kinds of connection |
| `send_https` | `SentAsPreferred`, `VerifiedAsAsked`, `ParkedIdle` | two threads; every preference, TLS posture and kind of batch; one place in the pool, three stream ids per connection; servers of all versions that go away, refuse streams or close at any moment |
| `send_batch` | `BatchFallsBack`, violated | one batch, a server without HTTP/2 |
| `header_coding` | `HeadersAsSent`, `SectionsAsSent`, `RefusedOnlyOvertaken`, `ResponseWhole` | HPACK: blocks of up to two fields, a field larger than the table, sizes 0, 2 and 6 around a cap of 4; QPACK: a table of two entries, four inserts |
| `qpack_split` | `RefusedOnlyOvertaken`, violated | the same, and a datagram may end inside an integer |
| `http1` | `AnswersOwnRequest`, `ParkedQuiet`, `CarriedAsAsked`, `PoolWithinCaps`, `CallsReturn` | two threads, two hosts, eight kinds of request, ten kinds of answer, any number of trailer lines, 1xx before it where the connection is not shared, both caps at 1 |
| `http1_interim` | `ParkedQuiet`, violated | a server that sends a 1xx first |
| `redirect` | `CredentialsStayHome`, `BodyWithItsMethod`, `SendsBounded`, `CookiesStayHome`, `OneValuePerCookie` | without a jar: chains of two redirects over origins that differ in scheme, host or port, all kinds of caller. With a jar: two invocations that share a file, which at first has two lines of one cookie; any Set-Cookie line at every response; parent, child and address hosts, a bare label, a page in a directory and the directory with a query |
| `tftp` | `TypesOK`, `OneSessionFed`, `FetchesFile`, `StoresFile`, `TransferReturns`, `TransferSucceeds` | downloads and uploads of 1 to 6 chunks, block numbers up to 4, two retries, three sessions, a stranger, nothing assumed of the server; and the same with as many losses as retries and a server that answers |
| `clients` | `Whole`, `RepliesPaired`, `InSequence`, `CallReturns` | one call of each of the nine clients, every operation it has, payloads of up to three parts (`MCClients`), a data connection that holds two chunks |

Why the bounds are enough to be interesting:

* HTTP/2: two requests give one stream in flight and one queued behind a limit, or
  two in flight; ids 1, 3 and 5 are enough for both on a fresh and on a pooled
  connection, so running out of ids is left to the proofs; windows of 2 to 4
  with frames of 1 or 2 make every send stop and resume, and SETTINGS make a
  stream window negative. Header buffers of 2 fragments overflow.
* Version routing: three stream ids let a batch use up a connection that a single
  request used before; with one place in the pool, two releases race for it.
* Header coding: four inserts into two entries evict twice and take the insert count
  past 2 * MaxEntries, where it wraps. `MaxWire` and `MaxAhead` of 1 keep one block,
  SETTINGS frame, instruction or unacknowledged section under way at a time, besides
  those that were received but not yet processed. Deadlock is not checked: an exchange
  that is over stops.
* HTTP/1.1: with one place in the pool, two threads meet at it in every order; a
  connection to the second host finds room by key and none in total. A server sends the
  next trailer line when the last one was read, and none before the head was.
* Redirects: two hops leave an origin and come back, by host, by scheme and by port.
  Two invocations with a clock of two moments let a cookie expire within a chain,
  between response and save, and in the file.
* TFTP: block numbers end at 4 and files have up to 6 chunks, so the end of the
  u16 range is crossed; three sessions let one resent request and one duplicate
  open sessions besides the latched one. `tftp` is one run with four modes: `mode` only
  selects which of the specifications takes steps.
* Clients: one call is all a client object lives for. Uploads of two chunks and a
  server that may stop at each of them make the data connection fill and break.

### Fairness

* `H2Multiplex!FairSpec`: the driver is a single thread, so its own steps are
  weakly fair. A read blocks until the peer sends, so returning depends on the
  peer: when it can again and again end a response, finish a header block or grant
  credit, it eventually does (strong fairness: other frames may come in between).
  `BatchReturns` says that under this the driver itself never stops the batch, by
  not sending what it could or not starting what it may.
* `MCTftp!MCFairness`: weak fairness of `Receive` and `Timeout`, which the loop with its
  socket read timeout justifies; nothing about the server. (A stray datagram
  restarts the timeout in the code; fairness of `Timeout` says that strays do not come
  for ever.) Only the lossy modes add a server that answers.
* `Http1!FairSpec`: threads run, and a read that gets nothing ends after
  `read_timeout`, 60 s by default (http.rs:138, 971). Nothing about servers:
  `CallsReturn` says of each call that it returns or that its server sends it trailer lines
  for ever, in the formula and not as fairness, because the code has no bound on them.
* `Clients!FairSpec`: the client runs. DICT, RTSP, LDAP, WebSocket and Gopher set a
  read timeout and need nothing else; FTP, POP3, IMAP and MQTT set none, so for these
  `CallReturns` also assumes a server that goes on with what it was asked, which is what
  their users have to assume. It shows that neither waits for the other.
* The others have only safety properties; `SendsBounded` is the reason a chain ends.

### What the runs show about the code

All passing runs are exhaustive for their instance. The violated ones:

* **http1_interim** (code bug). `read_response` (http.rs:1503) returns the first head
  it reads. A 1xx is thus returned as the response, has no body, counts as reusable
  and its connection is parked while the final response is still to come: the next
  request on it reads that as its own. pool.rs:9-12 says there is nothing left to
  read on a parked connection.
* **send_batch** (divergence). When the shared connection does not negotiate h2,
  `send_multiplexed` (http2.rs:3369) calls `http2::send` for each request, which dials
  again and fails with `H2NotNegotiated`. The fallback to HTTP/1.1 is in
  `http::send_https` only, not in `send` as http2.rs:3284 says.
* **qpack_split** (code bug). An encoder instruction whose first integer is cut by the
  end of a datagram is an error (http3.rs:397), where http3.rs:366-368 says that it
  is left for the next one.

Further disagreements between the code and its comments came up on the way. They have
no run; the model follows the code, and where a run leaves a case out this is said.

* http2.rs:2519: headers completed by CONTINUATION after END_STREAM are dropped, the stream
  being Closed already, and the request never completes (comment at 1473). http2.rs:2471:
  trailers overwrite the response headers, and the response becomes one without
  `:status`. `h2_batch` leaves out both (features `"splitend"` and `"trailers"`):
  `CompleteIsDelivered` fails with them.
* http2.rs:2118: a response that ends before the request's body drops the stream without
  RST_STREAM, so the peer still counts it against the limit (1960). `h2_flow` has a
  patient peer, one that ends its response after the whole request;
  `StreamLimitHonoured` fails without it.
* http2.rs:1632: `is_usable` looks neither at an open header block ("structurally safe to
  hand out", 1620) nor at the stream limit (1669-1671).
* http2.rs:2605: a response body above MAX_RESPONSE_BYTES is one stream's error, and the
  comment at 1962-1963 has such an error fail that request only. `process_data` leaves
  the stream open, so `take_stream_error` finds no culprit and the whole batch fails.
  `ConformingPeerNeverFatal` says that the peer of the run has no other way to do that.
* http2.rs:2152: RST_STREAM is the only error found to be one stream's; others fail the batch
  (1963). http2.rs:2336: `drive_until_stream_done` ignores a GOAWAY that excludes its
  stream and waits for the read timeout. http2.rs:1252: of two table size changes between
  blocks only the last is signalled, which a decoder may refuse; `Hpack` models a
  decoder that does not.
* http2.rs:3336: a pooled connection that fails under a batch fails its requests; the comment
  at 3320 says that the batch is run again on a fresh one.
* http.rs:1580-1586: the loop behind the last chunk reads lines until an empty one, however
  many there are: a server that goes on sending trailers holds a call for ever, past every
  read timeout. `CallsReturn` excepts it.
* http.rs:566: any unexpected EOF is stale, in the middle of a body too (561). http.rs:351: the
  deadline is tested between hops only (66).
* http.rs:754: an HTTP/3 read error falls back to TCP even when part of the response has
  arrived; the comment at 752 says "before any response bytes arrived".
* http3.rs:2059: an interim HEADERS frame makes the final one a trailer. http3.rs:1945: a closed
  connection ends the exchange although the response may be complete in the buffer.
* cookie.rs:166: `load_netscape` pushes every line without the replacement that
  `add_set_cookie` and `add_explicit` do, so a file with two lines of one name, domain and path
  gives two values, and both are sent. `OneValuePerCookie` excepts such pairs, until a
  response or `-b` sets that cookie.
* cookie.rs:284: the suffix match applies to any request host, an address too (602).
  cookie.rs:439: callers do not strip the query from the path. cookie.rs:117: expired
  cookies are not purged before saving. `-b name=value -c file` overwrites the file with
  a jar that did not read it (bin/rsurl.rs:290).
* tftp.rs:411: uploads between 32 and 256 MiB are accepted and abort half way; at 310 the cap
  "stays well within a single wrap".
* imap.rs:237: a message sent as a quoted string, as RFC 3501 allows, comes out empty, as if
  there were none (234-236). websocket.rs:624: a CLOSE in the middle of a message returns Ok
  with nothing, where 616-619 say with whatever was collected. Both servers are in `clients`,
  and `Whole` excepts them: otherwise a call never returns Ok with less than it was asked for.
  ldap.rs: a search that the server cuts at its size limit is an error
  and discards the entries it got.

## 4. The proofs

TLAPS proves the following for every value of the constants that the named assumptions allow
(`WindowAssumption`, `SizeAssumption`, `BatchAssumption`, `PeerAssumption`;
`TftpAssumption`, `SocketAssumption`, and `PeerAssumption` of Tftp; `RedirectAssumption`,
`FilesAssumption`; `SendHttpsAssumption`; `Http1Assumption`; `HpackAssumption`,
`Http3Assumption`; `ClientsAssumption`). TLC evaluates the assumptions in the runs.

* **H2MultiplexProofs**: `TypeCorrect` (`TypeOK`), `RequestsAccounted`
  (`EveryRequestAccounted`) and `NeverInternalError` (`NoInternalError`), for every
  batch, window, cap and peer, hostile or not. The inductive invariant `DriverInv`
  adds `IdsIssued` (ids are odd and below the next one, so a new stream never
  replaces a live one) and `Positions`, which relates the program counter to the
  queue. It is needed because one exit of the loop, "nothing queued, nothing in
  flight, a slot still empty" (http2.rs:2057 and following), fails no request: the proof is that
  it is never taken, since an empty id map with requests queued is reached only
  when no stream may be opened, and then the queue has been failed. There is a
  lemma `...Handled` per frame handler and one `...Inv` per action.
* **H2MultiplexProofs**, agreement: all that the `h2_batch` and `h2_flow` runs check of
  `run_multiplexed` but its termination, for a peer that keeps to RFC 9113 (`Strict`) and
  ends no stream with a split header block (no `"splitend"`; together `Orderly`):
  `WindowsAlwaysAgree` (`WindowsAgree`), `NeverStarved` (`PeerNeverStarved`),
  `AlwaysDeliveredWhole` (`DeliveredWhole`), `GoawayBoundaryKept` (`GoawayBoundary`),
  `AlwaysSendsWithinCredit` (`SendsWithinCredit`) and `ResetAlwaysIsolated`
  (`ResetIsIsolated`) with failing writes, end of file and trailers allowed;
  `AlwaysDelivered` (`CompleteIsDelivered`, of responses of at most `MaxResponseBytes`)
  without trailers and failing writes; `NeverFatal` (`ConformingPeerNeverFatal`: fatal only
  after a body above `MaxResponseBytes`) without failing writes and end of file;
  `LimitAlwaysHonoured` (`StreamLimitHonoured`) with a patient peer. `AlwaysDelivered` and
  `NeverFatal` also assume that a header block may be buffered at all (`MaxHeadersBuf > 1`;
  MAX_HEADERS_BUF is 256 KiB). `"splitend"` and `"trailers"` are left out because of what
  the code does with them, see section 3. The invariant, `Agree`, relates the two ends
  stream by stream: a registered stream is `InStep` (state, windows, headers, body and open
  header block are what the ledger says), what is no longer registered is something the peer
  sends no more on (`LetGo`), and a header block is open at both ends or at neither.
  `InStep` is why an error can be pinned on one stream: none is Closed until RST_STREAM
  closes it, so `take_stream_error` finds that one. What a GOAWAY, a reset or the end leave
  behind is in `Remembered`, which keeps the requests that were answered or abandoned. A
  frame that is not served so is `Refused` and blames no stream: a write failed, the header
  buffer holds one fragment, or the body is oversized. There is a lemma `...Served` per kind
  of frame and one `...Agrees` per action.
* **TftpFetchProofs**: `FetchInvariance`, `FetchTypeCorrect` (`TypeOK`) and
  `FetchImplementsTransfer` (`FetchesFile`). `FetchInv` says that nothing in flight
  and no session is more than one chunk ahead of the client, and that block numbers
  agree with chunks; block 0 after u16::MAX is then never the expected one.
  Without it, an old duplicate could carry the expected number with another chunk.
  `OthersNeverFed` (`OneSessionFed`) adds `FedInv`: every ACK in flight goes to the latched
  session, and before the latch nothing was taken.
* **TftpStoreProofs**: `StoreInvariance`, `StoreTypeCorrect` (`TypeOK`) and
  `StoreImplementsTransfer` (`StoresFile`). `StoreInv` says that a chunk goes to the latched
  session only, under its own number, and that a session acknowledges what it wrote. It
  is needed at the latch, where what counts as received changes from nothing to what
  that session has, and at the end, where the final ACK has to mean the whole file.
* **CommandLineProofs**, redirects: `CredentialsSafe` (`CredentialsStayHome`), `BodySafe`
  (`BodyWithItsMethod`), `ChainFinite` (`SendsBounded`). `ChainInv` relates the
  request under construction, not only the one sent, to the caller's origin and
  method, and counts sends against hops left.
* **CommandLineProofs**, cookies: `CookiesSafe` (`CookiesStayHome`) and `CookiesUnique`
  (`OneValuePerCookie`), for `SpecShell`: any number of hosts, origins and paths, any
  Set-Cookie line, any sequence of invocations, saves that fail included. `CookieInv`
  says of every cookie in the jar, and of what `load_netscape` takes of the file, that
  it is `InScope`: the setter's own, or of a domain that the setter is in and that is no
  bare label. The file has to be part of it because its lines come back as cookies. What
  a request carries is then in scope there because `domain_match` leads to the same
  domain. `FilesAssumption` says of a file that somebody else wrote that its lines are
  numbered and that each belongs to the domain it names; nothing of what they are or
  whether two agree, which is why `CookiesUnique` has the exception of section 3.
* **SendHttpsProofs**: `TermsRespected` (`VerifiedAsAsked`), for any number of threads and
  any mixture of requests. `TermsInv` says that the connection a call holds was made on its
  terms, by itself unless these are the default ones, and that what is parked was made on
  the default terms. The second part is needed for a place that is dialled again: whoever
  else still holds a connection of that place has the same terms.
  `PoolSafe` (`ParkedIdle`) is on top of that invariant. `PoolInv`
  adds who may touch a connection: one that is held is its holder's alone, is not parked, and
  carries at most the requests of that call that have no result yet (`Owned`); what is parked
  carries nothing and is usable (`Quiet`); and the place that a later dial will fill is
  nobody's (`Free`). `Owned` is what makes a release safe: when every request of the call has
  its answer, nothing is left on the connection, and no other call can put something there.
  `SentInOrder` (`SentAsPreferred`) is independent of both: `RouteInv` says that what was
  written for a request is h3 some times, then h2, then HTTP/1.1, and at which position of
  the call each of them may be the last (`Stage`, `Fits`).
* **HeaderCodingProofs**: `HeadersKept` (`HeadersAsSent`), for every static table, all table
  sizes and blocks of any length. A block is a recursive function over its fields
  (`Tables`, `Decoding`); that such a function exists and what it computes is proved by
  least counterexample from the well-foundedness of `<` (`Least`, `UpTo`), since the
  library's induction theorems cannot be instantiated. `HpackInv` says that there is a
  course of decoders along the wire, each of which decodes its block as it was meant,
  and that the last one `Follows` the encoder. The tables are then not equal, but
  the encoder's is a `Prefix` of the decoder's: of two SETTINGS between two blocks only
  the second is signalled, so the decoder may keep what the encoder has evicted. Indices
  count from the newest entry, so they agree, and an eviction keeps a prefix a prefix
  (`EvictPrefix`). `HpackAssumption` says that a field is its name, value and size, and
  that name and value determine it.
* **HeaderCodingProofs**, HTTP/3: `SectionsKept` (`SectionsAsSent`), `ResponsesWhole`
  (`ResponseWhole`) and `RefusalsOvertaken` (`RefusedOnlyOvertaken`), for every static table,
  capacity, sequence of inserts and Base. The last one assumes that no datagram ends within
  the integer that starts an instruction (`~SplitInts`); `qpack_split` is the
  counterexample otherwise. `H3Inv` says, while the exchange is under way, that along the
  encoder stream there is a course of client tables, each of which `Grows` into the server's
  (`TablesMeet`, `Leads`); that along the request stream there is a course of tallies, in
  which every section refers to entries that the server keeps because it is not
  acknowledged (`TalliesMeet`, `Refers`); and that the server takes for received only what
  was received (`KnownReceived`). The client's table is behind the server's by what is in
  flight, so absolute indices and not equality relate them. `Unwrapped` and `CountRead` are
  why the insert count is decoded as it was encoded: it is sent modulo twice the number of
  entries the capacity allows, and a section is never further than that from the client's
  count. `AllRead` follows the frames that one round of `read_response` consumes.
  `Http3Assumption` says that a field is its name, value and size, name and value
  determine it, and its size has at least the overhead of an entry.
* **Http1Proofs**: `CarriedSafe` (`CarriedAsAsked`). `CarriedInv` says that a connection in
  use was made as its call asks (`Held`), that a parked one was made as every request that
  may take it asks (`Idle`), and that in use, parked once and not dialled yet exclude each
  other. The exclusion is needed because a call that fails drops its connection: were it
  shared, another call would be left without one. `AnswersSafe` (`AnswersOwnRequest`) and
  `ParkedSafe` (`ParkedQuiet`) assume `InterimUnshared`: no request whose connection may be
  shared is answered with a 1xx response first. It is needed: without it the run
  `http1_interim` finds a connection parked with an answer still to come. `ExchangeInv`
  follows the bytes of one exchange from the write to the last byte of the body: at each
  position of the call, what the server still handles and what is on the wire are of this
  request, in order (`HeadStage`, `BodyStage`), and a connection where the call has read
  everything is `Quiet`, as is everything parked. `CapsHonoured` (`PoolWithinCaps`) counts
  the places of a pool, (host, index) pairs, since the cap over all keys is on their number.
  `Quiet` at release is the point: the framing of a response without a body, of a fixed
  length, and of one that lasts until the connection closes must each have taken all that
  was sent.

* **ClientsProofs**: `AlwaysWhole` (`Whole`, with its two exceptions of section 3),
  `AlwaysPaired` (`RepliesPaired`) and `AlwaysInSequence` (`InSequence`), for all nine
  clients and any payload: files, mails, listings and definitions of any length, any number
  of entries, pings, media packets and retained messages, any capabilities of an IMAP
  server. `ClientsAssumption` says that these are sequences of text, that no line of a POP3
  listing begins with a dot (the server does not stuff it, and it is a message number), that
  a WebSocket message has a part, and that where a question mark is in a Gopher wish, it
  begins the words that are searched for. `ClientsInv` is one invariant per protocol, by
  where the client is. At each place it says which command is on its way, or which replies
  are; what the client has of the payload; and how far the server is. An answer that is on
  its way when the client asks for something else is what would break `RepliesPaired`, so
  the invariant excludes it; the exceptions are the ones that the code must see through:
  media between RTSP responses and one repeated under an old CSeq, PINGRESP and retained
  messages of MQTT, LDAP notices under message id 0, WebSocket pings, and the plaintext that
  an IMAP server has put behind its answer to STARTTLS. Where a reply is one of many, in
  DICT, LDAP and WebSocket, what is on its way is a `Course`: reply by reply, each a
  `...Step` from one place in the payload to the next, it leads from what the client has to
  what the server has sent. A server that sends more makes the course longer at its end
  (`CourseSent`), a client that reads shortens it at its beginning (`CourseRead`), and a
  whole text block is put on at once (`CourseJoin`, `CourseSpelled`). At the terminator or
  the final status, the place is the end of the payload, so what the client has is all of
  it. For POP3 it is enough to count lines; `Stuffed` says that a stuffed line is never the
  terminator and reads as what it was. For FTP, `FtpTransfer` relates the two connections:
  while the transfer runs, what was stored, what is in the data connection and what is still
  to be written are together the file; and a good final reply on the control connection is
  there only after the last chunk (`FtpEnds`, `FtpComplete`). This is why the client has to
  wait for that reply after the data connection ended: the end alone may be a failure.

Only model-checked: liveness (outside the prover's reach, as is ENABLED): `BatchReturns`,
`CallsReturn`, `TransferReturns`, `TransferSucceeds`, `CallReturns`; `TypesOK` of `MCTftp`
as composed, each half of which is a theorem (`FetchTypeCorrect`, `StoreTypeCorrect`).

## 5. Abstractions worth knowing

* Time is the clock of `Redirect` only. Elsewhere a timeout may happen whenever its
  wait may last, which is more than can happen.
* A TFTP packet that is too short or has an unexpected opcode is `ErrorTo`: the code
  ends the transfer on all of them alike.
* Byte counts stand for bytes. That body bytes are the right bytes is the order in
  which whole frames, chunks or bodies are taken, which is modelled.
* `H2Multiplex` starts from a connection that is fresh or idle from the pool, with the settings
  and windows that earlier requests left (`Leftovers`). The preface and the first SETTINGS
  exchange are before it.
* A unidirectional HTTP/3 stream never fills the 64 KiB of `MAX_UNI_BUFFER`: that refusal
  (http3.rs:1537) is not among those of `Http3!Drained`.
* `Ftp!PortOf` says whether a reply names a port; `parse_epsv` and `parse_pasv` are not modelled.
* `SendHttps` has one authority: the pool is keyed by it, so others do not matter.
  Connections through a proxy are made the same way and share its key (http2.rs:2930).
* The HTTP/3 server sends a section after the inserts it needs; that it may arrive before
  them is what `RefusedOnlyOvertaken` allows the client to refuse, since it announces no
  blocked streams.
* A reply of a command protocol is its code, or its status and payload; lines, tags and
  quoting are below the model, except where the code's framing depends on them
  (dot-stuffing, text blocks, literals, reply codes).
* A run's initial `cookies.txt` was written by somebody else; "set by" then means the
  domain that a line names.

## 6. Plan

Done: HTTP/2 with its driver, pool and routing; HPACK, QPACK and the HTTP/3 exchange;
HTTP/1.1 with its pool; redirects and cookies up to the command line; TFTP; all command
protocols and WebSocket. Proofs for the driver's bookkeeping, TFTP, redirects,
cookies, version routing, HPACK, the HTTP/3 exchange, HTTP/1.1 connections and pools, and the
nine other clients. What is left, in order:

1. `drive_until_stream_done` frame by frame on H2Connection, and a single request that shares
   its connection's state with the next.
2. The CONNECT tunnel in front of an exchange, AUTH TLS of FTP, the size budget of
   `decode_body`.

### Not modelled, and why

* Grammars over strings: URL parsing, response heads and chunk headers, Set-Cookie lines and
  dates, LDAP filters, BER, quoting. They are sequential functions whose inputs TLC
  could only enumerate character by character; the repository's unit tests are the
  better tool. The integer and Huffman codings of HPACK and QPACK likewise.
* TLS, SSH and QUIC are external crates, which keep the protocol state. What the rest relies
  on (how a peer was verified, what ALPN chose, in which order bytes arrive) is in the
  models. SFTP and SCP are glue around one of them.
* Compression codecs are external crates, and the layers of `decode_body` one loop.
* `file://` is one read. The C interface is a handle whose calls the application orders.
  Argument parsing and output of the command line are sequential glue.
