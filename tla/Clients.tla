------------------------------ MODULE Clients ------------------------------
(***************************************************************************)
(* The clients of the command protocols side by side: a call of one of      *)
(* them, the scheme of its URL, against its server.                        *)
(***************************************************************************)
EXTENDS Dialogue

CONSTANTS
    Text,
    Remote, Body, Offset, Cap,       \* of Ftp
    Messages, Listings,              \* of Pop3
    Texts, Definitions,              \* of Dict
    MaxMedia,                        \* of Rtsp
    Posts,                           \* of Mqtt
    Results,                         \* of Ldap
    ClearCaps, TlsCaps, Mails,       \* of Imap
    Contents, MaxPayload, MaxPings,  \* of WebSocket
    Selectors, Words, MaxResponse    \* of Gopher

\* Text is what lines, paths, entries and messages are made of; chunks are numbers.
ASSUME ClientsAssumption ==
    /\ {".", "/", "7", "?", "TAB"} \subseteq Text
    /\ Remote \in Seq(Nat) /\ Body \in Seq(Nat) /\ Offset \in 0 .. Len(Remote) /\ Cap \in Nat
    /\ \A lines \in Messages \cup Listings \cup Texts : lines \in Seq(Seq(Text))
    /\ \A lines \in Listings : \A i \in 1 .. Len(lines) : lines[i] # <<>> => lines[i][1] # "."
    /\ \A blocks \in Definitions : blocks \in Seq(Seq(Seq(Text)))
    /\ \A entries \in Results : entries \in Seq(Text)
    /\ MaxMedia \in Nat /\ MaxPayload \in Nat /\ MaxPings \in Nat /\ MaxResponse \in Nat
    /\ \A content \in Contents : content \in Seq(Text) /\ content # <<>>
    /\ \A selector \in Selectors : selector \in Seq(Text) /\ \A i \in 1 .. Len(selector) : selector[i] # "?"
    /\ \A words \in Words : words \in Seq(Text) /\ (words # <<>> => words[1] = "?")

VARIABLE scheme
allVars == <<vars, scheme>>

F == INSTANCE Ftp
P == INSTANCE Pop3
D == INSTANCE Dict
R == INSTANCE Rtsp
M == INSTANCE Mqtt
L == INSTANCE Ldap WITH Listings <- Results
I == INSTANCE Imap
W == INSTANCE WebSocket
G == INSTANCE Gopher

Init ==
    \/ scheme = "ftp" /\ F!Init
    \/ scheme = "pop3" /\ P!Init
    \/ scheme = "dict" /\ D!Init
    \/ scheme = "rtsp" /\ R!Init
    \/ scheme = "mqtt" /\ M!Init
    \/ scheme = "ldap" /\ L!Init
    \/ scheme = "imap" /\ I!Init
    \/ scheme = "ws" /\ W!Init
    \/ scheme = "gopher" /\ G!Init

ClientStep ==
    /\ UNCHANGED scheme
    /\ \/ scheme = "ftp" /\ F!Client
       \/ scheme = "pop3" /\ P!Client
       \/ scheme = "dict" /\ D!Client
       \/ scheme = "rtsp" /\ R!Client
       \/ scheme = "mqtt" /\ M!Client
       \/ scheme = "ldap" /\ L!Client
       \/ scheme = "imap" /\ I!Client
       \/ scheme = "ws" /\ W!Client
       \/ scheme = "gopher" /\ G!Client

ServerStep ==
    /\ UNCHANGED scheme
    /\ \/ scheme = "ftp" /\ F!Server
       \/ scheme = "pop3" /\ P!Server
       \/ scheme = "dict" /\ D!Server
       \/ scheme = "rtsp" /\ R!Server
       \/ scheme = "mqtt" /\ M!Server
       \/ scheme = "ldap" /\ L!Server
       \/ scheme = "imap" /\ I!Server
       \/ scheme = "ws" /\ W!Server
       \/ scheme = "gopher" /\ G!Server

Fault ==
    /\ UNCHANGED scheme
    /\ \/ scheme = "ftp" /\ (F!Fail \/ F!Die)
       \/ scheme = "pop3" /\ P!Die
       \/ scheme = "dict" /\ D!Die
       \/ scheme = "rtsp" /\ (R!Repeat \/ R!Die)
       \/ scheme = "mqtt" /\ (M!Publish \/ M!Ping \/ M!Die)
       \/ scheme = "ldap" /\ (L!Notice \/ L!Die)
       \/ scheme = "imap" /\ I!Die
       \/ scheme = "ws" /\ (W!Ping \/ W!Close \/ W!Die)
       \/ scheme = "gopher" /\ G!Die

Stop == pc = "done" /\ UNCHANGED allVars

Next == ClientStep \/ ServerStep \/ Fault \/ Stop

Spec == Init /\ [][Next]_allVars

\* The client goes on as long as it can, and its reads time out in DICT, RTSP, LDAP, WebSocket
\* and Gopher.
\* FTP, POP3, IMAP and MQTT set no timeout: their calls return if the server acts.
Untimed == {"ftp", "pop3", "imap", "mqtt"}

FairSpec ==
    /\ Spec
    /\ WF_allVars(ClientStep)
    /\ WF_allVars(scheme \in Untimed /\ ServerStep)

----------------------------------------------------------------------------
\* A call never returns Ok with a part: what it returns is the whole file, message, listing,
\* definitions or entries as the server has them, or the upload is stored (the framing of
\* each protocol: data connection and final reply, dot-stuffing, text blocks, literals,
\* message ids, fragments, the end of the stream).  Twice it may return Ok with nothing
\* where there was something: a WebSocket server closed before its message was complete
\* (websocket.rs:624, though 616-619 promise what was collected), and an IMAP
\* server sent the message as a quoted string (imap.rs:237).
Whole ==
    CASE scheme = "ftp"  -> F!Whole
      [] scheme = "pop3" -> P!Whole
      [] scheme = "dict" -> D!Whole
      [] scheme = "rtsp" -> R!Whole
      [] scheme = "mqtt" -> M!Whole
      [] scheme = "ldap" -> L!Whole
      [] scheme = "imap" -> I!Whole
      [] scheme = "ws"   -> W!Whole
      [] scheme = "gopher" -> G!Whole

\* Every reply that a client acted on answers the command it took it for (two banners,
\* bytes in the clear behind STARTTLS, repeated responses, media and unsolicited
\* packets between the replies).
RepliesPaired == inStep

\* No client sends a command out of the server's sequence (a login skipped, LOGIN where
\* it is disabled, PLAY without the session, a transfer before TYPE I).
InSequence == ~server.refused

\* Every call returns: no client waits for a reply that is not due.
CallReturns == <>(pc = "done")
=============================================================================
