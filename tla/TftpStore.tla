------------------------------ MODULE TftpStore ------------------------------
(***************************************************************************)
(* tftp::store of src/tftp.rs (WRQ) against a TFTP server over UDP.  As in  *)
(* TftpFetch, each request datagram that arrives opens a session.          *)
(***************************************************************************)
EXTENDS Tftp

VARIABLES
    total,       \* chunks in the upload, the short last one included
    peer,        \* Option<SocketAddr>, the latched TID
    block,       \* the block waiting to be acknowledged, 0 for the request
    offset,      \* sent_offset, as the chunk that starts there
    sentFinal,   \* sent_final
    lastPacket,  \* last_packet with last_dest
    retries,
    result,
    srv,         \* srv[t] = [open, got, blk]: the chunks session t wrote, its last block
    net,
    losses

vars == <<total, peer, block, offset, sentFinal, lastPacket, retries, result, srv, net, losses>>
client == <<peer, block, offset, sentFinal, lastPacket, retries, result>>

Size(chunk) == IF chunk = total THEN LastSize ELSE BlockSize
UploadBytes == (total - 1) * BlockSize + LastSize

Strays == {Ack(Stranger, Client, 0), ErrorTo(Stranger)}

\* The size check comes first; then the request is sent.
Init ==
    /\ total \in Files
    /\ peer = NoPeer /\ block = 0 /\ offset = 0 /\ sentFinal = FALSE /\ retries = 0
    /\ lastPacket = Request
    /\ srv = [t \in Tids |-> [open |-> FALSE, got |-> <<>>, blk |-> 0]]
    /\ result = IF UploadBytes > MaxTotalBytes THEN "toolarge" ELSE "running"
    /\ net = (IF result = "running" THEN {Request} ELSE {}) \cup (IF Persist THEN Strays ELSE {})
    /\ losses = 0

----------------------------------------------------------------------------
(* The client.                                                             *)

\* Mutant: any acknowledgement advances the transfer.
MutAnyAck(m) == m.op = "ACK"

\* An ACK of the block the client waits for.
Acknowledges(m) == m.op = "ACK" /\ m.block = block

Ignore(m) ==
    /\ ~FromPeer(peer, m.src) \/ (m.op = "ACK" /\ ~Acknowledges(m))
    /\ net' = Received(net, m)
    /\ UNCHANGED client

\* The awaited ACK: latch the TID, then return after the final block, give up
\* at the last block number, or send the next block.
Advance(m) ==
    /\ FromPeer(peer, m.src) /\ Acknowledges(m)
    /\ peer' = m.src
    /\ LET chunk == IF block = 0 THEN 1 ELSE offset + 1
           next  == CheckedNext(block)
           dgram == Data(Client, m.src, next, chunk)
       IN  IF sentFinal
           THEN /\ result' = "ok"
                /\ net' = Received(net, m)
                /\ UNCHANGED <<block, offset, sentFinal, lastPacket, retries>>
           ELSE IF next = NoBlock
           THEN /\ result' = "wrapped"
                /\ net' = Received(net, m)
                /\ UNCHANGED <<block, offset, sentFinal, lastPacket, retries>>
           ELSE /\ net' = Received(net, m) \cup {dgram}
                /\ block' = next /\ offset' = chunk /\ sentFinal' = (Size(chunk) < BlockSize)
                /\ lastPacket' = dgram /\ retries' = 0
                /\ UNCHANGED result

Abort(m) ==
    /\ FromPeer(peer, m.src) /\ m.op = "ERROR"
    /\ result' = "error"
    /\ net' = Received(net, m)
    /\ UNCHANGED <<peer, block, offset, sentFinal, lastPacket, retries>>

Receive ==
    /\ result = "running"
    /\ \E m \in net : m.dst = Client /\ (Ignore(m) \/ Advance(m) \/ Abort(m))
    /\ UNCHANGED <<total, srv, losses>>

\* recv_from timed out.
Timeout ==
    /\ result = "running"
    /\ Timely => net = {}
    /\ IF MayRetry(retries)
       THEN /\ retries' = RetriesAfter(retries)
            /\ net' = Resend(net, lastPacket)
            /\ UNCHANGED result
       ELSE /\ result' = "timeout"
            /\ UNCHANGED <<retries, net>>
    /\ UNCHANGED <<total, peer, block, offset, sentFinal, lastPacket, srv, losses>>

\* recv_from or a send_to fails.
IoError ==
    /\ result = "running" /\ ~Timely
    /\ result' = "io"
    /\ UNCHANGED <<total, peer, block, offset, sentFinal, lastPacket, retries, srv, net, losses>>

----------------------------------------------------------------------------
(* The server and the network.                                             *)

OpenSession ==
    /\ Request \in net
    /\ \E t \in Tids :
        /\ ~srv[t].open
        /\ srv' = [srv EXCEPT ![t].open = TRUE]
        /\ net' = Received(net, Request) \cup {Ack(t, Client, 0)}
    /\ UNCHANGED <<total, losses, client>>

Refuse ==
    /\ Request \in net /\ ~Timely
    /\ \E t \in Tids : ~srv[t].open /\ net' = Received(net, Request) \cup {ErrorTo(t)}
    /\ UNCHANGED <<total, srv, losses, client>>

\* A session's step on DATA: the next block is written and acknowledged, the
\* last one again is only acknowledged, any other is dropped.
Write ==
    /\ \E m \in net :
        /\ m.op = "DATA" /\ m.dst \in Tids
        /\ LET s == srv[m.dst]
           IN  \/ /\ m.block = WrappingNext(s.blk)
                  /\ srv' = [srv EXCEPT ![m.dst] = [open |-> TRUE, got |-> Append(s.got, m.chunk),
                                                    blk |-> m.block]]
                  /\ net' = Received(net, m) \cup {Ack(m.dst, Client, m.block)}
               \/ /\ m.block = s.blk
                  /\ net' = Received(net, m) \cup {Ack(m.dst, Client, m.block)}
                  /\ UNCHANGED srv
               \/ /\ m.block \notin {s.blk, WrappingNext(s.blk)}
                  /\ net' = Received(net, m)
                  /\ UNCHANGED srv
    /\ UNCHANGED <<total, losses, client>>

Lose ==
    /\ ~Persist /\ losses < MaxLosses
    /\ \E m \in net : net' = net \ {m}
    /\ losses' = losses + 1
    /\ UNCHANGED <<total, srv, client>>

Finished == result # "running" /\ UNCHANGED vars

Next == Receive \/ Timeout \/ IoError \/ OpenSession \/ Refuse \/ Write \/ Lose \/ Finished

Spec == Init /\ [][Next]_vars

----------------------------------------------------------------------------
(* Properties.                                                             *)

\* Type correctness, with the retry count within MAX_RETRIES and block numbers
\* within u16.
TypeOK ==
    /\ total \in Files
    /\ peer \in Tids \cup {NoPeer}
    /\ block \in 0..MaxBlock /\ offset \in 0..total /\ sentFinal \in BOOLEAN
    /\ retries \in 0..MaxRetries
    /\ result \in Outcomes
    /\ srv \in [Tids -> [open : BOOLEAN, got : Seq(Nat), blk : 0..MaxBlock]]

\* store implements FileTransfer: what the latched session wrote is always a
\* prefix of the upload, and Ok is returned only when it wrote all of it.
Transfer == INSTANCE FileTransfer WITH
    received <- IF peer = NoPeer THEN <<>> ELSE srv[peer].got,
    ended <- IF result = "running" THEN "no" ELSE IF result = "ok" THEN "ok" ELSE "failed"
StoresFile == Transfer!Spec
=============================================================================
