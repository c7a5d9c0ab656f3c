------------------------------ MODULE TftpFetch ------------------------------
(***************************************************************************)
(* tftp::fetch of src/tftp.rs (RRQ) against a TFTP server over UDP.  The    *)
(* server opens a session on a port of its own for every request datagram   *)
(* that reaches it, so a resent or duplicated request leaves several.      *)
(***************************************************************************)
EXTENDS Tftp

VARIABLES
    total,       \* chunks in the file
    peer,        \* Option<SocketAddr>, the latched TID
    out,         \* the chunks appended to `out`
    expected,    \* expected_block
    lastPacket,  \* last_packet with last_dest
    retries,
    result,
    srv,         \* srv[t] = [pos, blk]: the chunk session t is at (0: unused), its number
    net,
    losses

vars == <<total, peer, out, expected, lastPacket, retries, result, srv, net, losses>>
client == <<peer, out, expected, lastPacket, retries, result>>

\* Datagrams of a stranger, there from the start.
Strays == {Data(Stranger, Client, 1, 0), ErrorTo(Stranger)}

Init ==
    /\ total \in Files
    /\ peer = NoPeer /\ out = <<>> /\ expected = 1 /\ retries = 0 /\ result = "running"
    /\ lastPacket = Request
    /\ srv = [t \in Tids |-> [pos |-> 0, blk |-> 0]]
    /\ net = {Request} \cup (IF Persist THEN Strays ELSE {})
    /\ losses = 0

Size(chunk) == IF chunk = total THEN LastSize ELSE BlockSize

----------------------------------------------------------------------------
(* The client.                                                             *)

\* A datagram the transfer takes no notice of.
Ignore(m) ==
    /\ \/ ~FromPeer(peer, m.src)
       \/ m.op = "DATA" /\ m.block # expected /\ WrappingNext(m.block) # expected
    /\ net' = Received(net, m)
    /\ UNCHANGED client

\* The block before the expected one: acknowledged again.
Reack(m) ==
    /\ FromPeer(peer, m.src) /\ m.op = "DATA"
    /\ m.block # expected /\ WrappingNext(m.block) = expected
    /\ net' = Received(net, m) \cup {Ack(Client, m.src, m.block)}
    /\ UNCHANGED client

\* The expected block: latch the TID, store, acknowledge, and either return or
\* wait for the next one.
Accept(m) ==
    /\ FromPeer(peer, m.src) /\ m.op = "DATA" /\ m.block = expected
    /\ peer' = m.src
    /\ IF Len(out) * BlockSize + Size(m.chunk) > MaxTotalBytes
       THEN /\ result' = "toolarge"
            /\ net' = Received(net, m)
            /\ UNCHANGED <<out, expected, lastPacket, retries>>
       ELSE /\ out' = Append(out, m.chunk)
            /\ net' = Received(net, m) \cup {Ack(Client, m.src, m.block)}
            /\ IF Size(m.chunk) < BlockSize
               THEN result' = "ok" /\ UNCHANGED <<expected, lastPacket, retries>>
               ELSE /\ lastPacket' = Ack(Client, m.src, m.block)
                    /\ retries' = 0
                    /\ IF CheckedNext(expected) = NoBlock
                       THEN result' = "wrapped" /\ UNCHANGED expected
                       ELSE expected' = CheckedNext(expected) /\ UNCHANGED result

Abort(m) ==
    /\ FromPeer(peer, m.src) /\ m.op = "ERROR"
    /\ result' = "error"
    /\ net' = Received(net, m)
    /\ UNCHANGED <<peer, out, expected, lastPacket, retries>>

Receive ==
    /\ result = "running"
    /\ \E m \in net : /\ m.dst = Client
                      /\ Ignore(m) \/ Reack(m) \/ Accept(m) \/ Abort(m)
    /\ UNCHANGED <<total, srv, losses>>

\* recv_from timed out.
Timeout ==
    /\ result = "running"
    /\ Timely => net = {}
    /\ IF MayRetry(retries)
       THEN /\ retries' = RetriesAfter(retries)
            /\ net' = Resend(net, lastPacket)
            /\ UNCHANGED result
       ELSE /\ result' = "timeout"
            /\ UNCHANGED <<retries, net>>
    /\ UNCHANGED <<total, peer, out, expected, lastPacket, srv, losses>>

\* recv_from or a send_to fails; what the failing turn did before is dropped
\* with the rest of the transfer.
IoError ==
    /\ result = "running" /\ ~Timely
    /\ result' = "io"
    /\ UNCHANGED <<total, peer, out, expected, lastPacket, retries, srv, net, losses>>

----------------------------------------------------------------------------
(* The server and the network.                                             *)

DataOf(t, s) == Data(t, Client, s.blk, s.pos)

OpenSession ==
    /\ Request \in net
    /\ \E t \in Tids :
        /\ srv[t].pos = 0
        /\ srv' = [srv EXCEPT ![t] = [pos |-> 1, blk |-> 1]]
        /\ net' = Received(net, Request) \cup {DataOf(t, srv'[t])}
    /\ UNCHANGED <<total, losses, client>>

Refuse ==
    /\ Request \in net /\ ~Timely
    /\ \E t \in Tids : srv[t].pos = 0 /\ net' = Received(net, Request) \cup {ErrorTo(t)}
    /\ UNCHANGED <<total, srv, losses, client>>

\* A session's step on an ACK: the next chunk, or the current one again when
\* the previous one is acknowledged once more.
Answer ==
    /\ \E m \in net :
        /\ m.op = "ACK" /\ m.dst \in Tids
        /\ LET s == srv[m.dst]
               next == [pos |-> s.pos + 1, blk |-> WrappingNext(s.blk)]
           IN  \/ /\ m.block = s.blk /\ s.pos < total
                  /\ srv' = [srv EXCEPT ![m.dst] = next]
                  /\ net' = Received(net, m) \cup {DataOf(m.dst, next)}
               \/ /\ m.block # s.blk /\ WrappingNext(m.block) = s.blk
                  /\ net' = Received(net, m) \cup {DataOf(m.dst, s)}
                  /\ UNCHANGED srv
               \/ /\ m.block = s.blk => s.pos = total
                  /\ m.block # s.blk => WrappingNext(m.block) # s.blk
                  /\ net' = Received(net, m)
                  /\ UNCHANGED srv
    /\ UNCHANGED <<total, losses, client>>

Lose ==
    /\ ~Persist /\ losses < MaxLosses
    /\ \E m \in net : net' = net \ {m}
    /\ losses' = losses + 1
    /\ UNCHANGED <<total, srv, client>>

Finished == result # "running" /\ UNCHANGED vars

Next == Receive \/ Timeout \/ IoError \/ OpenSession \/ Refuse \/ Answer
        \/ Lose \/ Finished

Spec == Init /\ [][Next]_vars

----------------------------------------------------------------------------
(* Properties.                                                             *)

\* Type correctness, with the retry count within MAX_RETRIES and block numbers
\* within u16.
TypeOK ==
    /\ total \in Files
    /\ peer \in Tids \cup {NoPeer}
    /\ out \in Seq(Nat) /\ Len(out) <= MaxBlock
    /\ expected \in 1..MaxBlock
    /\ retries \in 0..MaxRetries
    /\ result \in Outcomes
    /\ srv \in [Tids -> [pos : Nat, blk : 0..MaxBlock]]

\* fetch implements FileTransfer: `out` is always a prefix of the file, however
\* datagrams are lost, duplicated, delayed and reordered and whatever sessions
\* the server opened, and Ok is returned only with the whole file.
Transfer == INSTANCE FileTransfer WITH
    received <- out,
    ended <- IF result = "running" THEN "no" ELSE IF result = "ok" THEN "ok" ELSE "failed"
FetchesFile == Transfer!Spec

\* Only the latched session is ever fed: a session that a resent request opened
\* stays at its first block.
OneSessionFed == \A t \in Tids : srv[t].pos > 1 => t = peer
=============================================================================
